# Route Agent: a verification development

TLA+ models of the routing control plane in `route_agent/`, the TLC runs that
check them on small instances, and TLAPS proofs of what holds for every
instance. Paths below are relative to the repository's `route_agent/`; file and
line of every definition are in `PROJECT.json` ("map").

## 1. The system

Route Agent decides which model serves a request; it does not proxy the call.
Clients ask for a route, execute the model themselves and report what happened:
first that the execution succeeded or failed, then, perhaps, how good the result
was. Everything the router learns it learns from these reports, so the state
worth verifying is the state that reports move.

| Component | State | Operations | Hard behaviour | Correct when |
|---|---|---|---|---|
| Model health (`router_engine/health.py`, `storage/router_storage.py` 160-660) | `model_availability`: status available / degraded / unable, counters and timestamps; `class_model_stats`: streaks per class | good and bad ratings, failed and successful executions, the hourly probe | every handler is a chain of awaits, one SQLite transaction each, and decides from rows it read before; the probe is slow; handlers die | recovery is earned, an outage is left by a probe only, counters agree, an unable model is in no pool |
| Feedback pipeline (`engine.py` 213-397) | `feedback_events`, UNIQUE (request, model, kind) | `report_execution_async`, `report_quality_async` | reports are repeated, concurrent, out of order, and die between the record and its effects | each outcome takes effect once, in order, after what it depends on |
| Downgrade trials (`downgrade.py`) | `downgrade_trials`: one active row per class and domain, cooldowns | start, observe, judge, promote, roll back, canary choice | a verdict is reached awaits after the observation; the row is closed by class and domain | trials end, for reasons of their own, and cooldowns are kept |
| Class pool and default (`class_pool.py`, `defaults.py`) | `class_pool`, `class_pool_defaults` | entry on good ratings, eviction by age and outage, manual add / remove, promotion, revocation, override, lookup | count-then-insert, compare-then-write, ids read once and used for long | bounded pool, protected default, overrides kept |
| Class resolution and review (`class_pool.py` 138-165, `router_storage.py` 948-1110) | aliases, review queue | resolve, enqueue, apply a review, merge, clean up | a nested write connection while a transaction is open; a locked database | every request gets a class; a review stays |
| Selection and scoring (`selector.py`, `scorer.py`) | the class pool, seeded and verified on the way | filter, rank, compose candidates, choose where to start | many guards over stale readings; concurrent requests seed and verify the same pool | a verified pool is not left short; the chain of a thin pool has the strongest model on top |
| Escalation (`escalation.py`) | attempts and an index, per request | record an attempt, next action, overload check | the index moves with the attempts | climbs strictly, ends at the top or with an alert |
| Rate limiters (`rate_limiters/`) | request windows, concurrency per traffic type; in memory or in Redis | check, start, end | check and start are apart; Redis keys expire while requests run | a counter never says more than what runs |
| Federation server (`federation/server/`, `federation/api/`) | leases in memory; outcome counters and versions in SQLite | acquire, release, report, query | expiry races release; two reports cross the threshold | leases bound contention; a significant change bumps the version |
| Federation client (`federation/client/`) | mappings and scores in SQLite, known versions in memory | route, release, report, sync | lost and delayed calls, fallback without a lease, restarts | scores converge; an outcome is not counted twice |
| Task analyzer (`task_analyzer/`) | embeddings in memory and in SQLite, analysis records with two halves of feedback | match, ask a chain of analyzers with retries, record attempts, add feedback | threads share memory without a lock; analyzers time out one after another; read-merge-write of feedback | a task is compared with all classes, records tell the attempts, feedback is kept |
| Model registry (`model_registry/`) | snapshots, one row per provider | refresh, persist, prune, fall back | calls overlap; stamps and commits in different order; the allow-list changes | the last good list survives failures, rows tell the last attempt, nothing barred is served |
| Pricing and leaderboards (`model_registry/pricing/`, `arena/`) | prices, a scraper's memory, a copy in SQLite | ask, refresh, expire, fill capabilities | pages fail and come back; the work over the network is outside the lock | an outage costs nothing that was known, and ends |
| Monitoring (`monitoring/`, `app/monitoring.py`) | execution rows, decisions | start, end, clean up, watch | starts and ends are two writes in best effort; an id may be started again; reads fail | only lost ends leave a row running; the watcher catches up |
| Wiring, API, CLIs (`app/`, `api/`) | a cached engine and storage | build, route, render | an engine per pool object, so per request | see the components above |

How they interact: the API or a client calls `app/orchestrator.py`, which
resolves an analysis, gets the cached engine and routes. The engine's selector
reads availability, limits, the pool and the default; the trial manager may
replace the winner by a challenger. Reports enter `engine.py`, which records the
event and then calls, in this order, the analysis storage, the health manager,
the class pool (which calls the default store) and the trial manager. All of
them share one SQLite database through `RouterStorage`; a storage call is one
transaction run in a thread, so between two awaits any other report, of this
process or another, may run. A federation client runs the same engine locally
and reports each outcome to the central server as well.

## 2. Modules

| Module | Models | Source |
|---|---|---|
| `Availability` | rows, streaks, the pools a model is in, handlers per storage call, the probe loop, crashes | `health.py`, `engine.py` 184-202, `router_storage.py` 160-660 |
| `EventLedger` | what the feedback log promises of an execution (abstract) | the contract that `engine.py` 213-397 keeps |
| `Feedback` | the feedback pipeline per await; implements `EventLedger` | `engine.py` 213-397, `router_storage.py` 1240-1260 |
| `DowngradeTrial` | trials, verdicts, cooldowns, per await | `downgrade.py` 151-339, `engine.py` 263-331, `router_storage.py` 1297-1513 |
| `ClassPool` | the pool and default of one class, per transaction | `class_pool.py` 179-388, `defaults.py` |
| `FederationScores` | how outcomes reach other applications: counters, marks, versions, the client's synchronisation | `federation/server/outcome_processor.py`, `federation/server/storage.py` 320-510, `federation/client/sync.py` 68-125, `local_store.py` 348-386 |
| `LeasePermits` | what the server promises about leases (abstract) | the contract of `lease_limiter.py` 59-81 |
| `Leases` | acquire, release, expiry, and the clients that ask and hold; implements `LeasePermits` | `federation/server/lease_store.py`, `lease_limiter.py`, `federation/api/routes.py` 148-263, `federation/client/route_client.py` 168-435 |
| `SeededPools` | requests that verify, refill and lazily seed the pool of a class, per storage call | `engine.py` 94-132, `selector.py` 166-180, `class_pool.py` 334-480 |
| `Executions` | candidates, limiter, attempts, escalation | `selector.py` 182-529, `rate_limiters/`, `escalation.py` |
| `TaskClasses` | how a request gets its class: embeddings, analyzers, resolution; the review queue | `app/analysis.py`, `task_analyzer/profile_analyzer.py`, `client.py`, `analyzer.py` 221-353, `router_storage.py` 951-1110 |
| `AnalysisRecords` | the records of `analyze_with_fallback`, their routed model and feedback | `task_analyzer/analyzer.py` 77-204, 361-389, `task_analyzer/storage.py` |
| `Monitoring` | execution rows and the watcher | `monitoring/storage.py`, `monitoring/service.py`, `app/monitoring.py` 81-120 |
| `RegistrySync` | snapshots, provider rows, due check, allow-list, fallback | `model_registry/service.py`, `registry.py`, `storage/sqlite.py`, `storage/postgres.py`, `providers/factory.py`, `providers/vendors.py` |
| `MetadataCaches` | dynamic prices and arena leaderboards, in memory and in SQLite | `model_registry/pricing/dynamic.py`, `providers/utils.py` 285-491, `arena/` |
| `Sublists` | a list filtered by the positions to keep, for `Executions` and `Monitoring` | Python's list comprehensions and SQL's DELETE |
| `RouteRequests` | the five parts of a request's way (`TaskClasses`, `SeededPools`, `Executions`, `AnalysisRecords`, `Monitoring`) side by side | the modules it composes |
| `ModelReports` | the two parts a report of the registry rests on (`RegistrySync`, `MetadataCaches`) side by side | the modules it composes |
| `MCDowngradeTrial`, `MCFederationScores`, `MCLeases`, `MCModelReports`, `MCRouteRequests` | symmetry sets, price list, bounds on reports, alternatives, provider listings, category fields, rankings, for TLC | |
| `*Proofs` | theorems about the module of that name | |

Conventions shared by the modules:

- `Handlers` are slots for requests in work. A slot holds the step the request
  is at (`pc`) and what it has read; an action is one storage call together
  with the synchronous code up to the next await, so it is as atomic as the
  transaction and no more.
- `Die` (in `Availability`, `Abandon`) ends a request half way: the process
  stops, or a storage call raises (`sqlite3.OperationalError: database is locked`
  after the busy timeout). Histories (`lost`, `abandoned`) remember it where a
  property must excuse it.
- Counters are compared with one threshold each and stop there (`UpTo`); in the
  properties only the comparison matters.
- Scores, Wilson bounds, prices beyond their order, and rate limits decide
  which way a reading goes; the reading is a choice, so a property that holds,
  holds whatever the scores are.

### Availability

`avail[m]` is the row of the model, `stats` the streaks of `class_model_stats`,
`pooled` the classes whose pool lists it. `on_quality_good_async` is
`QualityGood`, `GoodRead`, `GoodProbe`, `GoodMark`; `on_quality_fail_async` is
`QualityFail`, `FailRead`, `FailProbe`, `FailMark`; a failed execution is
`ExecFail`, then `ExecMark` (provider unreachable) or `ExecCount`; a successful
one is `ExecSuccess`. `ProbeList`, `ProbeCall` and `ProbeWrite` are
the loop of `probe_unable_models_async`. A timestamp is kept as the outcome of the
comparison the code makes with it ("cooling", "elapsed", "due"); the passing of
the cooldowns, the probe interval and the reachability of providers are
environment actions.

### Feedback

`events[e]` are the rows of the execution e, a (request, model) pair; `applied`
counts how often each effect of each outcome happened. `TryRecord` is the
INSERT OR IGNORE, with the NULL request id that the NOT NULL column ignores.
`ReportExecution` records at once; `ReportQuality` reads and `RecordQuality`
records in another transaction, as the code does. `Apply` performs one effect
and moves to a successor listed by `After`; `turn` and `note`, the end or start
of a trial and the log entry about it, depend on the trial and are optional.
`LedgerView` maps the state to the abstract fate of each outcome.

### DowngradeTrial

`trial[d]` is the active row of a domain, `cooling` the rolled-back challengers.
`Observe` and `Count` are `record_downgrade_trial_observation`: the SELECT, which opens
no transaction, and the UPDATE by the row's id, which counts on a row that has been
closed in between as well (`stale`), with the verdict drawn from
the row it returns. Two observations never lose a count, because the UPDATE
adds to what is there. `ReadStats` to `ReadBack` are the promotion check;
`Finish` closes the active row; `LookForActive` to `Start` are
`maybe_start_downgrade_trial_async`. The engine ignores a rollback verdict that
comes back to a good rating (`engine.py` 263-300), and so does `ActOn`.

### ClassPool

`pool`, `default` and the two facts about models that the manager asks for,
`unable` and `registered`. `RateGood` performs `try_add_to_pool`, one
BEGIN IMMEDIATE transaction; `ReadEntries`, `ReadDefaultIds`, `Check`, `Evict` are
`evict_check`; `Credit` to `Promote` and `Blame` to `Revoke` are the two halves of
`DefaultsStore`; `ManualAdd` and `Insert`, `ManualRemove` to `Remove`, `Override`,
`Lookup` and `Drop` are the operator's and the router's calls. A slot in
`Operators` may serve the add / remove channel; with `Operators = {}` only ratings
touch the pool. `GoesDown` is the transition to unable as `Availability` has it, for
the models `Failing`; the registry may drop those `Leaving`. `strays` is a history:
members that are down and that no eviction check is left to take out, because an operator
added them or the request died.

### FederationScores

A report is three transactions of the server: `Report` counts and compares with the
mark it reads back, `Mark` writes the count that the report saw (which may be older
than the mark there is), `Bump` raises the version of the class; `Die` ends a report
between them. `Poll` reads all versions in one request and makes the list of classes
to fetch; `Fetch` is the server's answer, `Save` the client's transaction and the entry
in `_known_versions`. `Fail` is any exception: it ends the round, and the classes
that are left wait for the next one. The scores are in a file, the known versions
in memory (`Restart`). `counted` and `missed` are histories: what a bump announced,
and whether a report died since.

### Leases

`lease[i]` follows the i-th call of acquire: sent, stored (`live` until its time to
live is over, then `overdue` until somebody cleans up), released, or dropped by
expiry or a restart, and its id is used again when nobody speaks of it any more
(`Forget`), so calls never end. `run[s]` is an execution: it asks (`Propose`), gets the answer
(`Receive`) or does not (`FallBack`), runs, and releases (`Finish`) or not (`Abandon`).
The server may serve a call whose client has given up. `Active` counts what
`active_count` counts; `Mode` is `decide_mode`. `LeasePermits` knows only who may run
his own proposal; the mapping takes the live leases of local mode.

### SeededPools

`Route` reads `_pools_verified`; `Verify` to `Verified` are
`verify_seeded_pools_async`, `Seed`, `Add` and `Write` are `seed_pool_async` with
the check and the write of `manual_add_to_pool` apart; `Read` is the lookup of the selector,
which seeds an empty pool and reads it once more. `disturbed` is a history: a storage
call failed, or a request seeded for itself, since the engine was built.

### Executions

`Select` takes any of the candidate lists that `Compose` makes from any pool, order and
set of models that pass the filter, and any start in it (preference, challenger,
default, pool member, complexity). `Start` and `End` are the caller's calls to the
limiter around an attempt, `Escalate` one call of `escalate_with_overload_check_async`,
`Alert` the end of a chain whose top has failed. `redis` says where the counters are;
`KeyExpires` drops one under requests that still run.

### TaskClasses

`Ensure`, `Embed` and `Keep` are `_ensure_class_embeddings` of threads that share the
dictionaries; `Match` is `match` and the second one within `analyze`; `Invoke` is an
attempt of `ainvoke_with_retry` with the rest of the chain in `AfterFailure`;
`ResolveClass` and `Enqueue` may come twice, because the engine resolves again when
the pool is empty. `Merge` holds the write lock until `MergeFails`.

### AnalysisRecords

`DoAnalysis`, `Answered` and `Failed` are one turn of the chain with its record, unless the
exception is none of the analyzer's own and ends the chain without one;
`ReadFeedback` and `WriteFeedback` are the SELECT and the UPDATE of the two functions
that add a half of the feedback.

### Monitoring

`rows` is kept in the order of `updated_at`. `StartRoute` and `EndRoute` are
`record_route_execution`, `StartApi` and `EndApi` the HTTP endpoints, which start and end
any id, those of routings too (`opened` remembers them), `Poll` one turn of
`iter_agent_model_status` with `only_changes`. A row that outlives the retention is `old`
and goes with the next write.

### RegistrySync

A call is `Call` (schema, last good snapshot, allow-list), `CheckDue`, `BuildReport`
(the providers are asked outside any transaction), `SaveSnapshot` (one transaction:
snapshot, pruning, provider rows). `newestGood`, `committed` and `barred` are histories.

### MetadataCaches

`RefreshIfNeeded`, `FetchPages`, `Replace` and `ReadPrice` follow `get_price` and
`get_price_meta` from one acquisition of the lock to the next; `LookInMemory` to `Load`
are the three levels of `get_leaderboard`; `Save` leaves the copy in SQLite young or as old
as it was; `BatchFill` fills what a model lacks.

### ModelReports

A report lists what `RegistrySync` keeps and is given prices and capabilities by
`MetadataCaches`; the two share no variable, and neither prices nor capabilities decide
which models are listed. So a behaviour is one of a single part (`focus`) while the other
stands still. `Parts` says which parts behaviours may be of: the two runs each take one,
because the registry is checked with symmetry and the caches with fairness. The
assumptions on the constants of both parts are here; `MCModelReports` is the instance
for TLC. The proofs do not lean on `focus`.

### RouteRequests

A request passes through five parts that share no variable: the next one takes what
the one before hands on from a small set that covers it. So the parts need not be
interleaved: a behaviour of `RouteRequests` is one of a single part (`focus`), chosen
at the start, while the others stand still, and one run checks them all. Requests are
alike, so the liveness of one of them (`One`) is asked, while the other may stop anywhere.
`MCRouteRequests` is its instance for TLC. The proofs do not lean on `focus`: each
invariant is kept by every step of its own part.

## 3. Runs

Deadlock is checked in every run (reports and requests may always arrive).

| Run | Instance | Shows |
|---|---|---|
| `AvailabilitySerial` | 1 model, 2 classes, thresholds 2, probe streak 3, 1 report at a time, 1 crash, fair | `ProbeCountersInStep`, `SelectableBelowThreshold`; `RecoveryIsEarned`, `UnableLeftOnlyByProbe`, `ProbeNeverTakesDown`: the documented rules when reports do not overlap; `UnableRecovers`, `GoodFeedbackRestores` |
| `FeedbackReports` | 2 executions, one anonymous, one reviewed, 2 reports, fair | `EffectsInOrder`, `RecordedTakesEffect`; refinement of `EventLedger` (`KeepsLedger`) |
| `TrialRaces` | 2 models, 2 reports, fair | `TrialRunsToItsEnd`, `FailedTrialEnds` |
| `PoolRaces` | 2 models (1 old, which may go down; 1 that the registry may drop), 2 domains, pool of 1, 2 requests at once, one of them an operator's or a rating, fair | `UnableMembersAreGoing`, `FailedDefaultGoes` |
| `ScoresSync` | 2 classes (one answered with 404), 1 model, 2 reports at once, threshold 2, 4 and 2 reports, 2 faults, fair | `KnownScoresCoverTheBump`, `LagBelowThreshold`, `BumpReachesClient` |
| `LeasesRaces` | 2 models, one without alternative, 2 executions at once, 3 calls known at once, threshold 1, fair | `LocalRunsBounded`, `ContentionPasses`; refinement of `LeasePermits` (`KeepsPermits`) |
| `RegistryRefresh` | `ModelReports` with the registry: a vendor that lists more than the limit, a relay, a provider without key; 2 calls at once, 3 stamps, 2 snapshots kept, 2 allow-lists | `TypeOK`, `SyncStateTellsTheLast`, `BarredNeverServed`, `LastGoodSurvives` |
| `MetadataRefresh` | `ModelReports` with the caches: 2 threads, 1 seller, 2 categories that feed 3 fields, fair | `TypeOK`, `OutageKeepsPrices`, `PriceComesBack`, `BoardComesBack` |
| `RouteRequests` | 2 requests, 3 models, pools of 2, 2 orders of the models; limit 1; 2 classes and 1 unknown name, 2 analyzers with 2 attempts; 2 execution ids, of which routings and API clients use either, 2 agents, 2 rows shown; fair | `TypeOK` of five modules; `RefilledWhenVerified`; `NeverOvercounts`, `ThinChainEndsAtCeiling`, `EscalationEnds`; `MatchCoversAllClasses`, `ReviewedStaysReviewed`, `EveryRequestIsClassified`; `RecordsTellAttempts`; `NoRowLeftRunning`, `WatcherCatchesUp` |

The runs leave out what section 4 proves for every instance and what another property
of the run implies; the list of those properties is there.

Three runs are expected to be violated: each states a sentence of the documents
or of a docstring, and its counterexample is what the code does instead
(`PROJECT.json`, "findings", with the quotation).

| Run | What happens |
|---|---|
| `AvailabilityNoCallback` | the engine gives no probe callback, so an outage is for ever |
| `TrialStaleRollback` | a late rollback closes the trial that was started since |
| `FeedbackMerge` | of two updates of the feedback of a record that read before either wrote, the second drops the half of the first |

The same properties, or the ones the documents would want, hold in the passing
runs under the condition that makes them true (one request at a time, a probe
callback): the condition is where the code's assumption lies. Section 4 proves them
under a weaker one: no two reports on one model, or of one domain, overlap, no two
updates of the feedback of one record overlap (`LoneUpdatesPreserve`). For the default of
a class there is no such condition short of one request at a time: what two requests do
to it is in the table below, and what holds for any number of them is what `PoolRaces`
checks and `ClassPoolProofs` proves.

### Divergences met

Where the code and the documents (D is `router_engine/ROUTER_ENGINE.md`) part, beyond
the three runs. Each was seen as a counterexample, or read, while modelling; none
has a run of its own, and the models do what the code does.

| Code | Document | What the code does |
|---|---|---|
| `health.py:73`, `:89` | D:2295, D:899-907 | `mark_available` and `mark_degraded` do not look at the status: a rating in flight writes over a cooldown or an outage recorded meanwhile |
| `storage/router_storage.py:548` | D:993-999 "保持 unable" | a failed probe marks unable a model that recovered since it was listed |
| `engine.py:200` | D:2399 "unable: 立即移出" | the branch for an unreachable provider marks unable and leaves the pools alone |
| `engine.py:238` | D:1689 | the events are read before the rating is recorded: a failure in between does not stop the rating |
| `engine.py:351` | D:1687 "`exec_success` 和 `exec_fail` 互斥" | the UNIQUE key includes the kind: success and failure of one execution are both recorded and both take effect |
| `storage/router_storage.py:1240` | D:1684 | a good and a poor rating of one execution are both recorded |
| `downgrade.py:226` | D:1482 | the cooldown is checked before the trial is written: a rollback in between is overlooked |
| `engine.py:284` | D:1489-1490 | trials are stored under the report's domain and looked up under the routing key |
| `storage/router_storage.py:1434` | | the outcome is counted on the row that was read, also when it was closed since, and the verdict on that row is then carried out on the trial that runs now |
| `downgrade.py:333` | D:1511 "恢复 incumbent" | a rollback leaves the default alone, also when the challenger has become it |
| `class_pool.py:350` | D:2250 | the pool is counted outside the transaction that inserts: two channels exceed `POOL_MAX_SIZE` |
| `class_pool.py:302` | D:2400 "默认模型受保护" | the ids of the defaults are read once: a model promoted since is evicted for its age |
| `class_pool.py:243` | D:2579 | a member's good rating makes room for itself and evicts another member |
| `class_pool.py:325` | D:2222 | the default is looked up under one domain key and cleared under another |
| `defaults.py:147` | D:1038 | a poor rating counts against the default that has replaced the rated one |
| `defaults.py:149` | D:2412 | a revocation clears the default that has replaced the failed one |
| `defaults.py:148`, `:236` | D:2228, D:2513 "WHERE is_locked = 0" | promotions in flight and revocations do not look at the lock |
| `federation/api/routes.py:161` | `README.md:282` "preventing multiple agents from piling onto the same model" | the alternative is granted whatever its own mode: contention moves to it without bound, and as long as redirects go on it may never pass |
| `federation/server/lease_store.py:87` | `PLAN.md:507` "scoped to `agent_class + model_id`" | leases are counted by model alone |
| `federation/server/outcome_processor.py:81` | the comment "Mark reorder count to prevent repeated triggers" | the mark is written before the bump, and by whichever report is slower: triggers repeat, and a report that dies in between hides its count |
| `storage/router_storage.py:1052` | D:646 "merged 时同步写 alias 映射" | a merge into a class opens a second connection for the alias while it holds the write lock: it waits 3 s, is told "database is locked" and is rolled back, always |
| `engine.py:94` | its docstring "不可用模型移除并补位" | seeding ignores health and may add the model again that was just removed |
| `engine.py:129` | | requests at once seed past `POOL_SEED_SIZE`, and past `POOL_MAX_SIZE` by fewer models than they are (`SeedingOvershootIsBounded`) |
| `engine.py:129` | | a verification whose storage call fails after another counted leaves the pool short, taken for verified |
| `selector.py:178` | | the lazy seed of a request that requires a provider seeds the class pool for everybody, and may leave it short |
| `app/wiring.py:70` | | the key has the identity of the pool object: every request builds an engine and verifies the pools anew |
| `selector.py:441` | | the default that is overloaded and ranked last is "shifted" to itself |
| `escalation.py:134` | its docstring "ordered by descending strength" | the nearest stronger candidate comes first; in a pool that is not thin the ceiling at the third place or below is never climbed to from above it |
| `rate_limiters/inmemory.py:48` | | two selections at once pass the check before either starts; the count of a caller that dies is never taken back |
| `rate_limiters/redis.py:127` | | an end after the expiry of its key leaves −1 without time to live, and one request too many is admitted |
| `app/analysis.py:132` | | suggestions are queued in the default database, whatever `router_db_path` says |
| `engine.py:118` | | one request gives an unknown name up to three hits, which is `CLASS_REVIEW_MIN_HITS`, and its two resolutions may differ |
| `class_pool.py:153` | D:1954 "使用 `agent_name + system_prompt` 做向量相似度备用匹配" | the engine passes no matcher, so there is no such fallback |
| `monitoring/storage.py:300` | | a start of a known id opens its row again, that of a routing whose end is behind it too, and nothing ends it then; one that is too old is deleted by its own transaction |
| `monitoring/service.py:349` | | a read that fails shows an empty board |
| `model_registry/pricing/dynamic.py:128` | the comment "avoid wiping prior values" | the map is replaced as a whole: a seller whose page failed loses its prices when another answers |
| `model_registry/pricing/dynamic.py:113` | | overlapping refreshes write older results over newer ones; price and source are read under two acquisitions of the lock |
| `model_registry/storage/sqlite.py:393` | "Guard rail", `MODEL_REGISTRY.md:66` | failed snapshots count for the history that is kept and push out the last good one; a slow synchronisation's snapshot may be pruned at birth |
| `model_registry/arena/scraper.py:160` | | an empty leaderboard is cached for the time to live; a partial one replaces the full copy |

### Bounds and why they are enough

- Two concurrent requests: each race found is between two, and the invariants
  speak of one or two slots; the proofs remove the bound.
- Thresholds 2 (3 in the code or 5, 10): below, at and above the threshold are
  distinct from fresh; `ProbeStreak` = 3 > `ProbeGood` = 2 keeps the order of
  the two in the code (2 and 10).
- One or two models per row-local property; a pool of 1 is full with one member,
  so two models are a victim and a newcomer; `TrialStaleRollback` needs two challengers.
- `MaxReports` 4 with threshold 2: two bumps, whose reports overtake each other;
  `MaxFaults` 2: a failure and a restart. `MaxCalls` 3 calls known at once, of any number
  that come, with two slots and threshold 1: a holder, a leak and a third call that meets
  contention.
- `Failing` and `Leaving` name the one model of `PoolRaces` that may go down and the one
  that the registry may drop; the first is old as well, so that age and outage compete for it.
- Three models in `RouteRequests`: a thin pool, a candidate outside it and a ceiling
  ranked last; two rows shown of three there may be; two analyzers with two attempts are
  a retry, a hand-over and an end. Two execution ids, each of a routing or of an API client
  or of both: rows of different ids meet only through the clean-up and the limit.
- Three stamps with two snapshots kept: the third prunes. Two allow-lists: none and one
  that bars a relay model.
- `MaxCrashes` bounds crashes in `Availability`; `Feedback`, `DowngradeTrial` and
  `ClassPool` need no other bound, their state is finite.
- Symmetry is used over handlers and callers in safety runs only.

### Fairness

`FairSpec` asks weak fairness of the next step of each request in work, because
the event loop runs a ready coroutine, and of nothing else: clients need not
report, requests may die. `Availability` adds weak fairness of the probe loop
(`probe_loop_async` never returns) and of time (cooldowns end, the probe interval
passes). `UnableRecovers` excuses an unreachable provider;
`GoodFeedbackRestores` assumes good feedback to go on and bad feedback to end.
`FederationScores` asks that reports accepted are handled and that the client's loop
goes round (`sync.py:70`); its faults are bounded, as a server that never answers
would synchronise nobody. `Leases` asks only that time passes: nobody has to
release, to answer or to clean up. `ContentionPasses` supposes that from some time on no
new call is redirected to the model: a redirect is granted and counted whatever the mode, so
redirects without end may keep a model contended for ever. Calls that propose it themselves
may go on. `MetadataCaches` asks that threads that build a report
go on and that times to live end; pages need not answer. In `RouteRequests` the steps
of one request's analysis and execution are taken, and the watcher keeps polling; requests
need not come, calls may fail at every step.

## 4. Proofs

All proofs are checked by TLAPS with Z3, Zenon and LS4, for arbitrary constants
under the assumptions named in the modules. Eight modules hold them:

- `AvailabilityProofs`: `RowsStaySound` proves the inductive invariant, types
  plus one predicate per row that ties status, timestamps and counters together;
  `ProbeCountersInStep`, `SelectableBelowThreshold` and `NoResidue` are not
  inductive one by one (a degraded row that is repaired must have had counters in
  step) but follow from it. `UnableModelsLeavePools` assumes no probe callback.
  The documented rules, `RecoveryIsEarned`, `UnableLeftOnlyByProbe` and
  `ProbeNeverTakesDown`, are proved of every behaviour in which no two reports on the
  same model overlap (`OneReportPerModel`, which one handler gives for free): reports on
  other models, the probe loop and its slow calls, the clock, crashes and reports that
  are one transaction run in between. `SerialInv` is what that buys: a cooldown that a report
  has seen elapsed, and feedback it has seen suffice, are so when it writes, and a model
  that is queued for a probe or being probed is unable.
- `FeedbackProofs`: `PrefixesHold` proves that for every recorded outcome the
  effects that have happened are exactly a prefix of the pipeline, that one
  slot at most is at work on it, and that it stands at the end of that prefix.
  At-most-once, order, accounting, and the refinement of `EventLedger`
  (`PipelineKeepsLedger`) follow. For ratings, the invariant remembers that the
  success was seen before.
- `DowngradeTrialProofs`: types plus `Selected` (a slot that will start a trial has a
  challenger) and `Counting` (the row that a slot is about to count on is active, or was
  closed after the slot had read it). `LoneRollbacksAreDeserved` and
  `LoneStartsKeepCooldown` are of the behaviours in which no two reports of one domain
  overlap (`OneReportPerDomain`), and carry `Seen`: what a slot has read of the trial
  and the cooldowns of its domain is still so, and no row is closed under a slot that is
  to count on it. Reports of other domains, deaths, changes of the default and ends of
  cooldowns leave it so (`Aside`).
- `ClassPoolProofs`: types plus `Sound` (a slot about to promote holds a model, a slot
  about to insert is an operator's). `OvershootIsBounded` counts: pool and operators
  about to insert (`Adders`) together never exceed the maximum and the operators
  together, so the insertion outside the transaction overshoots by one model per
  operator at most, as it does when all count before any inserts;
  `AutomaticChannelIsBounded` is the case without operators. `UnableMembersGo` is about
  ratings that put a model back that has gone down: each such member is among the
  entries that some request will still check (`ToCheck`), or was left by an operator or
  by a request that died; a check that other requests overtake evicts what it has read
  or leaves it to theirs.
- `FederationScoresProofs`: `ScoresStaySound` proves the inductive invariant: no count
  ahead of the server's; scores on their way at least as new as those stored and
  as the version they will be filed under; and `Signalled`, that a class without a
  report in work or lost has no significant number of outcomes since its bump
  *nor since its mark*. The second half is needed because marks go back.
- `LeasesProofs`: `LeasesStaySound`: what a slot believes of its lease is so, a lease
  has one holder, and local leases are at most `Threshold` per model. The refinement
  of `LeasePermits` follows step by step; `LocalRunsAreBounded` follows by a pigeonhole
  from runs to leases.
- `ModelReportsProofs`: one invariant per part.
  `RegistryInv`: a stamp is given and committed once, though in any order; every committed
  stamp with fewer than `KeepHistory` younger ones still has its snapshot
  (`YoungestAreKept`: that is what pruning by stamp means for commits that come late); and
  models outside the allow-list stay out of the adapters and of what a call holds
  (`BarredStayOut`). `LastGoodListSurvives` follows by counting the younger stamps,
  `BarredModelsStayOut` needs `ModelsAreOfOneProvider`: a row of a direct vendor is not
  one of a relay.
  `MetadataInv`: a thread that goes to fill a report has a leaderboard with entries in its
  hands, and one that has filled lacks no field of some category (`FilledFromEntries`,
  the theorem `ReportsAreFilledFromEntries`). `OutagesCostNoPrice` needs no invariant: it
  is about the two steps that write the map. `OutagesKeepTheCopy` does: a thread that is
  about to save an outage would empty the copy.
- `RouteRequestsProofs`: one invariant per part.
  `PoolsInv`: once a verification is behind the engine or under way (`Due`), the pool is full,
  or untouched since it was empty, or some request still has before it a count, or slots
  and a plan for all that is missing (`Covers`). The property says nothing while somebody
  verifies, and is far from inductive. `SeedingOvershootIsBounded` counts the pool together
  with the requests that have checked for room and not yet written (`OvershootInv`), from a
  pool that is no larger than allowed at the start.
  `ExecutionsInv`: a counter in memory is between zero and what runs, one in Redis is behind
  by at most the requests there are, never ahead; and candidates differ, with the
  strongest first in the list of a thin pool, so last in its chain (`InChain`).
  `ClassesInv`: `initialized` means that all classes are loaded, and what a request that is
  embedding does not have to do is loaded.
  `RecordsInv`: per call, the records that tell failures and the one that tells the success
  are counted against the place in the chain (`Told`); feedback is of successes.
  `LoneUpdatesPreserve` adds `HalvesAreKept`: a half whose update has
  completed is in the record, and in what the update of the other half has read.
  `MonitoringInv`: ids differ, and a running row has an execution behind it, a lost end, or
  an API client that opened it; nothing is supposed of the ids that API clients use.
  `Sublists` replaces `SelectSeq`, about which nothing can be proved, and TLC
  evaluates it alike.

Proved for every instance, and therefore not run: `TypeOK` of the first six;
`NoResidue`, `UnableLeavesPools` (`Availability`); `AtMostOnce`,
`RatedOnlyAfterSuccess`, `OnlyDeathLoses`, `RetryDoesNotRepair` (`Feedback`);
`FailedTrialIsClosing` and, while no two reports of a domain overlap, `RollbackIsDeserved`
and `CooldownKept` (`DowngradeTrial`); `PoolBounded` without operators, `RoomSparesDefault`,
`FailedDefaultIsGoing` (`ClassPool`); `ScoresNeverRegress` (`FederationScores`);
`HeldLeaseIsActive` (`Leases`).

Assumptions on the constants, all in the modules and evaluated by TLC:

- thresholds and sizes are numbers, positive where the code divides the states by them;
  `ProbeGood <= ProbeStreak`, as in `constants.py`; `SeedSize <= PoolMax` likewise;
- slots are finite (`Leases`, `RouteRequests`), and so are models where they are counted;
- alternatives are models; relays are configured providers, and a model id starts with
  the name of its provider;
- a ranking has every model once; a chain of analyzers has one and tries it once; no
  execution id is "none"; `Failing`, `Leaving` and `Old` are models.

Only model-checked:

- liveness under fairness, which is outside the prover's reach: `UnableRecovers`,
  `GoodFeedbackRestores`, `RecordedTakesEffect`, `FailedTrialEnds`, `FailedDefaultGoes`,
  `BumpReachesClient`, `ContentionPasses`, `PriceComesBack`, `BoardComesBack`,
  `EscalationEnds`, `EveryRequestIsClassified`, `WatcherCatchesUp`. Every other property
  of the passing runs is stated by a theorem;
- the violated runs, which TLC refutes.

## 5. Not modelled, and why

- Floating-point scores, embeddings, prompts, HTML and JSON: data whose values
  the properties do not distinguish.
- The pool-change callback: nothing but a test registers one.
- More than one agent class in `ClassPool` and `DowngradeTrial`: rows of different
  classes share no column; unable models leave the pools of all classes, which
  `Availability` models with a set of classes.
- Several server processes: leases live in the memory of one.
- The registration of applications: upserts that nothing modelled reads.
- Two `ProfileAnalyzer` objects, which two threads may create at the first request; rows
  of monitoring updated in the same second, which are ordered by a random id.
- Monitoring's decisions and statistics: rows that are only counted and shown.
- `mark_limited` and the windows of requests per minute: the first is called by benchmarks
  only, the second is a reading that goes either way.
- Scripts, dashboards and configuration files.

## 6. Plan

1. Done: health, feedback, trials, pool, federation scores and leases with their proofs;
   seeding, executions, task classes, analysis records, monitoring, registry and
   metadata caches with their runs.
2. Done: the proofs of the registry, of the metadata caches and of the parts of a request,
   the rules that overlapping reports break, from the overlap that breaks them, and bounds
   on what requests at once overshoot.
3. Left: liveness, for which the provers have no rules, stays with the runs; in
   `Availability`, which of the documented rules survive two overlapping reports on one
   model.
