--------------------------- MODULE MetadataCaches ---------------------------
(***************************************************************************)
(* Where the prices and the capabilities of a model come from              *)
(* (model_registry/pricing/dynamic.py, providers/utils.py 285-491,         *)
(* arena/mapper.py, arena/scraper.py, arena/storage.py).                   *)
(*                                                                         *)
(* A thread that builds a report asks the pricing resolver, one object per *)
(* process, for a price and then, under another acquisition of its lock,   *)
(* for the source of that price.  Either may find the prices too old and   *)
(* refresh them all, outside the lock.  Then it looks for an arena         *)
(* leaderboard: in the memory of the scraper, on the site, and in the copy *)
(* in SQLite that survives restarts.                                       *)
(*                                                                         *)
(* A price is a member of a set or it is not; where there is none the      *)
(* static price is used.  A leaderboard is the set of its categories that  *)
(* have entries, and is fresh until its time to live is over.              *)
(***************************************************************************)
EXTENDS Naturals, FiniteSets

CONSTANTS
  Threads,
  Sellers,     \* providers whose pricing page is read
  Categories,  \* of the leaderboard
  Fields,      \* capabilities
  FieldsOf     \* _CATEGORY_FIELD_MAP

VARIABLES
  prices,  \* sellers with a price in _prices
  stamp,   \* _last_refresh_at against the time to live
  page,    \* sellers whose page answers with prices
  memory,  \* _cache of the scraper
  copy,    \* arena_leaderboard_cache
  site,    \* categories whose page answers
  work     \* what each thread is doing

pricing == <<prices, stamp, page>>
boards == <<memory, copy, site>>
vars == <<pricing, boards, work>>

-----------------------------------------------------------------------------
Board == [cats : SUBSET Categories, fresh : BOOLEAN]
None == [cats |-> {}, fresh |-> FALSE]

Idle == [pc |-> "idle"]
Priced == [pc : {"price", "fetch", "replace", "read", "source", "fetch2", "replace2"},
           seller : Sellers, got : SUBSET Sellers]
Looking == [pc : {"look", "scrape"}]
Holding == [pc : {"keep", "load", "save", "fill"}, cats : SUBSET Categories]
Filled == [pc : {"filled"}, missing : SUBSET Fields]

(* Mutant: an empty leaderboard is taken for one. *)
NeverEmpty(cats) == FALSE

(* ArenaLeaderboard.is_empty. *)
IsEmpty(cats) == cats = {}

TypeOK ==
  /\ prices \subseteq Sellers /\ page \subseteq Sellers
  /\ stamp \in {"never", "fresh", "expired"}
  /\ (stamp = "never" => prices = {})
  /\ memory \in Board
  /\ copy \in Board /\ (IsEmpty(copy.cats) => copy = None)
  /\ site \subseteq Categories
  /\ work \in [Threads -> {Idle} \cup Priced \cup Looking \cup Holding \cup Filled]
  /\ \A t \in Threads : work[t].pc \in {"save", "fill"} => work[t].cats # {}

Init ==
  /\ prices = {} /\ stamp = "never" /\ page \in SUBSET Sellers
  /\ memory = None /\ copy = None /\ site \in SUBSET Categories
  /\ work = [t \in Threads |-> Idle]

At(t, pc) == work[t].pc = pc
Goto(t, record) == work' = [work EXCEPT ![t] = record]
Look == [pc |-> "look"]

-----------------------------------------------------------------------------
(* Prices.                                                                 *)

(* Metadata of a model of seller s are built (apply_pricing_policy), with   *)
(* dynamic pricing enabled and a profile found; or straight to the board.   *)
Begin(t, s) ==
  /\ At(t, "idle")
  /\ \/ Goto(t, [pc |-> "price", seller |-> s, got |-> {}])
     \/ Goto(t, Look)
  /\ UNCHANGED <<pricing, boards>>

(* Mutant: a resolver that has refreshed once does not again. *)
NeverStale == stamp = "never"

(* _refresh_if_needed: the age is read under the lock. *)
Stale == stamp # "fresh"

(* get_price and get_price_meta begin alike. *)
RefreshIfNeeded(t) ==
  /\ \/ At(t, "price") /\ Goto(t, [work[t] EXCEPT !.pc = IF Stale THEN "fetch" ELSE "read"])
     \/ At(t, "source") /\ Goto(t, IF Stale THEN [work[t] EXCEPT !.pc = "fetch2"] ELSE Look)
  /\ UNCHANGED <<pricing, boards>>

(* _fetch_provider_prices of every seller, outside the lock; a page that    *)
(* fails or shows no plausible price leaves its seller out.                 *)
FetchPages(t) ==
  /\ \/ At(t, "fetch") /\ Goto(t, [work[t] EXCEPT !.pc = "replace", !.got = page])
     \/ At(t, "fetch2") /\ Goto(t, [work[t] EXCEPT !.pc = "replace2", !.got = page])
  /\ UNCHANGED <<pricing, boards>>

(* Mutant: what was fetched replaces the prices even if it is nothing. *)
ReplacedAlways(got) == got

(* The map is replaced as a whole when any seller answered.                 *)
Replaced(got) == IF got # {} THEN got ELSE prices

(* The end of refresh, under the lock; a refresh that brought nothing is    *)
(* stamped like any other.                                                  *)
Replace(t) ==
  /\ \/ At(t, "replace") /\ Goto(t, [work[t] EXCEPT !.pc = "read", !.got = {}])
     \/ At(t, "replace2") /\ Goto(t, Look)
  /\ prices' = Replaced(work[t].got)
  /\ stamp' = "fresh"
  /\ UNCHANGED <<page, boards>>

(* The rest of get_price: without a price the static one stays.             *)
ReadPrice(t) ==
  /\ At(t, "read")
  /\ Goto(t, IF work[t].seller \in prices THEN [work[t] EXCEPT !.pc = "source"] ELSE Look)
  /\ UNCHANGED <<pricing, boards>>

-----------------------------------------------------------------------------
(* Leaderboards.                                                           *)

(* Mutant: a cached leaderboard does not expire. *)
CachedForEver == memory # None

(* ArenaLeaderboardScraper.get: an empty leaderboard is cached like any.    *)
Cached == memory.fresh

(* get_leaderboard after level 1 brought a leaderboard. *)
Use(cats) == [pc |-> IF IsEmpty(cats) THEN "load" ELSE "save", cats |-> cats]

(* get_leaderboard, level 1. *)
LookInMemory(t) ==
  /\ At(t, "look")
  /\ Goto(t, IF Cached THEN Use(memory.cats) ELSE [pc |-> "scrape"])
  /\ UNCHANGED <<pricing, boards>>

(* fetch: a page that fails after its retries is an empty category.         *)
Scrape(t) ==
  /\ At(t, "scrape")
  /\ Goto(t, [pc |-> "keep", cats |-> site])
  /\ UNCHANGED <<pricing, boards>>

(* The rest of get: threads that scraped at once cache one after the other. *)
Keep(t) ==
  /\ At(t, "keep")
  /\ memory' = [cats |-> work[t].cats, fresh |-> TRUE]
  /\ Goto(t, Use(work[t].cats))
  /\ UNCHANGED <<pricing, copy, site>>

(* ArenaCacheStorage.save: all rows are replaced, at every look-up; a       *)
(* failure is only logged.  The board keeps the time it was fetched at, so  *)
(* that a copy of what was in memory may be too old already.                *)
Save(t) ==
  /\ At(t, "save")
  /\ \/ \E young \in BOOLEAN : copy' = [cats |-> work[t].cats, fresh |-> young]
     \/ UNCHANGED copy
  /\ Goto(t, [work[t] EXCEPT !.pc = "fill"])
  /\ UNCHANGED <<pricing, memory, site>>

(* Level 2: the copy, unless it is missing or expired or cannot be read;    *)
(* level 3: no leaderboard, and the report stays as it is.                  *)
Load(t) ==
  /\ At(t, "load")
  /\ \/ copy.fresh /\ Goto(t, [pc |-> "fill", cats |-> copy.cats])
     \/ Goto(t, Idle)
  /\ UNCHANGED <<pricing, boards>>

(* fill_missing_capabilities: of the fields that are None, which stay so.   *)
FillMissing(missing, cats) == missing \ UNION {FieldsOf[k] : k \in cats}

(* batch_fill_arena_capabilities, of a model that the leaderboard knows and  *)
(* whose provider declared nothing.                                         *)
BatchFill(t) ==
  /\ At(t, "fill")
  /\ Goto(t, [pc |-> "filled", missing |-> FillMissing(Fields, work[t].cats)])
  /\ UNCHANGED <<pricing, boards>>

(* _enrich_with_arena: the filled profiles take their place in the   *)
(* report.                                                                  *)
Return(t) ==
  /\ At(t, "filled")
  /\ Goto(t, Idle)
  /\ UNCHANGED <<pricing, boards>>

-----------------------------------------------------------------------------
(* The environment.                                                        *)

PricesExpire ==
  /\ stamp = "fresh"
  /\ stamp' = "expired"
  /\ UNCHANGED <<prices, page, boards, work>>

MemoryExpires ==
  /\ memory.fresh
  /\ memory' = [memory EXCEPT !.fresh = FALSE]
  /\ UNCHANGED <<pricing, copy, site, work>>

CopyExpires ==
  /\ copy.fresh
  /\ copy' = [copy EXCEPT !.fresh = FALSE]
  /\ UNCHANGED <<pricing, memory, site, work>>

Pages ==
  /\ \/ \E s \in Sellers : page' \in {page \cup {s}, page \ {s}} /\ UNCHANGED site
     \/ \E k \in Categories : site' \in {site \cup {k}, site \ {k}} /\ UNCHANGED page
  /\ UNCHANGED <<prices, stamp, memory, copy, work>>

(* The process is restarted: prices and the scraper's memory are lost.      *)
Restart ==
  /\ prices' = {} /\ stamp' = "never"
  /\ memory' = None
  /\ work' = [t \in Threads |-> Idle]
  /\ UNCHANGED <<page, copy, site>>

-----------------------------------------------------------------------------
Step(t) ==
  \/ RefreshIfNeeded(t) \/ FetchPages(t) \/ Replace(t) \/ ReadPrice(t)
  \/ LookInMemory(t) \/ Scrape(t) \/ Keep(t) \/ Save(t) \/ Load(t) \/ Return(t)
  \/ BatchFill(t)

Next ==
  \/ \E t \in Threads : Step(t) \/ \E s \in Sellers : Begin(t, s)
  \/ PricesExpire \/ MemoryExpires \/ CopyExpires \/ Pages \/ Restart

Spec == Init /\ [][Next]_vars

(* Threads that build a report go on; time passes. *)
FairSpec ==
  /\ Spec
  /\ \A t \in Threads : WF_vars(Step(t))
  /\ WF_vars(PricesExpire) /\ WF_vars(MemoryExpires) /\ WF_vars(CopyExpires)

-----------------------------------------------------------------------------
(* An outage of every pricing page costs no price, though each refresh in   *)
(* it is stamped: prices shrink only when some seller answered a refresh,   *)
(* or at a restart.                                                         *)
OutageKeepsPrices ==
  [][prices \ prices' # {} =>
       stamp' = "never" \/ \E t \in Threads : work[t].pc \in {"replace", "replace2"} /\ work[t].got # {}]_vars

(* A seller whose page answers from some time on is priced from its page    *)
(* again, also after refreshes that overlapped and wrote older results over *)
(* newer ones, if prices go on being asked for and the process stays up.    *)
PriceComesBack ==
  \A s \in Sellers :
    (/\ <>[](s \in page) /\ <>[](stamp # "never")
     /\ []<>(\E t \in Threads : At(t, "price"))) => <>[](s \in prices)

(* From some time after the page of a category answers again, no report     *)
(* misses a field that the category feeds, though the outage was cached in  *)
(* memory and copied to SQLite.                                             *)
BoardComesBack ==
  \A k \in Categories :
    <>[](k \in site) =>
      <>[](\A t \in Threads : At(t, "filled") => FieldsOf[k] \cap work[t].missing = {})

=============================================================================
