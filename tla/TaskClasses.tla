----------------------------- MODULE TaskClasses -----------------------------
(***************************************************************************)
(* How a request comes by its agent class (app/analysis.py, the analyzers  *)
(* of task_analyzer/, resolve_class_async of class_pool.py) and how the    *)
(* names outside the dictionary of classes are reviewed                    *)
(* (router_storage.py 951-1110).                                           *)
(*                                                                         *)
(* The task is compared with embeddings of the descriptions of all         *)
(* classes, which threads load into memory they share, from a copy in      *)
(* SQLite or from Ollama; failing that, a chain of language models is      *)
(* asked, and failing that, the request gets the default class.  A name    *)
(* that the dictionary does not know is queued for review by an operator,  *)
(* unless an alias leads to a class.                                       *)
(*                                                                         *)
(* Ollama, the language models and SQLite may fail whenever they are       *)
(* called.  Descriptions do not change.  Left out: hit counts, how a name   *)
(* was reviewed and where an alias leads, which no step asks; a suggestion  *)
(* that the dictionary knows; class_matcher, which RouterEngine never has.  *)
(***************************************************************************)
EXTENDS Naturals

CONSTANTS
  Requests,
  Classes,    \* the dictionary, CLASS_DICT_INITIAL_SET
  Names,      \* names that the dictionary does not know
  Analyzers,  \* length of ANALYZER_CHAIN
  Attempts    \* max_attempts of ainvoke_with_retry

VARIABLES
  loaded,       \* classes in _class_embeddings
  initialized,  \* _initialized
  stored,       \* classes whose embedding SQLite keeps
  queue,        \* class_review_queue: the status of each name
  aliases,      \* names with an active alias
  merging,      \* names that a merge has written and not committed: at most one
  work          \* what each request is doing

vars == <<loaded, initialized, stored, queue, aliases, merging, work>>

-----------------------------------------------------------------------------
None == "none"
Statuses == {None, "pending", "reviewed"}   \* reviewed: approved, merged or rejected

Idle == [pc |-> "idle"]
Embedding ==
  [pc : {"ensure", "match", "analyze"}] \cup [pc : {"embed", "keep"}, todo : SUBSET Classes]
Asking == [pc : {"ask"}, analyzer : 1 .. Analyzers, attempt : 1 .. Attempts]
Answer == Classes \cup Names \cup {None}
Resolving == [pc : {"resolve"}, name : Answer] \cup [pc : {"suggest"}, name : Answer, suggested : Names]
Named == [pc : {"enqueue", "again", "enqueue_again"}, name : Names]

TypeOK ==
  /\ {loaded, stored} \subseteq SUBSET Classes
  /\ initialized \in BOOLEAN
  /\ queue \in [Names -> Statuses]
  /\ aliases \subseteq Names
  /\ merging \in {{}} \cup {{n} : n \in Names}
  /\ work \in [Requests -> {Idle} \cup Embedding \cup Asking \cup Resolving \cup Named]

Init ==
  /\ loaded = {} /\ initialized = FALSE /\ stored = {}
  /\ queue = [n \in Names |-> None]
  /\ aliases = {} /\ merging = {}
  /\ work = [r \in Requests |-> Idle]

At(r, pc) == work[r].pc = pc
Goto(r, record) == work' = [work EXCEPT ![r] = record]
Ask == [pc |-> "ask", analyzer |-> 1, attempt |-> 1]
Resolve(name) == [pc |-> "resolve", name |-> name]

Memory == <<loaded, initialized, stored>>
Review == <<queue, aliases, merging>>

-----------------------------------------------------------------------------
(* The profile analyzer.                                                   *)

Request(r) ==
  /\ At(r, "idle")
  /\ Goto(r, [pc |-> "ensure"])
  /\ UNCHANGED <<Memory, Review>>

(* Mutant: what SQLite keeps is complete if it is there at all. *)
MissingAll == IF stored = {} THEN Classes ELSE {}

Missing == Classes \ stored

(* _ensure_class_embeddings: what SQLite keeps is loaded (one SELECT for     *)
(* each class; rows are only added, so they are read as one) ...             *)
Ensure(r) ==
  /\ At(r, "ensure")
  /\ UNCHANGED <<stored, Review>>
  /\ \/ Goto(r, Ask) /\ UNCHANGED <<loaded, initialized>>
     \/ /\ initialized
        /\ Goto(r, [pc |-> "match"])
        /\ UNCHANGED <<loaded, initialized>>
     \/ /\ ~initialized
        /\ loaded' = loaded \cup stored
        /\ initialized' = (Missing = {})
        /\ Goto(r, IF Missing = {} THEN [pc |-> "match"] ELSE [pc |-> "embed", todo |-> Missing])

(* ... and Ollama is asked for the rest ... *)
Embed(r) ==
  /\ At(r, "embed")
  /\ Goto(r, [work[r] EXCEPT !.pc = "keep"]) \/ Goto(r, Ask)
  /\ UNCHANGED <<Memory, Review>>

(* ... which is loaded and stored, one class after the other. *)
Keep(r) ==
  /\ At(r, "keep")
  /\ UNCHANGED Review
  /\ \/ /\ work[r].todo = {}
        /\ initialized' = TRUE
        /\ Goto(r, [pc |-> "match"])
        /\ UNCHANGED <<loaded, stored>>
     \/ \E c \in work[r].todo :
          /\ loaded' = loaded \cup {c}
          /\ \/ stored' = stored \cup {c} /\ Goto(r, [work[r] EXCEPT !.todo = @ \ {c}])
             \/ UNCHANGED stored /\ Goto(r, Ask)
          /\ UNCHANGED initialized

(* match, a second time within analyze: the best of the loaded classes, if  *)
(* it is good enough and Ollama embeds the task.                            *)
Match(r) ==
  /\ At(r, "match") \/ At(r, "analyze")
  /\ \/ Goto(r, Ask)
     \/ \E c \in loaded :
          Goto(r, IF At(r, "match") THEN [pc |-> "analyze"] ELSE Resolve(c))
  /\ UNCHANGED <<Memory, Review>>

-----------------------------------------------------------------------------
(* The language models.                                                    *)

(* Mutant: the chain begins anew when its last analyzer has failed. *)
AfterFailureAnew(w) ==
  IF w.attempt < Attempts THEN [w EXCEPT !.attempt = @ + 1]
  ELSE [w EXCEPT !.analyzer = IF @ < Analyzers THEN @ + 1 ELSE 1, !.attempt = 1]

(* ainvoke_with_retry, and the chain of analyze_new_class_async up to the   *)
(* legacy analysis, which names no class.                                   *)
AfterFailure(w) ==
  IF w.attempt < Attempts THEN [w EXCEPT !.attempt = @ + 1]
  ELSE IF w.analyzer < Analyzers THEN [w EXCEPT !.analyzer = @ + 1, !.attempt = 1]
  ELSE Resolve(None)

(* An answer, which names no class if its record cannot be saved; a timeout *)
(* or a lost connection; an error that another attempt would not help.      *)
Invoke(r) ==
  /\ At(r, "ask")
  /\ \/ \E name \in Answer : Goto(r, Resolve(name))
     \/ \E name \in Answer, new \in Names :
          Goto(r, [pc |-> "suggest", name |-> name, suggested |-> new])
     \/ Goto(r, AfterFailure(work[r]))
     \/ Goto(r, AfterFailure([work[r] EXCEPT !.attempt = Attempts]))
  /\ UNCHANGED <<Memory, Review>>

(* Mutant: a name that is seen again is pending again. *)
SeenAgain(n) == queue' = [queue EXCEPT ![n] = "pending"]

(* upsert_class_review_candidate. *)
Seen(n) == queue' = [queue EXCEPT ![n] = IF @ = None THEN "pending" ELSE @]

(* SQLite has one writer: others wait for it, and may be told "locked".     *)
CanWrite == merging = {}

(* _write_new_class_to_review_queue, in best effort. *)
Suggest(r) ==
  /\ At(r, "suggest")
  /\ \/ CanWrite /\ Seen(work[r].suggested)
     \/ UNCHANGED queue
  /\ Goto(r, Resolve(work[r].name))
  /\ UNCHANGED <<Memory, aliases, merging>>

-----------------------------------------------------------------------------
(* resolve_class_async, unless the request says its class itself: a class    *)
(* of the dictionary, of an alias, or the default, with the name queued.      *)
ResolveClass(r) ==
  /\ At(r, "resolve") \/ At(r, "again")
  /\ \/ Goto(r, Idle)
     \/ /\ work[r].name \in Names \ aliases
        /\ Goto(r, [pc |-> IF At(r, "resolve") THEN "enqueue" ELSE "enqueue_again",
                    name |-> work[r].name])
  /\ UNCHANGED <<Memory, Review>>

(* The engine resolves the class once more if its pool is empty.  A request  *)
(* that finds SQLite locked fails.                                            *)
Enqueue(r) ==
  /\ At(r, "enqueue") \/ At(r, "enqueue_again")
  /\ \/ /\ CanWrite /\ Seen(work[r].name)
        /\ \/ Goto(r, Idle)
           \/ At(r, "enqueue") /\ Goto(r, [work[r] EXCEPT !.pc = "again"])
     \/ UNCHANGED queue /\ Goto(r, Idle)
  /\ UNCHANGED <<Memory, aliases, merging>>

-----------------------------------------------------------------------------
(* The operator.                                                           *)

(* apply_class_review, merged without a class to merge into included. *)
ApplyReview(n) ==
  /\ queue[n] # None /\ CanWrite
  /\ queue' = [queue EXCEPT ![n] = "reviewed"]
  /\ UNCHANGED <<Memory, aliases, merging, work>>

(* A merge into a class holds the row it has updated, while the alias is     *)
(* written over a second connection ...                                       *)
Merge(n) ==
  /\ queue[n] # None /\ CanWrite
  /\ merging' = {n}
  /\ UNCHANGED <<Memory, queue, aliases, work>>

(* ... which waits for the first until it is told "locked".  The update is    *)
(* rolled back.                                                                *)
MergeFails ==
  /\ merging # {}
  /\ merging' = {}
  /\ UNCHANGED <<Memory, queue, aliases, work>>

(* upsert_class_alias. *)
UpsertAlias(n) ==
  /\ CanWrite
  /\ aliases' = aliases \cup {n}
  /\ UNCHANGED <<Memory, queue, merging, work>>

(* cleanup_old_class_reviews, of what was reviewed long ago. *)
CleanUp ==
  /\ CanWrite
  /\ \E old \in SUBSET {n \in Names : queue[n] = "reviewed"} :
       queue' = [n \in Names |-> IF n \in old THEN None ELSE queue[n]]
  /\ UNCHANGED <<Memory, aliases, merging, work>>

(* The process stops, at any time, and is started again. *)
Restart ==
  /\ loaded' = {} /\ initialized' = FALSE /\ merging' = {}
  /\ work' = [r \in Requests |-> Idle]
  /\ UNCHANGED <<stored, queue, aliases>>

Step(r) ==
  \/ Ensure(r) \/ Embed(r) \/ Keep(r) \/ Match(r) \/ Invoke(r) \/ Suggest(r)
  \/ ResolveClass(r) \/ Enqueue(r)

Operate ==
  \/ \E n \in Names : ApplyReview(n) \/ Merge(n) \/ UpsertAlias(n)
  \/ MergeFails \/ CleanUp

Next == Restart \/ Operate \/ \E r \in Requests : Request(r) \/ Step(r)

(* The steps of a request are taken. *)
FairSpec == Init /\ [][Next]_vars /\ \A r \in Requests : WF_vars(Step(r))

-----------------------------------------------------------------------------
(* A task is compared with the descriptions of all classes, however many     *)
(* threads load them at once and wherever one of them or the process died:   *)
(* a class that is missing could not be matched.                              *)
MatchCoversAllClasses ==
  \A r \in Requests : At(r, "match") \/ At(r, "analyze") => loaded = Classes

(* A name that was reviewed does not come up for review again while the      *)
(* review is kept, however often it is seen and whatever merges are tried.    *)
ReviewedStaysReviewed ==
  [][\A n \in Names : queue[n] = "reviewed" => queue'[n] # "pending"]_vars

(* Every request is given a class or fails, whatever fails on its way.        *)
IsClassified(r) == At(r, "ensure") ~> At(r, "idle")
EveryRequestIsClassified == \A r \in Requests : IsClassified(r)

=============================================================================
