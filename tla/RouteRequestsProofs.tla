------------------------- MODULE RouteRequestsProofs -------------------------
(***************************************************************************)
(* Theorems about RouteRequests for any requests, models, rankings,        *)
(* classes, analyzers and sizes.  Every part has an inductive invariant of *)
(* its own; the last section puts them together.                           *)
(***************************************************************************)
EXTENDS RouteRequests, Sublists, FiniteSetTheorems, WellFoundedInduction, TLAPS

-----------------------------------------------------------------------------
(* TaskClasses: the embeddings in memory.                                  *)

TaskWork == {C!Idle} \cup C!Embedding \cup C!Asking \cup C!Resolving \cup C!Named

(* Whoever loads what is missing has loaded the rest, and initialized says *)
(* that nothing is missing.                                                *)
LoadedButTodo ==
  /\ initialized => loaded = Classes
  /\ \A r \in Requests : C!At(r, "embed") \/ C!At(r, "keep") =>
       Classes \ resolving[r].todo \subseteq loaded

ClassesInv == C!TypeOK /\ LoadedButTodo /\ MatchCoversAllClasses

LEMMA ClassesGoto ==
  ASSUME C!TypeOK, NEW r \in Requests, NEW w \in TaskWork, C!Goto(r, w)
  PROVE  /\ resolving' \in [Requests -> TaskWork]
         /\ resolving'[r] = w
         /\ \A q \in Requests \ {r} : resolving'[q] = resolving[q]
BY DEF C!TypeOK, C!Goto, TaskWork

LEMMA ClassesWork ==
  ASSUME C!TypeOK, NEW r \in Requests
  PROVE  /\ resolving[r] \in TaskWork
         /\ C!At(r, "embed") \/ C!At(r, "keep") => resolving[r] \in C!Embedding /\ resolving[r].todo \in SUBSET Classes
         /\ C!At(r, "ask") => resolving[r] \in C!Asking
         /\ C!At(r, "suggest") => resolving[r].name \in C!Answer /\ resolving[r].suggested \in Names
         /\ C!At(r, "enqueue") \/ C!At(r, "again") \/ C!At(r, "enqueue_again") => resolving[r].name \in Names
BY DEF C!TypeOK, TaskWork, C!At, C!Idle, C!Embedding, C!Asking, C!Resolving, C!Named

LEMMA ClassesInit == C!Init => ClassesInv
<1> SUFFICES ASSUME C!Init PROVE ClassesInv
  OBVIOUS
<1>1. \A r \in Requests : resolving[r].pc = "idle"
  BY DEF C!Init, C!Idle
<1>2. C!TypeOK
  BY DEF C!Init, C!TypeOK, C!Statuses, C!None
<1> QED
  BY <1>1, <1>2 DEF C!Init, ClassesInv, LoadedButTodo, MatchCoversAllClasses,
                    C!MatchCoversAllClasses, C!At

(* The steps of requests that leave the memory of embeddings alone and do  *)
(* not take part in loading it.                                            *)
LEMMA ClassesElsewhere ==
  ASSUME ClassesInv, NEW r \in Requests, NEW w \in TaskWork, C!Goto(r, w),
         w.pc \notin {"embed", "keep", "match", "analyze"},
         UNCHANGED <<loaded, initialized, stored, aliases, merging>>,
         queue' \in [Names -> C!Statuses]
  PROVE  ClassesInv'
<1>1. /\ resolving' \in [Requests -> TaskWork] /\ resolving'[r] = w
      /\ \A q \in Requests \ {r} : resolving'[q] = resolving[q]
  BY ClassesGoto DEF ClassesInv
<1>2. C!TypeOK'
  BY <1>1 DEF ClassesInv, C!TypeOK, TaskWork
<1>3. LoadedButTodo' /\ MatchCoversAllClasses'
  BY <1>1 DEF ClassesInv, LoadedButTodo, MatchCoversAllClasses, C!MatchCoversAllClasses, C!At
<1> QED
  BY <1>2, <1>3 DEF ClassesInv

LEMMA ClassesAsk ==
  /\ C!Ask \in TaskWork /\ C!Ask.pc = "ask"
  /\ C!Idle \in TaskWork /\ C!Idle.pc = "idle"
  /\ \A name \in C!Answer : C!Resolve(name) \in TaskWork /\ C!Resolve(name).pc = "resolve"
BY ChainsAreNotEmpty DEF C!Ask, C!Idle, C!Resolve, TaskWork, C!Asking, C!Resolving

LEMMA EnsureKeepsClassesInv ==
  ASSUME ClassesInv, NEW r \in Requests, C!Ensure(r)
  PROVE  ClassesInv'
<1>1. UNCHANGED <<stored, queue, aliases, merging>>
  BY DEF C!Ensure, C!Review
<1>2. CASE C!Goto(r, C!Ask) /\ UNCHANGED <<loaded, initialized>>
  BY <1>1, <1>2, ClassesAsk, ClassesElsewhere DEF ClassesInv, C!TypeOK
<1>3. CASE initialized /\ C!Goto(r, [pc |-> "match"]) /\ UNCHANGED <<loaded, initialized>>
  <2> DEFINE w == [pc |-> "match"]
  <2>1. w \in TaskWork /\ w.pc = "match"
    BY DEF TaskWork, C!Embedding
  <2> HIDE DEF w
  <2>2. /\ resolving' \in [Requests -> TaskWork] /\ resolving'[r] = w
        /\ \A q \in Requests \ {r} : resolving'[q] = resolving[q]
    BY <1>3, <2>1, ClassesGoto DEF ClassesInv, w
  <2>3. C!TypeOK'
    BY <1>1, <1>3, <2>2 DEF ClassesInv, C!TypeOK, TaskWork
  <2> QED
    BY <1>1, <1>3, <2>1, <2>2, <2>3
       DEF ClassesInv, LoadedButTodo, MatchCoversAllClasses, C!MatchCoversAllClasses, C!At
<1>4. CASE /\ loaded' = loaded \cup stored
           /\ initialized' = (C!Missing = {})
           /\ C!Goto(r, IF C!Missing = {} THEN [pc |-> "match"]
                        ELSE [pc |-> "embed", todo |-> C!Missing])
  <2> DEFINE w == IF C!Missing = {} THEN [pc |-> "match"] ELSE [pc |-> "embed", todo |-> C!Missing]
  <2>1. loaded \subseteq Classes /\ stored \subseteq Classes
    BY DEF ClassesInv, C!TypeOK
  <2>2. /\ w \in TaskWork
        /\ \/ w.pc = "match" /\ C!Missing = {}
           \/ w.pc = "embed" /\ w.todo = C!Missing
    BY DEF TaskWork, C!Embedding, C!Missing
  <2> HIDE DEF w
  <2>3. /\ resolving' \in [Requests -> TaskWork] /\ resolving'[r] = w
        /\ \A q \in Requests \ {r} : resolving'[q] = resolving[q]
    BY <1>4, <2>2, ClassesGoto DEF ClassesInv, w
  <2>4. C!TypeOK'
    BY <1>1, <1>4, <2>1, <2>3 DEF ClassesInv, C!TypeOK, TaskWork
  <2>5. C!Missing = {} => loaded' = Classes
    BY <1>4, <2>1 DEF C!Missing
  <2>6. C!Missing # {} => Classes \ C!Missing \subseteq loaded'
    BY <1>4, <2>1 DEF C!Missing
  <2>7. loaded \subseteq loaded' /\ loaded' \subseteq Classes
    BY <1>4, <2>1
  <2> QED
    BY <1>4, <2>2, <2>3, <2>4, <2>5, <2>6, <2>7
       DEF ClassesInv, LoadedButTodo, MatchCoversAllClasses, C!MatchCoversAllClasses, C!At
<1> QED
  BY <1>2, <1>3, <1>4 DEF C!Ensure

LEMMA EmbedKeepsClassesInv ==
  ASSUME ClassesInv, NEW r \in Requests, C!Embed(r)
  PROVE  ClassesInv'
<1>1. C!At(r, "embed") /\ UNCHANGED <<loaded, initialized, stored, queue, aliases, merging>>
  BY DEF C!Embed, C!Memory, C!Review
<1>2. CASE C!Goto(r, C!Ask)
  BY <1>1, <1>2, ClassesAsk, ClassesElsewhere DEF ClassesInv, C!TypeOK
<1>3. CASE C!Goto(r, [resolving[r] EXCEPT !.pc = "keep"])
  <2> DEFINE w == [resolving[r] EXCEPT !.pc = "keep"]
  <2>1. resolving[r] \in [pc : {"embed", "keep"}, todo : SUBSET Classes]
    BY <1>1, ClassesWork DEF ClassesInv, C!Embedding, C!At
  <2>2. w \in TaskWork /\ w.pc = "keep" /\ w.todo = resolving[r].todo
    BY <2>1 DEF TaskWork, C!Embedding
  <2> HIDE DEF w
  <2>3. /\ resolving' \in [Requests -> TaskWork] /\ resolving'[r] = w
        /\ \A q \in Requests \ {r} : resolving'[q] = resolving[q]
    BY <1>3, <2>2, ClassesGoto DEF ClassesInv, w
  <2>4. C!TypeOK'
    BY <1>1, <2>3 DEF ClassesInv, C!TypeOK, TaskWork
  <2> QED
    BY <1>1, <2>2, <2>3, <2>4
       DEF ClassesInv, LoadedButTodo, MatchCoversAllClasses, C!MatchCoversAllClasses, C!At
<1> QED
  BY <1>2, <1>3 DEF C!Embed

LEMMA KeepKeepsClassesInv ==
  ASSUME ClassesInv, NEW r \in Requests, C!Keep(r)
  PROVE  ClassesInv'
<1>1. C!At(r, "keep") /\ UNCHANGED <<queue, aliases, merging>>
  BY DEF C!Keep, C!Review
<1>2. /\ resolving[r] \in [pc : {"embed", "keep"}, todo : SUBSET Classes]
      /\ Classes \ resolving[r].todo \subseteq loaded
      /\ loaded \subseteq Classes /\ stored \subseteq Classes
  BY <1>1, ClassesWork DEF ClassesInv, C!Embedding, C!At, LoadedButTodo, C!TypeOK
<1>3. CASE /\ resolving[r].todo = {}
           /\ initialized' = TRUE
           /\ C!Goto(r, [pc |-> "match"])
           /\ UNCHANGED <<loaded, stored>>
  <2> DEFINE w == [pc |-> "match"]
  <2>1. w \in TaskWork /\ w.pc = "match"
    BY DEF TaskWork, C!Embedding
  <2> HIDE DEF w
  <2>2. /\ resolving' \in [Requests -> TaskWork] /\ resolving'[r] = w
        /\ \A q \in Requests \ {r} : resolving'[q] = resolving[q]
    BY <1>3, <2>1, ClassesGoto DEF ClassesInv, w
  <2>3. C!TypeOK' /\ loaded' = Classes
    BY <1>1, <1>2, <1>3, <2>2 DEF ClassesInv, C!TypeOK, TaskWork
  <2> QED
    BY <1>3, <2>1, <2>2, <2>3
       DEF ClassesInv, LoadedButTodo, MatchCoversAllClasses, C!MatchCoversAllClasses, C!At
<1>4. ASSUME NEW k \in resolving[r].todo,
             loaded' = loaded \cup {k}, UNCHANGED initialized,
             \/ stored' = stored \cup {k} /\ C!Goto(r, [resolving[r] EXCEPT !.todo = @ \ {k}])
             \/ UNCHANGED stored /\ C!Goto(r, C!Ask)
      PROVE  ClassesInv'
  <2> DEFINE left == [resolving[r] EXCEPT !.todo = @ \ {k}]
  <2>1. left \in TaskWork /\ left.pc = "keep" /\ left.todo = resolving[r].todo \ {k}
    BY <1>1, <1>2 DEF TaskWork, C!Embedding, C!At
  <2> HIDE DEF left
  <2>2. PICK w \in TaskWork :
          /\ C!Goto(r, w) /\ stored' \subseteq Classes
          /\ \/ w.pc = "keep" /\ w.todo = resolving[r].todo \ {k}
             \/ w.pc = "ask"
    BY <1>2, <1>4, <2>1, ClassesAsk DEF left
  <2>3. /\ resolving' \in [Requests -> TaskWork] /\ resolving'[r] = w
        /\ \A q \in Requests \ {r} : resolving'[q] = resolving[q]
    BY <2>2, ClassesGoto DEF ClassesInv
  <2>4. loaded' \subseteq Classes /\ loaded \subseteq loaded' /\ k \in loaded' /\ k \in Classes
    BY <1>2, <1>4
  <2>5. C!TypeOK'
    BY <1>1, <1>4, <2>2, <2>3, <2>4 DEF ClassesInv, C!TypeOK, TaskWork
  <2> QED
    BY <1>2, <1>4, <2>2, <2>3, <2>4, <2>5
       DEF ClassesInv, LoadedButTodo, MatchCoversAllClasses, C!MatchCoversAllClasses, C!At
<1> QED
  BY <1>3, <1>4 DEF C!Keep

LEMMA MatchKeepsClassesInv ==
  ASSUME ClassesInv, NEW r \in Requests, C!Match(r)
  PROVE  ClassesInv'
<1>1. /\ C!At(r, "match") \/ C!At(r, "analyze")
      /\ UNCHANGED <<loaded, initialized, stored, queue, aliases, merging>>
  BY DEF C!Match, C!Memory, C!Review
<1>2. queue' \in [Names -> C!Statuses] /\ loaded \subseteq C!Answer
  BY <1>1 DEF ClassesInv, C!TypeOK, C!Answer
<1>3. CASE C!Goto(r, C!Ask)
  BY <1>1, <1>2, <1>3, ClassesAsk, ClassesElsewhere
<1>4. ASSUME NEW k \in loaded, C!Goto(r, C!Resolve(k))
      PROVE  ClassesInv'
  BY <1>1, <1>2, <1>4, ClassesAsk, ClassesElsewhere
<1>5. CASE C!Goto(r, [pc |-> "analyze"])
  <2> DEFINE w == [pc |-> "analyze"]
  <2>1. w \in TaskWork /\ w.pc = "analyze"
    BY DEF TaskWork, C!Embedding
  <2> HIDE DEF w
  <2>2. /\ resolving' \in [Requests -> TaskWork] /\ resolving'[r] = w
        /\ \A q \in Requests \ {r} : resolving'[q] = resolving[q]
    BY <1>5, <2>1, ClassesGoto DEF ClassesInv, w
  <2>3. C!TypeOK'
    BY <1>1, <2>2 DEF ClassesInv, C!TypeOK, TaskWork
  <2> QED
    BY <1>1, <2>1, <2>2, <2>3
       DEF ClassesInv, LoadedButTodo, MatchCoversAllClasses, C!MatchCoversAllClasses, C!At
<1> QED
  BY <1>3, <1>4, <1>5 DEF C!Match

LEMMA InvokeKeepsClassesInv ==
  ASSUME ClassesInv, NEW r \in Requests, C!Invoke(r)
  PROVE  ClassesInv'
<1> USE ChainsAreNotEmpty
<1>1. /\ C!At(r, "ask") /\ resolving[r] \in C!Asking
      /\ UNCHANGED <<loaded, initialized, stored, queue, aliases, merging>>
      /\ queue' \in [Names -> C!Statuses]
  BY ClassesWork DEF C!Invoke, C!Memory, C!Review, ClassesInv, C!TypeOK
<1>2. ASSUME NEW name \in C!Answer, C!Goto(r, C!Resolve(name))
      PROVE  ClassesInv'
  BY <1>1, <1>2, ClassesAsk, ClassesElsewhere
<1>3. ASSUME NEW name \in C!Answer, NEW new \in Names,
             C!Goto(r, [pc |-> "suggest", name |-> name, suggested |-> new])
      PROVE  ClassesInv'
  <2> DEFINE w == [pc |-> "suggest", name |-> name, suggested |-> new]
  <2>1. w \in TaskWork /\ w.pc = "suggest"
    BY DEF TaskWork, C!Resolving
  <2> HIDE DEF w
  <2> QED
    BY <1>1, <1>3, <2>1, ClassesElsewhere DEF w
<1>4. ASSUME NEW w \in C!Asking
      PROVE  /\ C!AfterFailure(w) \in TaskWork
             /\ C!AfterFailure(w).pc \notin {"embed", "keep", "match", "analyze"}
  <2>1. CASE w.attempt < Attempts
    <3> DEFINE v == [w EXCEPT !.attempt = @ + 1]
    <3>1. w.attempt + 1 \in 1 .. Attempts
      BY <2>1 DEF C!Asking
    <3>2. v \in C!Asking /\ v.pc = "ask"
      BY <3>1 DEF C!Asking
    <3>3. C!AfterFailure(w) = v
      BY <2>1 DEF C!AfterFailure
    <3> HIDE DEF v
    <3> QED
      BY <3>2, <3>3 DEF TaskWork
  <2>2. CASE ~(w.attempt < Attempts) /\ w.analyzer < Analyzers
    <3> DEFINE v == [w EXCEPT !.analyzer = @ + 1, !.attempt = 1]
    <3>1. w.analyzer + 1 \in 1 .. Analyzers /\ 1 \in 1 .. Attempts
      BY <2>2 DEF C!Asking
    <3>2. v \in C!Asking /\ v.pc = "ask"
      BY <3>1, Zenon DEF C!Asking
    <3>3. C!AfterFailure(w) = v
      BY <2>2 DEF C!AfterFailure
    <3> HIDE DEF v
    <3> QED
      BY <3>2, <3>3 DEF TaskWork
  <2>3. CASE ~(w.attempt < Attempts) /\ ~(w.analyzer < Analyzers)
    <3>1. C!AfterFailure(w) = C!Resolve(C!None)
      BY <2>3 DEF C!AfterFailure
    <3> QED
      BY <3>1, ClassesAsk DEF C!Answer
  <2> QED
    BY <2>1, <2>2, <2>3
<1>5. CASE C!Goto(r, C!AfterFailure(resolving[r]))
  BY <1>1, <1>4, <1>5, ClassesElsewhere
<1>6. CASE C!Goto(r, C!AfterFailure([resolving[r] EXCEPT !.attempt = Attempts]))
  <2>1. Attempts \in 1 .. Attempts
    OBVIOUS
  <2>2. [resolving[r] EXCEPT !.attempt = Attempts] \in C!Asking
    BY <1>1, <2>1 DEF C!Asking
  <2> QED
    BY <1>1, <1>4, <1>6, <2>2, ClassesElsewhere
<1> QED
  BY <1>2, <1>3, <1>5, <1>6 DEF C!Invoke

LEMMA SeenTyped ==
  ASSUME C!TypeOK, NEW n \in Names, C!Seen(n)
  PROVE  /\ queue' \in [Names -> C!Statuses]
         /\ \A m \in Names : queue[m] = "reviewed" => queue'[m] # "pending"
BY DEF C!TypeOK, C!Seen, C!Statuses, C!None

LEMMA NamingKeepsClassesInv ==
  ASSUME ClassesInv, NEW r \in Requests,
         C!Suggest(r) \/ C!ResolveClass(r) \/ C!Enqueue(r) \/ C!Request(r)
  PROVE  ClassesInv'
<1>0. queue \in [Names -> C!Statuses]
  BY DEF ClassesInv, C!TypeOK
<1>1. CASE C!Suggest(r)
  <2>1. /\ resolving[r].suggested \in Names /\ resolving[r].name \in C!Answer
    BY <1>1, ClassesWork DEF ClassesInv, C!Suggest
  <2>2. queue' \in [Names -> C!Statuses]
    BY <1>0, <1>1, <2>1, SeenTyped DEF ClassesInv, C!Suggest
  <2> QED
    BY <1>1, <2>1, <2>2, ClassesAsk, ClassesElsewhere DEF C!Suggest, C!Memory
<1>2. CASE C!ResolveClass(r)
  <2>1. CASE C!Goto(r, C!Idle)
    BY <1>0, <1>2, <2>1, ClassesAsk, ClassesElsewhere DEF C!ResolveClass, C!Memory, C!Review
  <2>2. CASE /\ resolving[r].name \in Names
             /\ C!Goto(r, [pc |-> IF C!At(r, "resolve") THEN "enqueue" ELSE "enqueue_again",
                           name |-> resolving[r].name])
    <3> DEFINE w == [pc |-> IF C!At(r, "resolve") THEN "enqueue" ELSE "enqueue_again",
                     name |-> resolving[r].name]
    <3>1. w \in TaskWork /\ w.pc \in {"enqueue", "enqueue_again"}
      BY <2>2 DEF TaskWork, C!Named
    <3> HIDE DEF w
    <3> QED
      BY <1>0, <1>2, <2>2, <3>1, ClassesElsewhere DEF C!ResolveClass, C!Memory, C!Review, w
  <2> QED
    BY <1>2, <2>1, <2>2 DEF C!ResolveClass
<1>3. CASE C!Enqueue(r)
  <2>1. resolving[r].name \in Names
    BY <1>3, ClassesWork DEF ClassesInv, C!Enqueue
  <2>2. queue' \in [Names -> C!Statuses]
    BY <1>0, <1>3, <2>1, SeenTyped DEF ClassesInv, C!Enqueue
  <2>3. CASE C!Goto(r, C!Idle)
    BY <1>3, <2>2, <2>3, ClassesAsk, ClassesElsewhere DEF C!Enqueue, C!Memory
  <2>4. CASE C!At(r, "enqueue") /\ C!Goto(r, [resolving[r] EXCEPT !.pc = "again"])
    <3> DEFINE w == [resolving[r] EXCEPT !.pc = "again"]
    <3>1. resolving[r] \in C!Named
      BY <2>4, ClassesWork DEF ClassesInv, TaskWork, C!At, C!Idle, C!Embedding, C!Asking,
                               C!Resolving, C!Named
    <3>2. w \in TaskWork /\ w.pc = "again"
      BY <3>1 DEF TaskWork, C!Named
    <3> HIDE DEF w
    <3> QED
      BY <1>3, <2>2, <2>4, <3>2, ClassesElsewhere DEF C!Enqueue, C!Memory, w
  <2> QED
    BY <1>3, <2>3, <2>4 DEF C!Enqueue
<1>4. CASE C!Request(r)
  <2> DEFINE w == [pc |-> "ensure"]
  <2>1. w \in TaskWork /\ w.pc = "ensure"
    BY DEF TaskWork, C!Embedding
  <2> HIDE DEF w
  <2> QED
    BY <1>0, <1>4, <2>1, ClassesElsewhere DEF C!Request, C!Memory, C!Review, w
<1> QED
  BY <1>1, <1>2, <1>3, <1>4

LEMMA OperatingKeepsClassesInv ==
  ASSUME ClassesInv, C!Operate \/ C!Restart
  PROVE  ClassesInv'
<1>1. CASE C!Operate
  <2>1. UNCHANGED <<loaded, initialized, stored, resolving>>
    BY <1>1 DEF C!Operate, C!ApplyReview, C!Merge, C!UpsertAlias, C!MergeFails, C!CleanUp, C!Memory
  <2>2. /\ queue' \in [Names -> C!Statuses]
        /\ aliases' \subseteq Names
        /\ merging' \in {{}} \cup {{n} : n \in Names}
    BY <1>1 DEF ClassesInv, C!TypeOK, C!Statuses, C!Operate, C!ApplyReview, C!Merge,
                C!UpsertAlias, C!MergeFails, C!CleanUp
  <2> QED
    BY <2>1, <2>2 DEF ClassesInv, C!TypeOK, LoadedButTodo, MatchCoversAllClasses,
                      C!MatchCoversAllClasses, C!At
<1>2. CASE C!Restart
  <2>1. \A r \in Requests : resolving'[r] = C!Idle /\ C!Idle.pc = "idle"
    BY <1>2 DEF C!Restart, C!Idle
  <2>2. C!TypeOK'
    BY <1>2 DEF ClassesInv, C!TypeOK, C!Restart
  <2> QED
    BY <1>2, <2>1, <2>2 DEF ClassesInv, LoadedButTodo, MatchCoversAllClasses,
                            C!MatchCoversAllClasses, C!At, C!Restart
<1> QED
  BY <1>1, <1>2

LEMMA ClassesNext == ClassesInv /\ [C!Next]_(C!vars) => ClassesInv'
<1> SUFFICES ASSUME ClassesInv, [C!Next]_(C!vars) PROVE ClassesInv'
  OBVIOUS
<1>1. CASE UNCHANGED C!vars
  BY <1>1 DEF C!vars, ClassesInv, C!TypeOK, LoadedButTodo, MatchCoversAllClasses,
              C!MatchCoversAllClasses, C!At
<1>2. CASE C!Next
  BY <1>2, EnsureKeepsClassesInv, EmbedKeepsClassesInv, KeepKeepsClassesInv,
     MatchKeepsClassesInv, InvokeKeepsClassesInv, NamingKeepsClassesInv,
     OperatingKeepsClassesInv DEF C!Next, C!Step
<1> QED
  BY <1>1, <1>2

(* No step makes a reviewed name pending. *)
LEMMA ReviewsStay ==
  ClassesInv /\ [C!Next]_(C!vars) =>
    \A n \in Names : queue[n] = "reviewed" => queue'[n] # "pending"
<1> SUFFICES ASSUME ClassesInv, [C!Next]_(C!vars)
             PROVE  \A n \in Names : queue[n] = "reviewed" => queue'[n] # "pending"
  OBVIOUS
<1>1. queue \in [Names -> C!Statuses]
  BY DEF ClassesInv, C!TypeOK
<1>2. ASSUME NEW n \in Names, C!Seen(n)
      PROVE  \A m \in Names : queue[m] = "reviewed" => queue'[m] # "pending"
  BY <1>2, SeenTyped DEF ClassesInv
<1>3. ASSUME NEW r \in Requests, C!Suggest(r) \/ C!Enqueue(r)
      PROVE  \A m \in Names : queue[m] = "reviewed" => queue'[m] # "pending"
  <2>1. C!Suggest(r) => resolving[r].suggested \in Names
    BY ClassesWork DEF ClassesInv, C!Suggest
  <2>2. C!Enqueue(r) => resolving[r].name \in Names
    BY ClassesWork DEF ClassesInv, C!Enqueue
  <2> QED
    BY <1>2, <1>3, <2>1, <2>2 DEF C!Suggest, C!Enqueue
<1>4. CASE C!Operate \/ C!Restart
  BY <1>1, <1>4 DEF C!Operate, C!ApplyReview, C!Merge, C!UpsertAlias, C!MergeFails, C!CleanUp,
                    C!Restart, C!None, C!Statuses
<1>5. ASSUME NEW r \in Requests,
             \/ C!Ensure(r) \/ C!Embed(r) \/ C!Keep(r) \/ C!Match(r) \/ C!Invoke(r)
             \/ C!ResolveClass(r) \/ C!Request(r)
      PROVE  queue' = queue
  BY <1>5 DEF C!Ensure, C!Embed, C!Keep, C!Match, C!Invoke, C!ResolveClass, C!Request, C!Review
<1>6. CASE UNCHANGED C!vars
  BY <1>6 DEF C!vars
<1> QED
  BY <1>3, <1>4, <1>5, <1>6 DEF C!Next, C!Step

-----------------------------------------------------------------------------
(* AnalysisRecords: the records of a call.                                 *)

Calling == A!Analyzing \cup A!Returned \cup A!Raised

Successes(c) == {i \in DOMAIN records : records[i].call = c /\ records[i].success}
Failures(c) == {i \in DOMAIN records : records[i].call = c /\ ~records[i].success}

(* RecordsTellAttempts, of one call. *)
Told(c) ==
  /\ calls[c] \in A!Analyzing =>
       /\ Cardinality(Failures(c)) = calls[c].analyzer - 1
       /\ Cardinality(Successes(c)) = 0
  /\ A!At(c, "returned") =>
       /\ Cardinality(Failures(c)) < Analyzers /\ Cardinality(Successes(c)) = 1
       /\ calls[c].id \in Successes(c)
  /\ A!At(c, "raised") =>
       /\ Cardinality(Successes(c)) = 0
       /\ ~calls[c].lost => Cardinality(Failures(c)) = Analyzers

FeedbackOfSuccesses ==
  \A i \in DOMAIN records : records[i].routed \/ records[i].feedback # {} => records[i].success

(* Only who was given an id reads and writes feedback. *)
ReadersReturned ==
  \A c \in Requests, half \in A!Halves : updates[c][half].pc = "read" => A!At(c, "returned")

RecordsInv ==
  /\ A!TypeOK /\ ReadersReturned /\ FeedbackOfSuccesses
  /\ \A c \in Requests : Told(c)

LEMMA RecordsCardinality == \A S : A!Cardinality(S) = Cardinality(S)
BY DEF A!Cardinality, Cardinality

LEMMA RecordsAreFinite ==
  ASSUME A!TypeOK, NEW c
  PROVE  /\ IsFiniteSet(Successes(c)) /\ Cardinality(Successes(c)) \in Nat
         /\ IsFiniteSet(Failures(c)) /\ Cardinality(Failures(c)) \in Nat
<1>1. DOMAIN records = 1 .. Len(records) /\ Len(records) \in Nat
  BY DEF A!TypeOK
<1>2. IsFiniteSet(DOMAIN records)
  BY <1>1, FS_Interval
<1>3. Successes(c) \in SUBSET (DOMAIN records) /\ Failures(c) \in SUBSET (DOMAIN records)
  BY DEF Successes, Failures
<1> QED
  BY <1>2, <1>3, FS_Subset, FS_CardinalityType

LEMMA CallState ==
  ASSUME A!TypeOK, NEW c \in Requests
  PROVE  /\ calls[c] \in Calling
         /\ calls[c] \in A!Analyzing <=> calls[c].pc \in {"ask", "answered", "failed"}
         /\ A!At(c, "returned") => calls[c].id \in Nat
         /\ A!At(c, "raised") => calls[c].lost \in BOOLEAN
         /\ \/ calls[c] \in A!Analyzing
            \/ A!At(c, "returned")
            \/ A!At(c, "raised")
BY DEF A!TypeOK, Calling, A!Analyzing, A!Returned, A!Raised, A!At

LEMMA InvTellsAttempts == RecordsInv => RecordsTellAttempts
<1> SUFFICES ASSUME RecordsInv PROVE RecordsTellAttempts
  OBVIOUS
<1>1. \A c : /\ A!Recorded(c, TRUE) = Cardinality(Successes(c))
             /\ A!Recorded(c, FALSE) = Cardinality(Failures(c))
  <2>1. \A i \in DOMAIN records : records[i].success \in BOOLEAN
    <3>1. ASSUME NEW i \in DOMAIN records
          PROVE  records[i] \in A!Record
      BY DEF RecordsInv, A!TypeOK
    <3> QED
      BY <3>1 DEF A!Record
  <2>2. ASSUME NEW c
        PROVE  /\ Successes(c) = {i \in DOMAIN records : records[i].call = c /\ records[i].success = TRUE}
               /\ Failures(c) = {i \in DOMAIN records : records[i].call = c /\ records[i].success = FALSE}
    BY <2>1 DEF Successes, Failures
  <2> QED
    BY <2>2, RecordsCardinality DEF A!Recorded
<1>2. ASSUME NEW c \in Requests
      PROVE  CASE calls[c].pc \in {"ask", "answered", "failed"} ->
                    A!Recorded(c, FALSE) = calls[c].analyzer - 1 /\ A!Recorded(c, TRUE) = 0
               [] A!At(c, "returned") ->
                    /\ A!Recorded(c, FALSE) < Analyzers /\ A!Recorded(c, TRUE) = 1
                    /\ records[calls[c].id].call = c /\ records[calls[c].id].success
               [] A!At(c, "raised") ->
                    /\ A!Recorded(c, TRUE) = 0
                    /\ ~calls[c].lost => A!Recorded(c, FALSE) = Analyzers
  <2>1. Told(c) /\ A!TypeOK
    BY DEF RecordsInv
  <2>2. CASE calls[c] \in A!Analyzing
    <3>1. /\ calls[c].pc \in {"ask", "answered", "failed"}
          /\ A!Recorded(c, FALSE) = calls[c].analyzer - 1 /\ A!Recorded(c, TRUE) = 0
      BY <1>1, <2>1, <2>2, CallState DEF Told
    <3>2. ~A!At(c, "returned") /\ ~A!At(c, "raised")
      BY <3>1 DEF A!At
    <3> QED
      BY <3>1, <3>2
  <2>3. CASE A!At(c, "returned")
    <3>1. /\ A!Recorded(c, FALSE) < Analyzers /\ A!Recorded(c, TRUE) = 1
          /\ records[calls[c].id].call = c /\ records[calls[c].id].success
      BY <1>1, <2>1, <2>3 DEF Told, Successes, Failures
    <3>2. calls[c].pc \notin {"ask", "answered", "failed"} /\ ~A!At(c, "raised")
      BY <2>3 DEF A!At
    <3> QED
      BY <2>3, <3>1, <3>2
  <2>4. CASE A!At(c, "raised")
    <3>1. /\ A!Recorded(c, TRUE) = 0
          /\ ~calls[c].lost => A!Recorded(c, FALSE) = Analyzers
      BY <1>1, <2>1, <2>4 DEF Told
    <3>2. calls[c].pc \notin {"ask", "answered", "failed"} /\ ~A!At(c, "returned")
      BY <2>4 DEF A!At
    <3> QED
      BY <2>4, <3>1, <3>2
  <2> QED
    BY <2>1, <2>2, <2>3, <2>4, CallState
<1> QED
  BY <1>2 DEF RecordsTellAttempts, A!RecordsTellAttempts, RecordsInv, FeedbackOfSuccesses

LEMMA RecordsInit == A!Init => RecordsInv
<1> SUFFICES ASSUME A!Init PROVE RecordsInv
  OBVIOUS
<1>1. /\ records = <<>>
      /\ \A c \in Requests : calls[c] = [pc |-> "ask", analyzer |-> 1]
      /\ \A c \in Requests, half \in A!Halves : updates[c][half] = [pc |-> "open"]
  BY DEF A!Init
<1>2. A!TypeOK
  <2>1. [pc |-> "ask", analyzer |-> 1] \in A!Analyzing /\ [pc |-> "open"] \in A!Update
    BY ChainsAreNotEmpty DEF A!Analyzing, A!Update
  <2> QED
    BY <2>1 DEF A!Init, A!TypeOK
<1>3. \A c \in Requests : Successes(c) = {} /\ Failures(c) = {}
  BY <1>1 DEF Successes, Failures
<1>4. ASSUME NEW c \in Requests
      PROVE  Told(c)
  <2>1. calls[c].pc = "ask" /\ calls[c].analyzer = 1
    BY <1>1
  <2>2. Cardinality(Successes(c)) = 0 /\ Cardinality(Failures(c)) = 0
    BY <1>3, FS_EmptySet
  <2>3. ~A!At(c, "returned") /\ ~A!At(c, "raised") /\ calls[c].analyzer - 1 = 0
    BY <2>1 DEF A!At
  <2> QED
    BY <2>2, <2>3 DEF Told
<1> QED
  BY <1>1, <1>2, <1>4 DEF RecordsInv, ReadersReturned, FeedbackOfSuccesses

(* A record more counts for its call and its outcome, and for no other. *)
LEMMA SavedCounts ==
  ASSUME A!TypeOK, NEW c \in Requests, NEW success \in BOOLEAN, A!Save(c, success)
  PROVE  /\ records' \in Seq(A!Record) /\ Len(records') = Len(records) + 1 /\ Len(records) \in Nat
         /\ \A i \in DOMAIN records : records'[i] = records[i] /\ i \in DOMAIN records'
         /\ \A i \in DOMAIN records' : i \in DOMAIN records \/ i = Len(records) + 1
         /\ Len(records) + 1 \in DOMAIN records' \ DOMAIN records
         /\ records'[Len(records) + 1].call = c
         /\ records'[Len(records) + 1].success = success
         /\ records'[Len(records) + 1].routed = FALSE
         /\ records'[Len(records) + 1].feedback = {}
<1> DEFINE new == [call |-> c, success |-> success, routed |-> FALSE, feedback |-> {}]
<1>1. /\ new \in A!Record
      /\ new.call = c /\ new.success = success /\ new.routed = FALSE /\ new.feedback = {}
  BY DEF A!Record
<1>2. records \in Seq(A!Record) /\ records' = Append(records, new)
  BY DEF A!TypeOK, A!Save
<1> HIDE DEF new
<1>3. /\ records' \in Seq(A!Record) /\ Len(records') = Len(records) + 1 /\ Len(records) \in Nat
      /\ DOMAIN records = 1 .. Len(records) /\ DOMAIN records' = 1 .. Len(records) + 1
      /\ \A i \in 1 .. Len(records) : records'[i] = records[i]
      /\ records'[Len(records) + 1] = new
  BY <1>1, <1>2
<1> QED
  BY <1>1, <1>3

LEMMA SavedRecordsOf ==
  ASSUME A!TypeOK, NEW c \in Requests, NEW success \in BOOLEAN, A!Save(c, success)
  PROVE  /\ success => /\ Cardinality(Successes(c)') = Cardinality(Successes(c)) + 1
                       /\ Len(records) + 1 \in Successes(c)'
                       /\ Failures(c)' = Failures(c)
         /\ ~success => /\ Cardinality(Failures(c)') = Cardinality(Failures(c)) + 1
                        /\ Successes(c)' = Successes(c)
         /\ \A d \in Requests \ {c} : /\ Successes(d)' = Successes(d)
                                      /\ Failures(d)' = Failures(d)
<1> DEFINE n == Len(records) + 1
<1>1. /\ \A i \in DOMAIN records : records'[i] = records[i] /\ i \in DOMAIN records'
      /\ \A i \in DOMAIN records' : i \in DOMAIN records \/ i = n
      /\ n \in DOMAIN records' \ DOMAIN records
      /\ records'[n].call = c /\ records'[n].success = success
  BY SavedCounts
<1> HIDE DEF n
<1>2. n \notin Successes(c) /\ n \notin Failures(c)
  BY <1>1 DEF Successes, Failures
<1>3. success => Successes(c)' = Successes(c) \cup {n} /\ Failures(c)' = Failures(c)
  BY <1>1 DEF Successes, Failures
<1>4. ~success => Failures(c)' = Failures(c) \cup {n} /\ Successes(c)' = Successes(c)
  BY <1>1 DEF Successes, Failures
<1>5. \A d \in Requests \ {c} : /\ Successes(d)' = Successes(d)
                                /\ Failures(d)' = Failures(d)
  BY <1>1 DEF Successes, Failures
<1>6. /\ success => Cardinality(Successes(c)') = Cardinality(Successes(c)) + 1
      /\ ~success => Cardinality(Failures(c)') = Cardinality(Failures(c)) + 1
  BY <1>2, <1>3, <1>4, RecordsAreFinite, FS_AddElement
<1> QED
  BY <1>3, <1>4, <1>5, <1>6 DEF n

(* An update that leaves calls and outcomes alone leaves every account     *)
(* alone.                                                                  *)
LEMMA UpdatedRecordsOf ==
  ASSUME A!TypeOK, NEW n \in DOMAIN records, NEW row \in A!Record,
         records' = [records EXCEPT ![n] = row],
         row.call = records[n].call, row.success = records[n].success
  PROVE  /\ records' \in Seq(A!Record)
         /\ \A c : Successes(c)' = Successes(c) /\ Failures(c)' = Failures(c)
<1>1. /\ DOMAIN records' = DOMAIN records
      /\ records'[n] = row
      /\ \A i \in DOMAIN records \ {n} : records'[i] = records[i]
  BY DEF A!TypeOK
<1>2. records' \in Seq(A!Record)
  BY DEF A!TypeOK
<1>3. \A i \in DOMAIN records : /\ records'[i].call = records[i].call
                                /\ records'[i].success = records[i].success
  BY <1>1
<1> QED
  BY <1>1, <1>2, <1>3 DEF Successes, Failures

(* A step of a call that saves nothing, or its own record.                 *)
LEMMA CallKeepsRecordsInv ==
  ASSUME RecordsInv, NEW c \in Requests, ~A!At(c, "returned"),
         NEW w \in Calling, A!Become(c, w), UNCHANGED updates,
         UNCHANGED records \/ \E success \in BOOLEAN : A!Save(c, success),
         w \in A!Analyzing =>
           /\ Cardinality(Failures(c)') = w.analyzer - 1
           /\ Cardinality(Successes(c)') = 0,
         w.pc = "returned" =>
           /\ Cardinality(Failures(c)') < Analyzers
           /\ Cardinality(Successes(c)') = 1
           /\ w.id \in Successes(c)',
         w.pc = "raised" =>
           /\ Cardinality(Successes(c)') = 0
           /\ ~w.lost => Cardinality(Failures(c)') = Analyzers
  PROVE  RecordsInv'
<1>1. /\ calls' \in [Requests -> Calling] /\ calls'[c] = w
      /\ \A d \in Requests \ {c} : calls'[d] = calls[d]
  BY DEF RecordsInv, A!TypeOK, A!Become, Calling
<1>2. /\ records' \in Seq(A!Record)
      /\ \A d \in Requests \ {c} : /\ Successes(d)' = Successes(d)
                                   /\ Failures(d)' = Failures(d)
  <2>1. CASE UNCHANGED records
    BY <2>1 DEF RecordsInv, A!TypeOK, Successes, Failures
  <2>2. ASSUME NEW success \in BOOLEAN, A!Save(c, success)
        PROVE  /\ records' \in Seq(A!Record)
               /\ \A d \in Requests \ {c} : /\ Successes(d)' = Successes(d)
                                            /\ Failures(d)' = Failures(d)
    BY <2>2, SavedCounts, SavedRecordsOf DEF RecordsInv
  <2> QED
    BY <2>1, <2>2
<1>3. A!TypeOK'
  BY <1>1, <1>2 DEF RecordsInv, A!TypeOK, Calling
<1>4. ReadersReturned'
  BY <1>1 DEF RecordsInv, ReadersReturned, A!At
<1>5. FeedbackOfSuccesses'
  <2>1. CASE UNCHANGED records
    BY <2>1 DEF RecordsInv, FeedbackOfSuccesses
  <2>2. ASSUME NEW success \in BOOLEAN, A!Save(c, success)
        PROVE  FeedbackOfSuccesses'
    <3>1. /\ \A i \in DOMAIN records : records'[i] = records[i]
          /\ \A i \in DOMAIN records' : i \in DOMAIN records \/ i = Len(records) + 1
          /\ records'[Len(records) + 1].routed = FALSE /\ records'[Len(records) + 1].feedback = {}
      BY <2>2, SavedCounts DEF RecordsInv
    <3> QED
      BY <3>1 DEF RecordsInv, FeedbackOfSuccesses
  <2> QED
    BY <2>1, <2>2
<1>6. ASSUME NEW d \in Requests
      PROVE  Told(d)'
  <2>1. CASE d = c
    BY <1>1, <2>1 DEF Told, A!At
  <2>2. CASE d # c
    <3>1. Told(d) /\ calls'[d] = calls[d]
      BY <1>1, <2>2 DEF RecordsInv
    <3> QED
      BY <1>2, <2>2, <3>1 DEF Told, A!At, A!Analyzing
  <2> QED
    BY <2>1, <2>2
<1> QED
  BY <1>3, <1>4, <1>5, <1>6 DEF RecordsInv

LEMMA AnalysisKeepsRecordsInv ==
  ASSUME RecordsInv, NEW c \in Requests, A!DoAnalysis(c) \/ A!Answered(c) \/ A!Failed(c)
  PROVE  RecordsInv'
<1> USE ChainsAreNotEmpty
<1>1. /\ calls[c] \in A!Analyzing /\ ~A!At(c, "returned") /\ UNCHANGED updates
      /\ calls[c].analyzer \in 1 .. Analyzers
      /\ Cardinality(Failures(c)) = calls[c].analyzer - 1
      /\ Cardinality(Successes(c)) = 0
  <2>1. /\ calls[c].pc \in {"ask", "answered", "failed"} /\ UNCHANGED updates
    BY DEF A!DoAnalysis, A!Answered, A!Failed, A!At
  <2>2. calls[c] \in A!Analyzing
    BY <2>1, CallState DEF RecordsInv
  <2> QED
    BY <2>1, <2>2 DEF RecordsInv, Told, A!At, A!Analyzing
<1>2. UNCHANGED records => /\ Failures(c)' = Failures(c)
                           /\ Successes(c)' = Successes(c)
  BY DEF Successes, Failures
<1>3. ASSUME UNCHANGED records, A!Become(c, [pc |-> "raised", lost |-> TRUE])
      PROVE  RecordsInv'
  <2> DEFINE w == [pc |-> "raised", lost |-> TRUE]
  <2>1. w \in Calling /\ w.pc = "raised" /\ w.lost /\ w \notin A!Analyzing
    BY DEF Calling, A!Raised, A!Analyzing
  <2> HIDE DEF w
  <2> QED
    BY <1>1, <1>2, <1>3, <2>1, CallKeepsRecordsInv DEF w
<1>4. CASE A!DoAnalysis(c)
  <2>1. ASSUME NEW outcome \in {"answered", "failed"},
               UNCHANGED records, A!Become(c, [calls[c] EXCEPT !.pc = outcome])
        PROVE  RecordsInv'
    <3> DEFINE w == [calls[c] EXCEPT !.pc = outcome]
    <3>1. w \in A!Analyzing /\ w.pc = outcome /\ w.analyzer = calls[c].analyzer
      BY <1>1 DEF A!Analyzing
    <3> HIDE DEF w
    <3> QED
      BY <1>1, <1>2, <2>1, <3>1, CallKeepsRecordsInv DEF w, Calling
  <2> QED
    BY <1>3, <1>4, <2>1 DEF A!DoAnalysis
<1>5. CASE A!Answered(c)
  <2>1. CASE A!Save(c, TRUE) /\ A!Become(c, [pc |-> "returned", id |-> Len(records) + 1])
    <3> DEFINE w == [pc |-> "returned", id |-> Len(records) + 1]
    <3>1. Len(records) \in Nat
      BY DEF RecordsInv, A!TypeOK
    <3>2. w \in Calling /\ w.pc = "returned" /\ w.id = Len(records) + 1 /\ w \notin A!Analyzing
      BY <3>1 DEF Calling, A!Returned, A!Analyzing
    <3> HIDE DEF w
    <3>3. /\ Cardinality(Successes(c)') = Cardinality(Successes(c)) + 1
          /\ Len(records) + 1 \in Successes(c)'
          /\ Failures(c)' = Failures(c)
      BY <2>1, SavedRecordsOf, Zenon DEF RecordsInv
    <3>4. Cardinality(Successes(c)') = 1 /\ Cardinality(Failures(c)') < Analyzers
      BY <1>1, <3>3
    <3> QED
      BY <1>1, <2>1, <3>2, <3>3, <3>4, CallKeepsRecordsInv, Zenon DEF w
  <2> QED
    BY <1>3, <1>5, <2>1 DEF A!Answered
<1>6. CASE A!Failed(c)
  <2> DEFINE w == IF calls[c].analyzer < Analyzers
                  THEN [pc |-> "ask", analyzer |-> calls[c].analyzer + 1]
                  ELSE [pc |-> "raised", lost |-> FALSE]
  <2>1. CASE A!Save(c, FALSE) /\ A!Become(c, w)
    <3>0. /\ Cardinality(Failures(c)') = Cardinality(Failures(c)) + 1
          /\ Successes(c)' = Successes(c)
      BY <2>1, SavedRecordsOf, Zenon DEF RecordsInv
    <3>1. /\ Cardinality(Failures(c)') = calls[c].analyzer
          /\ Cardinality(Successes(c)') = 0
      BY <1>1, <3>0
    <3>2. CASE calls[c].analyzer < Analyzers
      <4>1. w \in A!Analyzing /\ w.pc = "ask" /\ w.analyzer = calls[c].analyzer + 1
        BY <1>1, <3>2 DEF A!Analyzing
      <4>2. Cardinality(Failures(c)') = w.analyzer - 1 /\ w \in Calling
        BY <1>1, <3>1, <4>1 DEF Calling
      <4> HIDE DEF w
      <4>3. w.pc # "returned" /\ w.pc # "raised"
        BY <4>1
      <4> QED
        BY <1>1, <2>1, <3>1, <4>2, <4>3, CallKeepsRecordsInv, Zenon
    <3>3. CASE ~(calls[c].analyzer < Analyzers)
      <4>1. calls[c].analyzer = Analyzers
        BY <1>1, <3>3
      <4>2. w \in Calling /\ w.pc = "raised" /\ w \notin A!Analyzing
        BY <3>3 DEF Calling, A!Raised, A!Analyzing
      <4> HIDE DEF w
      <4> QED
        BY <1>1, <2>1, <3>1, <4>1, <4>2, CallKeepsRecordsInv
    <3> QED
      BY <3>2, <3>3
  <2> QED
    BY <1>3, <1>6, <2>1 DEF A!Failed
<1> QED
  BY <1>4, <1>5, <1>6

(* What the caller does with the id of a record leaves its account alone.  *)
LEMMA UpdatesKeepRecordsInv ==
  ASSUME RecordsInv, NEW c \in Requests, A!At(c, "returned"),
         NEW row \in A!Record, UNCHANGED calls,
         records' = [records EXCEPT ![calls[c].id] = row],
         row.call = records[calls[c].id].call,
         row.success = records[calls[c].id].success,
         updates' \in [Requests -> [A!Halves -> A!Update]],
         \A d \in Requests, half \in A!Halves :
           updates'[d][half].pc = "read" => updates[d][half].pc = "read" \/ d = c
  PROVE  RecordsInv'
<1>1. calls[c].id \in DOMAIN records /\ records[calls[c].id].success
  BY DEF RecordsInv, Told, Successes
<1>2. /\ records' \in Seq(A!Record)
      /\ \A d : Successes(d)' = Successes(d) /\ Failures(d)' = Failures(d)
  BY <1>1, UpdatedRecordsOf DEF RecordsInv
<1>3. A!TypeOK'
  BY <1>2 DEF RecordsInv, A!TypeOK
<1>4. ReadersReturned'
  BY DEF RecordsInv, ReadersReturned, A!At
<1>5. FeedbackOfSuccesses'
  <2>1. /\ DOMAIN records' = DOMAIN records
        /\ \A i \in DOMAIN records : records'[i] = records[i] \/ records'[i].success
    BY <1>1 DEF RecordsInv, A!TypeOK
  <2> QED
    BY <2>1 DEF RecordsInv, FeedbackOfSuccesses
<1>6. \A d \in Requests : Told(d)'
  BY <1>2 DEF RecordsInv, Told, A!At, A!Analyzing
<1> QED
  BY <1>3, <1>4, <1>5, <1>6 DEF RecordsInv

LEMMA CallerKeepsRecordsInv ==
  ASSUME RecordsInv, NEW c \in Requests,
         \/ A!UpdateRoutedModel(c)
         \/ \E half \in A!Halves : A!ReadFeedback(c, half) \/ A!WriteFeedback(c, half)
  PROVE  RecordsInv'
<1>1. A!TypeOK /\ updates \in [Requests -> [A!Halves -> A!Update]]
  BY DEF RecordsInv, A!TypeOK
<1>2. A!At(c, "returned")
  BY DEF A!UpdateRoutedModel, A!ReadFeedback, A!WriteFeedback, RecordsInv, ReadersReturned
<1> DEFINE n == calls[c].id
<1>3. n \in DOMAIN records
  BY <1>2 DEF RecordsInv, Told, Successes
<1>4. records[n] \in A!Record
  BY <1>1, <1>3 DEF A!TypeOK
<1>5. CASE A!UpdateRoutedModel(c)
  <2> DEFINE row == [records[n] EXCEPT !.routed = TRUE]
  <2>1. row \in A!Record /\ row.call = records[n].call /\ row.success = records[n].success
    BY <1>4 DEF A!Record
  <2>2. records' = [records EXCEPT ![n] = row] /\ UNCHANGED <<calls, updates>>
    BY <1>3, <1>5 DEF A!UpdateRoutedModel
  <2> HIDE DEF row
  <2> QED
    BY <1>1, <1>2, <2>1, <2>2, UpdatesKeepRecordsInv
<1>6. ASSUME NEW half \in A!Halves, A!ReadFeedback(c, half)
      PROVE  RecordsInv'
  <2> DEFINE v == [pc |-> "read", seen |-> records[n].feedback]
  <2>1. v \in A!Update
    BY <1>4 DEF A!Record, A!Update
  <2>2. updates' = [updates EXCEPT ![c][half] = v] /\ UNCHANGED <<records, calls>>
    BY <1>6 DEF A!ReadFeedback
  <2> HIDE DEF v
  <2>3. /\ updates' \in [Requests -> [A!Halves -> A!Update]]
        /\ \A d \in Requests \ {c} : updates'[d] = updates[d]
    BY <1>1, <2>1, <2>2
  <2>4. records' = [records EXCEPT ![n] = records[n]]
    BY <1>1, <1>3, <2>2 DEF A!TypeOK
  <2> QED
    BY <1>2, <1>4, <2>2, <2>3, <2>4, UpdatesKeepRecordsInv
<1>7. ASSUME NEW half \in A!Halves, A!WriteFeedback(c, half)
      PROVE  RecordsInv'
  <2>1. /\ updates[c][half] \in A!Update /\ updates[c][half].pc = "read"
        /\ UNCHANGED calls
    BY <1>1, <1>7 DEF A!WriteFeedback
  <2>2. updates[c][half].seen \in SUBSET A!Halves
    BY <2>1 DEF A!Update
  <2>3. ASSUME NEW v \in A!Update, v.pc # "read",
               updates' = [updates EXCEPT ![c][half] = v]
        PROVE  /\ updates' \in [Requests -> [A!Halves -> A!Update]]
               /\ \A d \in Requests \ {c} : updates'[d] = updates[d]
    BY <1>1, <2>3
  <2>4. [pc |-> "done"] \in A!Update /\ [pc |-> "open"] \in A!Update
    BY DEF A!Update
  <2>5. /\ updates' \in [Requests -> [A!Halves -> A!Update]]
        /\ \A d \in Requests \ {c} : updates'[d] = updates[d]
    BY <1>7, <2>3, <2>4 DEF A!WriteFeedback
  <2>6. CASE UNCHANGED records
    <3>1. records' = [records EXCEPT ![n] = records[n]]
      BY <1>1, <1>3, <2>6 DEF A!TypeOK
    <3>2. \A d \in Requests, h \in A!Halves :
            updates'[d][h].pc = "read" => updates[d][h].pc = "read" \/ d = c
      BY <2>5
    <3> HIDE DEF n
    <3> QED
      BY <1>2, <1>4, <2>1, <2>5, <3>1, <3>2, UpdatesKeepRecordsInv DEF n
  <2>7. CASE records' = [records EXCEPT ![n].feedback = updates[c][half].seen \cup {half}]
    <3> DEFINE row == [records[n] EXCEPT !.feedback = updates[c][half].seen \cup {half}]
    <3>1. row \in A!Record /\ row.call = records[n].call /\ row.success = records[n].success
      BY <1>4, <2>2 DEF A!Record
    <3>2. records' = [records EXCEPT ![n] = row]
      BY <1>3, <2>7
    <3> HIDE DEF row
    <3> QED
      BY <1>2, <2>1, <2>5, <3>1, <3>2, UpdatesKeepRecordsInv
  <2> QED
    BY <1>7, <2>6, <2>7 DEF A!WriteFeedback
<1> QED
  BY <1>5, <1>6, <1>7

LEMMA RecordsNext == RecordsInv /\ [A!Next]_(A!vars) => RecordsInv'
<1> SUFFICES ASSUME RecordsInv, [A!Next]_(A!vars) PROVE RecordsInv'
  OBVIOUS
<1>1. CASE UNCHANGED A!vars
  <2>1. UNCHANGED <<records, calls, updates>>
    BY <1>1 DEF A!vars
  <2>2. \A c : Successes(c)' = Successes(c) /\ Failures(c)' = Failures(c)
    BY <2>1 DEF Successes, Failures
  <2>3. \A c \in Requests : Told(c)'
    BY <2>1, <2>2 DEF RecordsInv, Told, A!At, A!Analyzing
  <2> QED
    BY <2>1, <2>3 DEF RecordsInv, A!TypeOK, ReadersReturned, FeedbackOfSuccesses, A!At
<1>2. CASE A!Over
  BY <1>1, <1>2 DEF A!Over
<1>3. ASSUME NEW c \in Requests,
             \/ A!DoAnalysis(c) \/ A!Answered(c) \/ A!Failed(c) \/ A!UpdateRoutedModel(c)
             \/ \E half \in A!Halves : A!ReadFeedback(c, half) \/ A!WriteFeedback(c, half)
      PROVE  RecordsInv'
  BY <1>3, AnalysisKeepsRecordsInv, CallerKeepsRecordsInv
<1> QED
  BY <1>1, <1>2, <1>3 DEF A!Next

(* Not both halves of the feedback of a record are being updated.          *)
OneUpdatePerRecord ==
  \A c \in Requests, g, h \in A!Halves :
    updates[c][g].pc = "read" /\ updates[c][h].pc = "read" => g = h

(* A half whose update has completed is in the record, and in what the     *)
(* update of the other half has read.                                      *)
HalvesAreKept ==
  \A c \in Requests, g \in A!Halves : updates[c][g].pc = "done" =>
    /\ A!At(c, "returned")
    /\ g \in records[calls[c].id].feedback
    /\ \A h \in A!Halves : updates[c][h].pc = "read" => g \in updates[c][h].seen

LEMMA HalvesInit == A!Init => HalvesAreKept
BY DEF A!Init, HalvesAreKept

(* The feedback of a record, the updates of its halves and where its call  *)
(* is, are all that HalvesAreKept looks at.                                *)
LEMMA HalvesOfOthers ==
  ASSUME RecordsInv, HalvesAreKept, NEW c \in Requests,
         calls' = calls, updates'[c] = updates[c],
         A!At(c, "returned") => records'[calls[c].id].feedback = records[calls[c].id].feedback
  PROVE  \A g \in A!Halves : updates'[c][g].pc = "done" =>
           /\ A!At(c, "returned")'
           /\ g \in records'[calls'[c].id].feedback
           /\ \A h \in A!Halves : updates'[c][h].pc = "read" => g \in updates'[c][h].seen
BY DEF HalvesAreKept, A!At

LEMMA UpdatingKeepsHalves ==
  ASSUME RecordsInv, HalvesAreKept, OneUpdatePerRecord, NEW c \in Requests,
         \/ A!UpdateRoutedModel(c)
         \/ \E half \in A!Halves : A!ReadFeedback(c, half) \/ A!WriteFeedback(c, half)
  PROVE  HalvesAreKept'
<1> DEFINE n == calls[c].id
<1>1. /\ A!TypeOK /\ updates \in [Requests -> [A!Halves -> A!Update]] /\ records \in Seq(A!Record)
      /\ A!At(c, "returned") /\ n \in DOMAIN records /\ UNCHANGED calls
  BY DEF RecordsInv, A!TypeOK, A!UpdateRoutedModel, A!ReadFeedback, A!WriteFeedback,
         ReadersReturned, Told, Successes
<1>2. \A d \in Requests \ {c} : A!At(d, "returned") => calls[d].id \in DOMAIN records /\ calls[d].id # n
  <2>1. \A d \in Requests : A!At(d, "returned") => calls[d].id \in Successes(d)
    BY DEF RecordsInv, Told
  <2>2. \A d \in Requests : A!At(d, "returned") =>
          calls[d].id \in DOMAIN records /\ records[calls[d].id].call = d
    BY <2>1 DEF Successes
  <2> QED
    BY <1>1, <2>2
<1>3. records[n] \in A!Record
  BY <1>1
<1> HIDE DEF n
<1>4. CASE A!UpdateRoutedModel(c)
  <2>1. records' = [records EXCEPT ![n].routed = TRUE] /\ updates' = updates
    BY <1>4 DEF A!UpdateRoutedModel, n
  <2>2. \A i \in DOMAIN records : records'[i].feedback = records[i].feedback
    BY <1>1, <1>3, <2>1 DEF A!Record
  <2> QED
    BY <1>1, <1>2, <2>1, <2>2, HalvesOfOthers DEF HalvesAreKept, n
<1>5. ASSUME NEW half \in A!Halves, A!ReadFeedback(c, half)
      PROVE  HalvesAreKept'
  <2>1. /\ records' = records
        /\ updates' = [updates EXCEPT ![c][half] = [pc |-> "read", seen |-> records[n].feedback]]
    BY <1>5 DEF A!ReadFeedback, n
  <2>2. /\ \A d \in Requests \ {c} : updates'[d] = updates[d]
        /\ \A g \in A!Halves \ {half} : updates'[c][g] = updates[c][g]
        /\ updates'[c][half].pc = "read" /\ updates'[c][half].seen = records[n].feedback
    BY <1>1, <2>1
  <2> QED
    BY <1>1, <2>1, <2>2 DEF HalvesAreKept, A!At, n
<1>6. ASSUME NEW half \in A!Halves, A!WriteFeedback(c, half)
      PROVE  HalvesAreKept'
  <2>1. \A g \in A!Halves \ {half} : updates[c][g].pc # "read"
    BY <1>6 DEF A!WriteFeedback, OneUpdatePerRecord
  <2>2. CASE /\ records' = [records EXCEPT ![n].feedback = updates[c][half].seen \cup {half}]
             /\ updates' = [updates EXCEPT ![c][half] = [pc |-> "done"]]
    <3>1. /\ \A d \in Requests \ {c} : updates'[d] = updates[d]
          /\ \A g \in A!Halves \ {half} : updates'[c][g] = updates[c][g]
          /\ updates'[c][half].pc = "done"
      BY <1>1, <2>2
    <3>2. /\ records'[n].feedback = updates[c][half].seen \cup {half}
          /\ \A i \in DOMAIN records \ {n} : records'[i] = records[i]
      BY <1>1, <1>3, <2>2 DEF A!Record
    <3>3. \A g \in A!Halves \ {half} : updates[c][g].pc = "done" => g \in updates[c][half].seen
      BY <1>6 DEF A!WriteFeedback, HalvesAreKept
    <3> QED
      BY <1>1, <1>2, <2>1, <3>1, <3>2, <3>3 DEF HalvesAreKept, A!At, n
  <2>3. CASE records' = records /\ updates' = [updates EXCEPT ![c][half] = [pc |-> "open"]]
    <3>1. /\ \A d \in Requests \ {c} : updates'[d] = updates[d]
          /\ \A g \in A!Halves \ {half} : updates'[c][g] = updates[c][g]
          /\ updates'[c][half].pc = "open"
      BY <1>1, <2>3
    <3> QED
      BY <1>1, <2>3, <3>1 DEF HalvesAreKept, A!At
  <2> QED
    BY <1>6, <2>2, <2>3 DEF A!WriteFeedback, n
<1> QED
  BY <1>4, <1>5, <1>6

(* A call that is not over has no updates yet, and leaves the records of   *)
(* others alone.                                                           *)
LEMMA AnalysisKeepsHalves ==
  ASSUME RecordsInv, HalvesAreKept, NEW c \in Requests,
         A!DoAnalysis(c) \/ A!Answered(c) \/ A!Failed(c)
  PROVE  HalvesAreKept'
<1>1. /\ ~A!At(c, "returned") /\ updates' = updates
      /\ \A d \in Requests \ {c} : calls'[d] = calls[d]
  BY DEF A!DoAnalysis, A!Answered, A!Failed, A!At, A!Become, RecordsInv, A!TypeOK
<1>2. \A i \in DOMAIN records : records'[i] = records[i]
  <2>1. CASE UNCHANGED records
    BY <2>1
  <2>2. ASSUME NEW success \in BOOLEAN, A!Save(c, success)
        PROVE  \A i \in DOMAIN records : records'[i] = records[i]
    BY <2>2, SavedCounts DEF RecordsInv
  <2> QED
    BY <2>1, <2>2 DEF A!DoAnalysis, A!Answered, A!Failed
<1>3. \A d \in Requests : A!At(d, "returned") => calls[d].id \in DOMAIN records
  BY DEF RecordsInv, Told, Successes
<1> QED
  BY <1>1, <1>2, <1>3 DEF HalvesAreKept, A!At

LEMMA HalvesNext ==
  RecordsInv /\ HalvesAreKept /\ OneUpdatePerRecord /\ [A!Next]_(A!vars) => HalvesAreKept'
<1> SUFFICES ASSUME RecordsInv, HalvesAreKept, OneUpdatePerRecord, [A!Next]_(A!vars)
             PROVE  HalvesAreKept'
  OBVIOUS
<1>1. CASE UNCHANGED A!vars
  BY <1>1 DEF A!vars, HalvesAreKept, A!At
<1>2. CASE A!Over
  BY <1>1, <1>2 DEF A!Over
<1> QED
  BY <1>1, <1>2, UpdatingKeepsHalves, AnalysisKeepsHalves DEF A!Next

-----------------------------------------------------------------------------
(* Sublists.                                                               *)

(* The places of a set are its elements, each once.                        *)
LEMMA PlacesAreThere ==
  ASSUME NEW Q \in SUBSET Nat, IsFiniteSet(Q)
  PROVE  /\ \A n \in 1 .. Cardinality(Q) :
              Place(Q, n) \in Q /\ Cardinality({q \in Q : q <= Place(Q, n)}) = n
         /\ \A i, j \in 1 .. Cardinality(Q) : Place(Q, i) = Place(Q, j) => i = j
         /\ \A p \in Q : \E n \in 1 .. Cardinality(Q) : Place(Q, n) = p
<1> DEFINE Upto(p) == {q \in Q : q <= p}
           rank == [p \in Q |-> Cardinality(Upto(p))]
<1>1. Cardinality(Q) \in Nat
  BY FS_CardinalityType
<1>2. ASSUME NEW p \in Q
      PROVE  /\ IsFiniteSet(Upto(p)) /\ Cardinality(Upto(p)) \in 1 .. Cardinality(Q)
  <2>1. Upto(p) \in SUBSET Q /\ p \in Upto(p)
    OBVIOUS
  <2> HIDE DEF Upto
  <2>2. IsFiniteSet(Upto(p)) /\ Cardinality(Upto(p)) <= Cardinality(Q)
    BY <2>1, FS_Subset
  <2>3. Cardinality(Upto(p)) \in Nat /\ Cardinality(Upto(p)) # 0
    BY <2>1, <2>2, FS_CardinalityType, FS_EmptySet
  <2> QED
    BY <1>1, <2>2, <2>3
<1>3. ASSUME NEW p \in Q, NEW q \in Q, p < q
      PROVE  rank[p] # rank[q]
  <2>0. p \in Nat /\ q \in Nat /\ Q \subseteq Nat
    OBVIOUS
  <2>1. Upto(p) \in SUBSET Upto(q) /\ q \in Upto(q) /\ q \notin Upto(p)
    <3>1. \A x \in Nat : x <= p => x <= q
      BY <1>3, <2>0
    <3>2. q <= q /\ ~(q <= p)
      BY <1>3, <2>0
    <3> QED
      BY <2>0, <3>1, <3>2
  <2> HIDE DEF Upto
  <2>2. Cardinality(Upto(p)) # Cardinality(Upto(q))
    BY <1>2, <2>1, FS_Subset
  <2> QED
    BY <2>2
<1>4. rank \in Injection(Q, 1 .. Cardinality(Q))
  <2>1. rank \in [Q -> 1 .. Cardinality(Q)]
    BY <1>2
  <2>2. \A p, q \in Q : rank[p] = rank[q] => p = q
    <3> HIDE DEF rank
    <3>1. \A p, q \in Q : p # q => p < q \/ q < p
      OBVIOUS
    <3> QED
      BY <1>3, <3>1
  <2> HIDE DEF rank
  <2> QED
    BY <2>1, <2>2 DEF Injection, IsInjective
<1>5. /\ IsFiniteSet(1 .. Cardinality(Q))
      /\ Cardinality(1 .. Cardinality(Q)) = Cardinality(Q)
  BY <1>1, FS_Interval
<1>6. rank \in Surjection(Q, 1 .. Cardinality(Q))
  BY <1>4, <1>5, FS_Injection
<1>7. \A n \in 1 .. Cardinality(Q) : \E p \in Q : rank[p] = n
  BY <1>6 DEF Surjection
<1>8. ASSUME NEW n \in 1 .. Cardinality(Q)
      PROVE  Place(Q, n) \in Q /\ rank[Place(Q, n)] = n
  BY <1>7 DEF Place
<1>9. \A p \in Q : rank[p] \in 1 .. Cardinality(Q)
  BY <1>2
<1>10. \A p, q \in Q : rank[p] = rank[q] => p = q
  BY <1>4 DEF Injection, IsInjective
<1>11. \A n \in 1 .. Cardinality(Q) : Cardinality({q \in Q : q <= Place(Q, n)}) = n
  BY <1>8
<1> HIDE DEF rank
<1> QED
  BY <1>8, <1>9, <1>10, <1>11

LEMMA SublistHas ==
  ASSUME NEW T, NEW s \in Seq(T), NEW Q \in SUBSET DOMAIN s
  PROVE  /\ IsFiniteSet(Q) /\ Cardinality(Q) \in Nat
         /\ Sublist(s, Q) \in Seq(T) /\ Len(Sublist(s, Q)) = Cardinality(Q)
         /\ DOMAIN Sublist(s, Q) = 1 .. Cardinality(Q)
         /\ \A i \in DOMAIN Sublist(s, Q) : \E p \in Q : Sublist(s, Q)[i] = s[p]
         /\ \A p \in Q : \E i \in DOMAIN Sublist(s, Q) : Sublist(s, Q)[i] = s[p]
         /\ (\A i, j \in DOMAIN s : s[i] = s[j] => i = j) =>
              \A i, j \in DOMAIN Sublist(s, Q) : Sublist(s, Q)[i] = Sublist(s, Q)[j] => i = j
<1>1. Q \in SUBSET Nat /\ IsFiniteSet(Q)
  <2>1. Len(s) \in Nat /\ Q \in SUBSET (1 .. Len(s))
    OBVIOUS
  <2>2. IsFiniteSet(1 .. Len(s))
    BY <2>1, FS_Interval
  <2>3. IsFiniteSet(Q)
    BY <2>1, <2>2, FS_Subset
  <2> QED
    BY <2>1, <2>3
<1>2. Cardinality(Q) \in Nat
  BY <1>1, FS_CardinalityType
<1>3. /\ DOMAIN Sublist(s, Q) = 1 .. Cardinality(Q)
      /\ \A i \in 1 .. Cardinality(Q) : Sublist(s, Q)[i] = s[Place(Q, i)]
  BY DEF Sublist
<1>4. /\ \A n \in 1 .. Cardinality(Q) : Place(Q, n) \in Q
      /\ \A i, j \in 1 .. Cardinality(Q) : Place(Q, i) = Place(Q, j) => i = j
      /\ \A p \in Q : \E n \in 1 .. Cardinality(Q) : Place(Q, n) = p
  BY <1>1, PlacesAreThere
<1>5. Sublist(s, Q) \in Seq(T) /\ Len(Sublist(s, Q)) = Cardinality(Q)
  BY <1>2, <1>4 DEF Sublist
<1>6. ASSUME \A i, j \in DOMAIN s : s[i] = s[j] => i = j
      PROVE  \A i, j \in DOMAIN Sublist(s, Q) : Sublist(s, Q)[i] = Sublist(s, Q)[j] => i = j
  BY <1>3, <1>4, <1>6
<1> QED
  BY <1>1, <1>2, <1>3, <1>4, <1>5, <1>6

LEMMA SublistsAlike ==
  \A s, Q : X!Sublist(s, Q) = Sublist(s, Q) /\ M!Sublist(s, Q) = Sublist(s, Q)
<1>1. \A S : X!Cardinality(S) = Cardinality(S) /\ M!Cardinality(S) = Cardinality(S)
  BY DEF X!Cardinality, M!Cardinality, Cardinality
<1>2. \A Q, n : X!Place(Q, n) = Place(Q, n) /\ M!Place(Q, n) = Place(Q, n)
  BY <1>1 DEF X!Place, M!Place, Place
<1> QED
  BY <1>1, <1>2 DEF X!Sublist, M!Sublist, Sublist

-----------------------------------------------------------------------------
(* Monitoring: the rows of executions.                                     *)

RowsOf(s) == {s[i] : i \in DOMAIN s}
IdsDiffer(s) == \A i, j \in DOMAIN s : s[i].id = s[j].id => i = j

MonitoringInv == M!TypeOK /\ NoRowLeftRunning

LEMMA SomeRows ==
  ASSUME NEW s \in Seq(M!Row), IdsDiffer(s), NEW Q \in SUBSET DOMAIN s
  PROVE  /\ M!Sublist(s, Q) \in Seq(M!Row)
         /\ RowsOf(M!Sublist(s, Q)) = {s[p] : p \in Q}
         /\ IdsDiffer(M!Sublist(s, Q))
<1> DEFINE t == Sublist(s, Q)
<1>1. M!Sublist(s, Q) = t
  BY SublistsAlike
<1>2. /\ t \in Seq(M!Row)
      /\ \A i \in DOMAIN t : \E p \in Q : t[i] = s[p]
      /\ \A p \in Q : \E i \in DOMAIN t : t[i] = s[p]
      /\ (\A i, j \in DOMAIN s : s[i] = s[j] => i = j) =>
           \A i, j \in DOMAIN t : t[i] = t[j] => i = j
  BY SublistHas
<1> HIDE DEF t
<1>3. RowsOf(t) = {s[p] : p \in Q}
  BY <1>2 DEF RowsOf
<1>4. ASSUME NEW i \in DOMAIN t, NEW j \in DOMAIN t, t[i].id = t[j].id
      PROVE  i = j
  <2>1. PICK p \in Q, q \in Q : t[i] = s[p] /\ t[j] = s[q]
    BY <1>2
  <2>2. p = q
    BY <1>4, <2>1 DEF IdsDiffer
  <2>3. \A k, l \in DOMAIN s : s[k] = s[l] => k = l
    BY DEF IdsDiffer
  <2> QED
    BY <1>2, <2>1, <2>2, <2>3
<1> QED
  BY <1>1, <1>2, <1>3, <1>4 DEF IdsDiffer

LEMMA CleaningUp ==
  ASSUME NEW s \in Seq(M!Row), IdsDiffer(s)
  PROVE  /\ M!CleanedUp(s) \in Seq(M!Row)
         /\ RowsOf(M!CleanedUp(s)) \subseteq RowsOf(s)
         /\ IdsDiffer(M!CleanedUp(s))
<1> DEFINE Q == {i \in DOMAIN s : ~s[i].old}
<1>1. Q \in SUBSET DOMAIN s /\ M!CleanedUp(s) = M!Sublist(s, Q)
  BY DEF M!CleanedUp
<1>2. {s[p] : p \in Q} \subseteq RowsOf(s)
  BY DEF RowsOf
<1> HIDE DEF Q
<1> QED
  BY <1>1, <1>2, SomeRows

(* A row that takes the place of the one with its id.                      *)
LEMMA PuttingFirst ==
  ASSUME M!TypeOK, NEW row \in M!Row
  PROVE  LET new == M!CleanedUp(<<row>> \o M!Without(rows, row.id)) IN
         /\ new \in Seq(M!Row) /\ IdsDiffer(new)
         /\ \A old \in RowsOf(new) : old = row \/ (old \in RowsOf(rows) /\ old.id # row.id)
<1> DEFINE Q == {i \in DOMAIN rows : rows[i].id # row.id}
           rest == M!Without(rows, row.id)
           all == <<row>> \o rest
<1>1. Q \in SUBSET DOMAIN rows /\ rest = M!Sublist(rows, Q)
  BY DEF M!Without
<1>2. rows \in Seq(M!Row) /\ IdsDiffer(rows)
  BY DEF M!TypeOK, IdsDiffer
<1>3. rest \in Seq(M!Row) /\ IdsDiffer(rest) /\ RowsOf(rest) = {rows[p] : p \in Q}
  <2> HIDE DEF Q, rest
  <2> QED
    BY <1>1, <1>2, SomeRows
<1>4. \A old \in RowsOf(rest) : old \in RowsOf(rows) /\ old.id # row.id
  BY <1>3 DEF RowsOf
<1> HIDE DEF rest
<1>5. /\ all \in Seq(M!Row)
      /\ DOMAIN all = 1 .. Len(rest) + 1 /\ Len(rest) \in Nat
      /\ all[1] = row
      /\ \A i \in DOMAIN all \ {1} : i - 1 \in DOMAIN rest /\ all[i] = rest[i - 1]
  BY <1>3
<1> HIDE DEF all
<1>6. \A old \in RowsOf(all) : old = row \/ (old \in RowsOf(rows) /\ old.id # row.id)
  BY <1>4, <1>5 DEF RowsOf
<1>7. ASSUME NEW i \in DOMAIN all, NEW j \in DOMAIN all, all[i].id = all[j].id
      PROVE  i = j
  <2>1. \A k \in DOMAIN all \ {1} : all[k].id # row.id
    BY <1>4, <1>5 DEF RowsOf
  <2>2. CASE i = 1 \/ j = 1
    BY <1>5, <1>7, <2>1, <2>2
  <2>3. CASE i # 1 /\ j # 1
    <3>1. i - 1 \in DOMAIN rest /\ j - 1 \in DOMAIN rest /\ rest[i - 1].id = rest[j - 1].id
      BY <1>5, <1>7, <2>3
    <3>2. i - 1 = j - 1 /\ i \in Nat /\ j \in Nat
      BY <1>3, <1>5, <3>1 DEF IdsDiffer
    <3> QED
      BY <3>2
  <2> QED
    BY <2>2, <2>3
<1>8. IdsDiffer(all)
  BY <1>7 DEF IdsDiffer
<1>9. /\ M!CleanedUp(all) \in Seq(M!Row) /\ IdsDiffer(M!CleanedUp(all))
      /\ RowsOf(M!CleanedUp(all)) \subseteq RowsOf(all)
  BY <1>5, <1>8, CleaningUp
<1> QED
  BY <1>6, <1>9 DEF all, rest

LEMMA KnownRow ==
  ASSUME M!TypeOK, NEW id \in M!IdsOf(rows)
  PROVE  M!RowOf(id) \in M!Row /\ M!RowOf(id).id = id
BY DEF M!TypeOK, M!IdsOf, M!RowOf

LEMMA StartedRow ==
  ASSUME M!TypeOK, NEW id \in Ids, NEW agent \in Agents
  PROVE  /\ M!Started(id, agent) \in Seq(M!Row) /\ IdsDiffer(M!Started(id, agent))
         /\ \A old \in RowsOf(M!Started(id, agent)) :
              old.id = id \/ (old \in RowsOf(rows) /\ old.id # id)
<1> DEFINE old == id \in M!IdsOf(rows) /\ M!RowOf(id).old
           row == [id |-> id, agent |-> agent, running |-> TRUE, old |-> old]
<1>1. old \in BOOLEAN
  OBVIOUS
<1>2. M!Started(id, agent) = M!CleanedUp(<<row>> \o M!Without(rows, id))
  BY DEF M!Started
<1> HIDE DEF old
<1>3. row \in M!Row /\ row.id = id
  BY <1>1 DEF M!Row
<1> HIDE DEF row
<1> QED
  BY <1>2, <1>3, PuttingFirst

LEMMA EndedRow ==
  ASSUME M!TypeOK, NEW id \in M!IdsOf(rows)
  PROVE  /\ M!Ended(id) \in Seq(M!Row) /\ IdsDiffer(M!Ended(id))
         /\ \A old \in RowsOf(M!Ended(id)) :
              ~old.running \/ (old \in RowsOf(rows) /\ old.id # id)
<1> DEFINE row == [M!RowOf(id) EXCEPT !.running = FALSE]
<1>1. row \in M!Row /\ row.id = id /\ ~row.running
  BY KnownRow DEF M!Row
<1>2. M!Ended(id) = M!CleanedUp(<<row>> \o M!Without(rows, id))
  BY DEF M!Ended
<1> HIDE DEF row
<1> QED
  BY <1>1, <1>2, PuttingFirst

LEMMA RowIds == ASSUME M!TypeOK PROVE M!IdsOf(rows) \subseteq Ids
<1> SUFFICES ASSUME NEW i \in DOMAIN rows PROVE rows[i].id \in Ids
  BY DEF M!IdsOf
<1>1. rows[i] \in M!Row
  BY DEF M!TypeOK
<1> QED
  BY <1>1 DEF M!Row

LEMMA MonitoringInit == M!Init => MonitoringInv
BY NoneIsNoId DEF M!Init, MonitoringInv, M!TypeOK, NoRowLeftRunning, M!NoRowLeftRunning, M!None

(* What explains a row that says "running".                                *)
Explained(id) == id \in opened \cup abandoned \/ \E r \in Requests : recording[r] = id

(* NoRowLeftRunning, of rows rather than of their places.                  *)
LEMMA RunningRows ==
  /\ NoRowLeftRunning <=> \A row \in RowsOf(rows) : row.running => Explained(row.id)
  /\ NoRowLeftRunning' <=> \A row \in RowsOf(rows') : row.running => Explained(row.id)'
BY DEF NoRowLeftRunning, M!NoRowLeftRunning, RowsOf, Explained

LEMMA RoutesKeepMonitoringInv ==
  ASSUME MonitoringInv, NEW r \in Requests, M!StartRoute(r) \/ M!EndRoute(r)
  PROVE  MonitoringInv'
<1>1. M!TypeOK /\ recording \in [Requests -> Ids \cup {M!None}] /\ M!None \notin Ids
  BY NoneIsNoId DEF MonitoringInv, M!TypeOK, M!None
<1>2. \A row \in RowsOf(rows) : row.running => Explained(row.id)
  BY RunningRows DEF MonitoringInv
<1>3. \A row \in RowsOf(rows) : row.id \in M!IdsOf(rows)
  BY DEF RowsOf, M!IdsOf
<1>4. CASE M!StartRoute(r)
  <2>1. PICK id \in Ids \ M!IdsOf(rows), agent \in Agents :
          /\ rows' = M!Started(id, agent)
          /\ recording' = [recording EXCEPT ![r] = id]
          /\ abandoned' = abandoned \ {id} /\ opened' = opened \ {id}
    BY <1>4 DEF M!StartRoute
  <2>2. /\ rows' \in Seq(M!Row) /\ IdsDiffer(rows')
        /\ \A row \in RowsOf(rows') : row.id = id \/ (row \in RowsOf(rows) /\ row.id # id)
    BY <1>1, <2>1, StartedRow
  <2>3. /\ recording[r] = M!None /\ UNCHANGED <<online, shown>>
        /\ recording' \in [Requests -> Ids \cup {M!None}] /\ recording'[r] = id
        /\ \A q \in Requests \ {r} : recording'[q] = recording[q]
    BY <1>1, <1>4, <2>1 DEF M!StartRoute
  <2>4. M!TypeOK'
    BY <1>1, <2>1, <2>2, <2>3 DEF M!TypeOK, IdsDiffer
  <2>5. ASSUME NEW row \in RowsOf(rows'), row.running
        PROVE  Explained(row.id)'
    <3>1. CASE row.id = id
      BY <2>3, <3>1 DEF Explained
    <3>2. CASE row \in RowsOf(rows) /\ row.id # id
      <4>1. Explained(row.id) /\ row.id \in M!IdsOf(rows) /\ M!IdsOf(rows) \subseteq Ids
        BY <1>1, <1>2, <1>3, <2>5, <3>2, RowIds
      <4> QED
        BY <1>1, <2>1, <2>3, <3>2, <4>1 DEF Explained
    <3> QED
      BY <2>2, <3>1, <3>2
  <2> QED
    BY <2>4, <2>5, RunningRows DEF MonitoringInv
<1>5. CASE M!EndRoute(r)
  <2>1. /\ recording[r] \in Ids /\ UNCHANGED <<online, shown>>
        /\ recording' \in [Requests -> Ids \cup {M!None}]
        /\ \A q \in Requests \ {r} : recording'[q] = recording[q]
    BY <1>1, <1>5 DEF M!EndRoute
  <2>2. /\ rows' \in Seq(M!Row) /\ IdsDiffer(rows')
        /\ abandoned' \subseteq Ids /\ opened' \subseteq Ids
        /\ \A id \in opened \cup abandoned : id # recording[r] => id \in opened' \cup abandoned'
        /\ \A row \in RowsOf(rows') :
             \/ ~row.running
             \/ row \in RowsOf(rows) /\ row.id # recording[r]
             \/ row.id \in abandoned'
    <3>1. CASE recording[r] \in M!IdsOf(rows) /\ rows' = M!Ended(recording[r])
               /\ opened' = opened \ {recording[r]} /\ UNCHANGED abandoned
      BY <1>1, <3>1, EndedRow DEF M!TypeOK
    <3>2. CASE recording[r] \notin M!IdsOf(rows) /\ UNCHANGED rows
               /\ opened' = opened \ {recording[r]} /\ UNCHANGED abandoned
      BY <1>1, <1>3, <3>2 DEF M!TypeOK, IdsDiffer
    <3>3. CASE abandoned' = abandoned \cup {recording[r]} /\ UNCHANGED <<rows, opened>>
      BY <1>1, <2>1, <3>3 DEF M!TypeOK, IdsDiffer
    <3> QED
      BY <1>5, <3>1, <3>2, <3>3 DEF M!EndRoute
  <2>3. M!TypeOK'
    BY <1>1, <2>1, <2>2 DEF M!TypeOK, IdsDiffer
  <2>4. ASSUME NEW row \in RowsOf(rows'), row.running
        PROVE  Explained(row.id)'
    <3>1. CASE row \in RowsOf(rows) /\ row.id # recording[r]
      <4>1. Explained(row.id)
        BY <1>2, <2>4, <3>1
      <4> QED
        BY <2>1, <2>2, <3>1, <4>1 DEF Explained
    <3> QED
      BY <2>2, <2>4, <3>1 DEF Explained
  <2> QED
    BY <2>3, <2>4, RunningRows DEF MonitoringInv
<1> QED
  BY <1>4, <1>5

(* A write for others than the routing: rows that run stay, go, or are     *)
(* those of a client.                                                      *)
LEMMA OthersKeepMonitoringInv ==
  ASSUME MonitoringInv, rows' \in Seq(M!Row), IdsDiffer(rows'),
         UNCHANGED <<recording, online>>, opened' \subseteq Ids, abandoned' \subseteq Ids,
         \A row \in RowsOf(rows') : row.running =>
           \/ row.id \in opened'
           \/ /\ \E old \in RowsOf(rows) : old.id = row.id /\ old.running
              /\ row.id \in opened \cup abandoned => row.id \in opened' \cup abandoned'
  PROVE  MonitoringInv'
<1>1. \A row \in RowsOf(rows) : row.running => Explained(row.id)
  BY RunningRows DEF MonitoringInv
<1>2. \A row \in RowsOf(rows') : row.running => Explained(row.id)'
  BY <1>1 DEF Explained
<1>3. M!TypeOK'
  BY DEF MonitoringInv, M!TypeOK, IdsDiffer
<1> QED
  BY <1>2, <1>3, RunningRows DEF MonitoringInv

LEMMA MonitoringNext == MonitoringInv /\ [M!Next]_(M!vars) => MonitoringInv'
<1> SUFFICES ASSUME MonitoringInv, [M!Next]_(M!vars) PROVE MonitoringInv'
  OBVIOUS
<1>1. M!TypeOK /\ rows \in Seq(M!Row) /\ IdsDiffer(rows)
  BY DEF MonitoringInv, M!TypeOK, IdsDiffer
<1>2. ASSUME UNCHANGED <<rows, recording, abandoned, opened, online>>
      PROVE  MonitoringInv'
  BY <1>1, <1>2, OthersKeepMonitoringInv DEF M!TypeOK
<1>3. CASE UNCHANGED M!vars
  BY <1>2, <1>3 DEF M!vars
<1>4. ASSUME NEW id \in Ids, M!StartApi(id)
      PROVE  MonitoringInv'
  <2>1. PICK agent \in Agents : rows' = M!Started(id, agent)
    BY <1>4 DEF M!StartApi
  <2>2. /\ rows' \in Seq(M!Row) /\ IdsDiffer(rows')
        /\ \A row \in RowsOf(rows') : row.id = id \/ row \in RowsOf(rows)
    BY <1>1, <2>1, StartedRow
  <2> QED
    BY <1>1, <1>4, <2>2, OthersKeepMonitoringInv DEF M!StartApi, M!TypeOK
<1>5. ASSUME NEW id \in Ids, M!EndApi(id)
      PROVE  MonitoringInv'
  <2>1. /\ rows' \in Seq(M!Row) /\ IdsDiffer(rows')
        /\ \A row \in RowsOf(rows') : ~row.running \/ (row \in RowsOf(rows) /\ row.id # id)
    BY <1>1, <1>5, EndedRow DEF M!EndApi
  <2> QED
    BY <1>1, <1>5, <2>1, OthersKeepMonitoringInv DEF M!EndApi, M!TypeOK
<1>6. CASE M!RecordDecision
  BY <1>1, <1>6, CleaningUp, OthersKeepMonitoringInv DEF M!RecordDecision, M!TypeOK
<1>7. CASE M!Poll
  BY <1>2, <1>7 DEF M!Poll
<1>8. CASE M!Age
  <2>1. PICK i \in DOMAIN rows : rows' = [rows EXCEPT ![i].old = TRUE]
    BY <1>8 DEF M!Age
  <2>2. rows[i] \in M!Row
    BY <1>1
  <2> DEFINE row == [rows[i] EXCEPT !.old = TRUE]
  <2>3. row \in M!Row /\ row.id = rows[i].id /\ row.running = rows[i].running
    BY <2>2 DEF M!Row
  <2>4. rows' = [rows EXCEPT ![i] = row]
    BY <2>1
  <2> HIDE DEF row
  <2>5. /\ rows' \in Seq(M!Row) /\ DOMAIN rows' = DOMAIN rows
        /\ \A j \in DOMAIN rows : rows'[j].id = rows[j].id /\ rows'[j].running = rows[j].running
    BY <1>1, <2>3, <2>4
  <2>6. IdsDiffer(rows')
    BY <1>1, <2>5 DEF IdsDiffer
  <2>7. \A new \in RowsOf(rows') : new.running => \E old \in RowsOf(rows) : old.id = new.id /\ old.running
    BY <2>5 DEF RowsOf
  <2> QED
    BY <1>1, <1>8, <2>5, <2>6, <2>7, OthersKeepMonitoringInv DEF M!Age, M!TypeOK
<1>9. CASE M!Outage
  BY <1>9, RunningRows DEF MonitoringInv, M!TypeOK, M!Outage, Explained
<1> QED
  BY <1>3, <1>4, <1>5, <1>6, <1>7, <1>8, <1>9, RoutesKeepMonitoringInv DEF M!Next

-----------------------------------------------------------------------------
(* Executions: the candidates.                                             *)

Distinct(s) == \A i, j \in DOMAIN s : s[i] = s[j] => i = j

LEMMA LeastOf ==
  ASSUME NEW Q \in SUBSET Nat, IsFiniteSet(Q), Q # {}
  PROVE  \E p \in Q : \A q \in Q : p <= q
<1> DEFINE p == Place(Q, 1)
           Upto == {q \in Q : q <= p}
<1>1. Cardinality(Q) \in Nat /\ Cardinality(Q) # 0
  BY FS_CardinalityType, FS_EmptySet
<1>2. 1 \in 1 .. Cardinality(Q)
  BY <1>1
<1>3. p \in Q /\ Cardinality(Upto) = 1
  BY <1>2, PlacesAreThere
<1>4. ASSUME NEW q \in Q, q < p
      PROVE  FALSE
  <2>0. p \in Nat /\ q \in Nat
    BY <1>3
  <2>1. Upto \in SUBSET Q /\ p \in Upto /\ q \in Upto
    BY <1>3, <1>4, <2>0
  <2> HIDE DEF Upto
  <2>2. \E z : Upto = {z}
    BY <1>3, <2>1, FS_Subset, FS_Singleton
  <2> QED
    BY <1>4, <2>1, <2>2
<1>5. p \in Q /\ p \in Nat
  BY <1>3
<1> HIDE DEF p
<1>6. \A q \in Q : p <= q
  BY <1>4, <1>5
<1> QED
  BY <1>5, <1>6

(* The best of some models is one of them, and stays the best when others  *)
(* go.                                                                     *)
LEMMA BestIsFirst ==
  ASSUME NEW o, IsRanking(o), NEW S \in SUBSET Models, S # {}
  PROVE  \E i \in DOMAIN o : /\ X!Best(o, S) = o[i] /\ P!Best(o, S) = o[i] /\ o[i] \in S
                             /\ \A j \in DOMAIN o : o[j] \in S => i <= j
<1> DEFINE D == {i \in DOMAIN o : o[i] \in S}
<1>1. o \in Seq(Models) /\ Len(o) \in Nat /\ DOMAIN o = 1 .. Len(o)
  BY DEF IsRanking
<1>2. D \in SUBSET (1 .. Len(o)) /\ D \in SUBSET Nat
  BY <1>1
<1>3. D # {}
  BY DEF IsRanking
<1>4. \A i : i \in D <=> i \in DOMAIN o /\ o[i] \in S
  OBVIOUS
<1> HIDE DEF D
<1>5. IsFiniteSet(D)
  <2>1. IsFiniteSet(1 .. Len(o))
    BY <1>1, FS_Interval
  <2> QED
    BY <1>2, <2>1, FS_Subset
<1>6. \E i \in D : \A j \in D : i <= j
  BY <1>2, <1>3, <1>5, LeastOf
<1>7. \E i \in DOMAIN o : o[i] \in S /\ \A j \in DOMAIN o : o[j] \in S => i <= j
  BY <1>4, <1>6
<1> DEFINE first == CHOOSE i \in DOMAIN o : o[i] \in S /\ \A j \in DOMAIN o : o[j] \in S => i <= j
<1>8. /\ first \in DOMAIN o /\ o[first] \in S
      /\ \A j \in DOMAIN o : o[j] \in S => first <= j
  BY <1>7
<1>9. X!Best(o, S) = o[first] /\ P!Best(o, S) = o[first]
  BY DEF X!Best, P!Best
<1> HIDE DEF first
<1> QED
  BY <1>8, <1>9

LEMMA BestOfFewer ==
  ASSUME NEW o, IsRanking(o), NEW S \in SUBSET Models, NEW T \in SUBSET S,
         S # {}, X!Best(o, S) \in T
  PROVE  X!Best(o, T) = X!Best(o, S)
<1>1. PICK i \in DOMAIN o : /\ X!Best(o, S) = o[i] /\ o[i] \in S
                            /\ \A k \in DOMAIN o : o[k] \in S => i <= k
  BY BestIsFirst
<1>2. PICK j \in DOMAIN o : /\ X!Best(o, T) = o[j] /\ o[j] \in T
                            /\ \A k \in DOMAIN o : o[k] \in T => j <= k
  BY BestIsFirst
<1>3. i <= j /\ j <= i /\ i \in Nat /\ j \in Nat
  BY <1>1, <1>2 DEF IsRanking
<1> QED
  BY <1>1, <1>2, <1>3

LEMMA SomeCandidates ==
  ASSUME NEW s \in Seq(Models), Distinct(s), NEW Q \in SUBSET DOMAIN s
  PROVE  /\ X!Sublist(s, Q) \in Seq(Models) /\ Distinct(X!Sublist(s, Q))
         /\ X!Members(X!Sublist(s, Q)) = {s[p] : p \in Q}
<1> DEFINE t == Sublist(s, Q)
<1>1. X!Sublist(s, Q) = t
  BY SublistsAlike
<1>2. /\ t \in Seq(Models)
      /\ \A i \in DOMAIN t : \E p \in Q : t[i] = s[p]
      /\ \A p \in Q : \E i \in DOMAIN t : t[i] = s[p]
      /\ Distinct(t)
  BY SublistHas DEF Distinct
<1> HIDE DEF t
<1> QED
  BY <1>1, <1>2 DEF X!Members

LEMMA InAndOut ==
  ASSUME NEW s \in Seq(Models), Distinct(s), NEW ms
  PROVE  /\ X!In(s, ms) \in Seq(Models) /\ Distinct(X!In(s, ms))
         /\ X!Members(X!In(s, ms)) = X!Members(s) \cap ms
         /\ X!Out(s, ms) \in Seq(Models) /\ Distinct(X!Out(s, ms))
         /\ X!Members(X!Out(s, ms)) = X!Members(s) \ ms
<1> DEFINE I == {i \in DOMAIN s : s[i] \in ms}
           O == {i \in DOMAIN s : s[i] \notin ms}
<1>1. I \in SUBSET DOMAIN s /\ X!In(s, ms) = X!Sublist(s, I)
  BY DEF X!In
<1>2. O \in SUBSET DOMAIN s /\ X!Out(s, ms) = X!Sublist(s, O)
  BY DEF X!Out
<1>3. {s[p] : p \in I} = X!Members(s) \cap ms /\ {s[p] : p \in O} = X!Members(s) \ ms
  BY DEF X!Members
<1> HIDE DEF I, O
<1> QED
  BY <1>1, <1>2, <1>3, SomeCandidates

LEMMA CutKeepsSome ==
  ASSUME NEW s \in Seq(Models), Distinct(s), NEW n \in Nat
  PROVE  /\ X!Cut(s, n) \in Seq(Models) /\ Distinct(X!Cut(s, n))
         /\ X!Members(X!Cut(s, n)) \subseteq X!Members(s)
<1> DEFINE k == IF Len(s) < n THEN Len(s) ELSE n
           t == SubSeq(s, 1, k)
<1>1. k \in 0 .. Len(s) /\ k \in Nat /\ DOMAIN s = 1 .. Len(s)
  OBVIOUS
<1>2. X!Cut(s, n) = t
  BY DEF X!Cut
<1> HIDE DEF k
<1>3. /\ t \in Seq(Models) /\ DOMAIN t = 1 .. k
      /\ \A i \in DOMAIN t : i \in DOMAIN s /\ t[i] = s[i]
  BY <1>1
<1> HIDE DEF t
<1> QED
  BY <1>2, <1>3 DEF X!Members, Distinct

LEMMA Joined ==
  ASSUME NEW s \in Seq(Models), Distinct(s), NEW t \in Seq(Models), Distinct(t),
         X!Members(s) \cap X!Members(t) = {}
  PROVE  /\ s \o t \in Seq(Models) /\ Distinct(s \o t)
         /\ X!Members(s \o t) = X!Members(s) \cup X!Members(t)
<1> DEFINE u == s \o t
<1>1. /\ u \in Seq(Models) /\ DOMAIN u = 1 .. Len(s) + Len(t)
      /\ Len(s) \in Nat /\ Len(t) \in Nat
      /\ DOMAIN s = 1 .. Len(s) /\ DOMAIN t = 1 .. Len(t)
      /\ \A i \in DOMAIN s : i \in DOMAIN u /\ u[i] = s[i]
      /\ \A i \in DOMAIN t : i + Len(s) \in DOMAIN u /\ u[i + Len(s)] = t[i]
      /\ \A i \in DOMAIN u : i \in DOMAIN s \/ (i - Len(s) \in DOMAIN t /\ u[i] = t[i - Len(s)])
  OBVIOUS
<1> HIDE DEF u
<1>2. X!Members(u) = X!Members(s) \cup X!Members(t)
  BY <1>1 DEF X!Members
<1>3. \A i \in DOMAIN s, j \in DOMAIN t : s[i] # t[j]
  BY DEF X!Members
<1>4. ASSUME NEW i \in DOMAIN u, NEW j \in DOMAIN u, u[i] = u[j]
      PROVE  i = j
  <2>1. CASE i \in DOMAIN s /\ j \in DOMAIN s
    BY <1>1, <1>4, <2>1 DEF Distinct
  <2>2. CASE i \in DOMAIN s /\ j \notin DOMAIN s
    BY <1>1, <1>3, <1>4, <2>2
  <2>3. CASE i \notin DOMAIN s /\ j \in DOMAIN s
    BY <1>1, <1>3, <1>4, <2>3
  <2>4. CASE i \notin DOMAIN s /\ j \notin DOMAIN s
    <3>1. /\ i - Len(s) \in DOMAIN t /\ j - Len(s) \in DOMAIN t
          /\ t[i - Len(s)] = t[j - Len(s)]
      BY <1>1, <1>4, <2>4
    <3>2. i - Len(s) = j - Len(s) /\ i \in Nat /\ j \in Nat /\ Len(s) \in Nat
      BY <1>1, <3>1 DEF Distinct
    <3> QED
      BY <3>2
  <2> QED
    BY <2>1, <2>2, <2>3, <2>4
<1> QED
  BY <1>1, <1>2, <1>4 DEF Distinct, u

(* A list without repetitions has as many members as it is long.           *)
LEMMA DistinctMembers ==
  ASSUME NEW s \in Seq(Models)
  PROVE  Distinct(s) => Cardinality(X!Members(s)) = Len(s)
<1> SUFFICES ASSUME Distinct(s) PROVE Cardinality(X!Members(s)) = Len(s)
  OBVIOUS
<1>1. DOMAIN s = 1 .. Len(s) /\ Len(s) \in Nat
  OBVIOUS
<1>2. IsFiniteSet(DOMAIN s) /\ Cardinality(DOMAIN s) = Len(s)
  BY <1>1, FS_Interval
<1>3. s \in [DOMAIN s -> X!Members(s)]
  BY <1>1 DEF X!Members
<1>4. s \in Surjection(DOMAIN s, X!Members(s))
  BY <1>3 DEF X!Members, Surjection
<1>5. s \in Injection(DOMAIN s, X!Members(s))
  BY <1>3 DEF Distinct, Injection, IsInjective
<1> QED
  BY <1>2, <1>4, <1>5, FS_Surjection

LEMMA XCardinality == \A S : X!Cardinality(S) = Cardinality(S)
BY DEF X!Cardinality, Cardinality

LEMMA OneCandidate ==
  ASSUME NEW m \in Models
  PROVE  <<m>> \in Seq(Models) /\ Distinct(<<m>>) /\ X!Members(<<m>>) = {m}
BY DEF Distinct, X!Members

LEMMA NoCandidate == <<>> \in Seq(Models) /\ Distinct(<<>>) /\ X!Members(<<>>) = {}
BY DEF Distinct, X!Members

(* A thin pool's candidates.                                               *)
LEMMA ThinComposition ==
  ASSUME NEW ranked \in Seq(Models), Distinct(ranked), X!Members(ranked) # {},
         NEW entries, entries # {}, NEW slots \in Nat,
         Len(X!In(ranked, entries)) < Few
  PROVE  LET list == X!Compose(ranked, entries, slots) IN
         /\ list \in Seq(Models) /\ Distinct(list)
         /\ 1 \in DOMAIN list /\ list[1] = X!Best(Strength, X!Members(list))
<1> DEFINE all == X!Members(ranked)
           ceiling == X!Best(Strength, all)
           pooled == X!In(ranked, entries)
           explore == X!Cut(X!Out(ranked, entries), slots)
           joined == pooled \o explore
           rest == X!Out(joined, {ceiling})
           list == <<ceiling>> \o rest
<1>1. X!Compose(ranked, entries, slots) = list
  BY DEF X!Compose
<1>2. all \in SUBSET Models /\ IsRanking(Strength)
  BY ModelsAreRanked DEF X!Members
<1>3. ceiling \in all /\ ceiling \in Models
  BY <1>2, BestIsFirst
<1>4. pooled \in Seq(Models) /\ Distinct(pooled) /\ X!Members(pooled) = all \cap entries
  BY InAndOut
<1>5. /\ explore \in Seq(Models) /\ Distinct(explore) /\ X!Members(explore) \subseteq all \ entries
  BY InAndOut, CutKeepsSome
<1> HIDE DEF all, pooled, explore
<1>6. joined \in Seq(Models) /\ Distinct(joined) /\ X!Members(joined) \subseteq all
  BY <1>4, <1>5, Joined
<1> HIDE DEF joined, ceiling
<1>7. rest \in Seq(Models) /\ Distinct(rest) /\ X!Members(rest) \subseteq all \ {ceiling}
  <2>1. X!Members(rest) = X!Members(joined) \ {ceiling}
    BY <1>6, InAndOut
  <2>2. rest \in Seq(Models) /\ Distinct(rest)
    BY <1>6, InAndOut
  <2> QED
    BY <1>6, <2>1, <2>2
<1> HIDE DEF rest
<1>8. /\ list \in Seq(Models) /\ Distinct(list)
      /\ X!Members(list) \subseteq all /\ ceiling \in X!Members(list)
  <2>1. <<ceiling>> \in Seq(Models) /\ Distinct(<<ceiling>>) /\ X!Members(<<ceiling>>) = {ceiling}
    BY <1>3, OneCandidate
  <2>2. /\ list \in Seq(Models) /\ Distinct(list)
        /\ X!Members(list) = {ceiling} \cup X!Members(rest)
    BY <1>7, <2>1, Joined
  <2> QED
    BY <1>3, <1>7, <2>2
<1>9. 1 \in DOMAIN list /\ list[1] = ceiling
  BY <1>3, <1>7
<1> HIDE DEF list
<1>10. X!Best(Strength, X!Members(list)) = ceiling
  BY <1>2, <1>3, <1>8, BestOfFewer DEF ceiling
<1> QED
  BY <1>1, <1>8, <1>9, <1>10

(* The candidates of a larger pool.                                        *)
LEMMA WideComposition ==
  ASSUME NEW ranked \in Seq(Models), Distinct(ranked), X!Members(ranked) # {},
         NEW entries, NEW slots \in Nat,
         entries = {} \/ ~(Len(X!In(ranked, entries)) < Few)
  PROVE  LET list == X!Compose(ranked, entries, slots) IN
         list \in Seq(Models) /\ Distinct(list)
<1> DEFINE all == X!Members(ranked)
           ceiling == X!Best(Strength, all)
           pooled == X!In(ranked, entries)
           explore == X!Cut(X!Out(ranked, entries), slots)
           best == X!Cut(pooled, Few)
           strong == IF ceiling \in X!Members(best) THEN <<>> ELSE <<ceiling>>
           top == best \o strong
           rest == X!Out(explore, X!Members(top))
<1>0. CASE entries = {}
  BY <1>0 DEF X!Compose
<1>1. CASE entries # {}
  <2>1. X!Compose(ranked, entries, slots) = X!Cut(top \o rest, Width)
    BY <1>1 DEF X!Compose
  <2>2. Few \in Nat /\ Width \in Nat
    BY SelectionSizes
  <2>3. ceiling \in Models
    <3>1. all \in SUBSET Models /\ IsRanking(Strength)
      BY ModelsAreRanked DEF X!Members
    <3> QED
      BY <3>1, BestIsFirst
  <2>4. pooled \in Seq(Models) /\ Distinct(pooled)
    BY InAndOut
  <2>5. explore \in Seq(Models) /\ Distinct(explore)
    BY InAndOut, CutKeepsSome
  <2> HIDE DEF pooled, explore, ceiling
  <2>6. best \in Seq(Models) /\ Distinct(best)
    BY <2>2, <2>4, CutKeepsSome
  <2> HIDE DEF best
  <2>7. /\ strong \in Seq(Models) /\ Distinct(strong)
        /\ X!Members(best) \cap X!Members(strong) = {}
    BY <2>3, OneCandidate, NoCandidate
  <2> HIDE DEF strong
  <2>8. top \in Seq(Models) /\ Distinct(top)
    BY <2>6, <2>7, Joined
  <2> HIDE DEF top
  <2>9. /\ rest \in Seq(Models) /\ Distinct(rest)
        /\ X!Members(top) \cap X!Members(rest) = {}
    BY <2>5, InAndOut
  <2> HIDE DEF rest
  <2>10. top \o rest \in Seq(Models) /\ Distinct(top \o rest)
    BY <2>8, <2>9, Joined
  <2> QED
    BY <2>1, <2>2, <2>10, CutKeepsSome
<1> QED
  BY <1>0, <1>1

(* What is selected: of a thin pool the strongest candidate comes first.   *)
LEMMA SelectionsAreComposed ==
  ASSUME NEW chosen \in X!Selections
  PROVE  /\ chosen.list \in Seq(Models) /\ Distinct(chosen.list)
         /\ chosen.thin \in BOOLEAN
         /\ chosen.thin => chosen.list[1] = X!Best(Strength, X!Members(chosen.list))
<1>0. PICK reach \in (SUBSET Models) \ {{}}, entries \in SUBSET Models :
        \E o \in Rankings, slots \in X!Slots(reach, entries) :
          chosen = [reach |-> reach, thin |-> X!IsThin(reach, entries),
                    list |-> X!Compose(X!In(o, reach), entries, slots)]
  BY DEF X!Selections
<1>1. PICK o \in Rankings, slots \in X!Slots(reach, entries) :
        chosen = [reach |-> reach, thin |-> X!IsThin(reach, entries),
                  list |-> X!Compose(X!In(o, reach), entries, slots)]
  BY <1>0
<1> DEFINE ranked == X!In(o, reach)
<1>2. slots \in Nat
  BY SelectionSizes DEF X!Slots
<1>3. o \in Seq(Models) /\ Distinct(o) /\ X!Members(o) = Models
  BY ModelsAreRanked DEF IsRanking, Distinct, X!Members
<1>4. ranked \in Seq(Models) /\ Distinct(ranked) /\ X!Members(ranked) = reach
  <2>1. ranked \in Seq(Models) /\ Distinct(ranked) /\ X!Members(ranked) = X!Members(o) \cap reach
    BY <1>3, InAndOut
  <2> QED
    BY <1>3, <2>1
<1> HIDE DEF ranked
<1>5. Len(X!In(ranked, entries)) = Cardinality(reach \cap entries)
  <2>1. /\ X!In(ranked, entries) \in Seq(Models) /\ Distinct(X!In(ranked, entries))
        /\ X!Members(X!In(ranked, entries)) = reach \cap entries
    BY <1>4, InAndOut
  <2> QED
    BY <2>1, DistinctMembers
<1>6. X!IsThin(reach, entries) = (entries # {} /\ Len(X!In(ranked, entries)) < Few)
  BY <1>5, XCardinality DEF X!IsThin
<1>7. /\ chosen.list = X!Compose(ranked, entries, slots)
      /\ chosen.thin = X!IsThin(reach, entries)
  BY <1>1 DEF ranked
<1>8. CASE entries # {} /\ Len(X!In(ranked, entries)) < Few
  <2>1. /\ chosen.list \in Seq(Models) /\ Distinct(chosen.list)
        /\ chosen.list[1] = X!Best(Strength, X!Members(chosen.list))
    BY <1>2, <1>4, <1>7, <1>8, ThinComposition
  <2> QED
    BY <1>6, <1>7, <1>8, <2>1
<1>9. CASE ~(entries # {} /\ Len(X!In(ranked, entries)) < Few)
  <2>1. chosen.list \in Seq(Models) /\ Distinct(chosen.list)
    BY <1>2, <1>4, <1>7, <1>9, WideComposition
  <2>2. chosen.thin = FALSE
    BY <1>6, <1>7, <1>9
  <2> QED
    BY <2>1, <2>2
<1> QED
  BY <1>8, <1>9

-----------------------------------------------------------------------------
(* Executions: the counters and the chain.                                 *)

Execution ==
  [pc : {"start", "run", "climb", "top_failed"}, list : Seq(Models), at : Nat \ {0},
   kind : X!Kinds, retried : BOOLEAN, thin : BOOLEAN]

(* Candidates differ, those of a thin pool begin with the strongest, and   *)
(* who has nowhere to climb is at the first.                               *)
InChain(w) ==
  /\ Distinct(w.list) /\ w.at \in DOMAIN w.list
  /\ w.thin => w.list[1] = X!Best(Strength, X!Members(w.list))
  /\ w.pc = "top_failed" => w.at = 1

RunsOf(k, m) == Cardinality(X!Runs(k, m))
AllRequests == Cardinality(Requests)

ExecutionsTyped ==
  /\ redis \in BOOLEAN
  /\ conc \in [X!Kinds -> [Models -> Int]]
  /\ executing \in [Requests -> {X!Idle} \cup Execution]

(* A counter in memory is never negative; one in Redis is behind by what   *)
(* ran when its key expired.                                               *)
CountersFollowRuns ==
  \A k \in X!Kinds, m \in Models :
    conc[k][m] \in (IF redis THEN RunsOf(k, m) - AllRequests ELSE 0) .. RunsOf(k, m)

ExecutionsInv ==
  /\ ExecutionsTyped /\ CountersFollowRuns
  /\ \A r \in Requests : X!At(r, "idle") \/ InChain(executing[r])

LEMMA RunsAreFinite ==
  \A k, m : /\ IsFiniteSet(X!Runs(k, m)) /\ RunsOf(k, m) \in Nat
            /\ AllRequests \in Nat /\ RunsOf(k, m) <= AllRequests
<1>1. \A k, m : X!Runs(k, m) \in SUBSET Requests
  BY DEF X!Runs
<1> QED
  BY <1>1, RequestsAreFinite, FS_Subset, FS_CardinalityType DEF RunsOf, AllRequests

(* Who runs what after a step of one request.                              *)
LEMMA RunsAfter ==
  ASSUME ExecutionsTyped, NEW r \in Requests, NEW w \in {X!Idle} \cup Execution, X!Goto(r, w)
  PROVE  /\ executing' \in [Requests -> {X!Idle} \cup Execution] /\ executing'[r] = w
         /\ \A q \in Requests \ {r} : executing'[q] = executing[q]
         /\ \A k, m : X!Runs(k, m)' =
              IF w.pc = "run" /\ w.kind = k /\ w.list[w.at] = m
              THEN X!Runs(k, m) \cup {r} ELSE X!Runs(k, m) \ {r}
<1>1. /\ executing' \in [Requests -> {X!Idle} \cup Execution] /\ executing'[r] = w
      /\ \A q \in Requests \ {r} : executing'[q] = executing[q]
  BY DEF ExecutionsTyped, X!Goto
<1>2. ASSUME NEW k, NEW m
      PROVE  X!Runs(k, m)' = IF w.pc = "run" /\ w.kind = k /\ w.list[w.at] = m
                             THEN X!Runs(k, m) \cup {r} ELSE X!Runs(k, m) \ {r}
  <2>1. \A q \in Requests \ {r} : q \in X!Runs(k, m)' <=> q \in X!Runs(k, m)
    BY <1>1 DEF X!Runs, X!At, X!Current
  <2>2. r \in X!Runs(k, m)' <=> w.pc = "run" /\ w.kind = k /\ w.list[w.at] = m
    BY <1>1 DEF X!Runs, X!At, X!Current
  <2>3. X!Runs(k, m) \subseteq Requests /\ X!Runs(k, m)' \subseteq Requests
    BY DEF X!Runs
  <2> QED
    BY <2>1, <2>2, <2>3
<1> QED
  BY <1>1, <1>2

(* A step that neither starts nor ends an attempt.                         *)
LEMMA StayingKeepsExecutionsInv ==
  ASSUME ExecutionsInv, NEW r \in Requests, NEW w \in {X!Idle} \cup Execution,
         X!Goto(r, w), UNCHANGED <<redis, conc>>,
         ~X!At(r, "run"), w.pc # "run", w.pc = "idle" \/ InChain(w)
  PROVE  ExecutionsInv'
<1>1. /\ executing' \in [Requests -> {X!Idle} \cup Execution] /\ executing'[r] = w
      /\ \A q \in Requests \ {r} : executing'[q] = executing[q]
      /\ \A k, m : X!Runs(k, m)' = X!Runs(k, m) \ {r}
  BY RunsAfter DEF ExecutionsInv
<1>2. \A k, m : X!Runs(k, m)' = X!Runs(k, m)
  BY <1>1 DEF X!Runs
<1>3. CountersFollowRuns'
  BY <1>2 DEF ExecutionsInv, CountersFollowRuns, RunsOf, AllRequests
<1> QED
  BY <1>1, <1>3 DEF ExecutionsInv, ExecutionsTyped, X!At

LEMMA WorkInChain ==
  ASSUME ExecutionsInv, NEW r \in Requests, ~X!At(r, "idle")
  PROVE  executing[r] \in Execution /\ InChain(executing[r]) /\ X!Current(r) \in Models
<1>1. executing[r] \in {X!Idle} \cup Execution /\ InChain(executing[r])
  BY DEF ExecutionsInv, ExecutionsTyped
<1>2. executing[r] \in Execution
  BY <1>1 DEF X!At, X!Idle
<1>3. executing[r].list \in Seq(Models) /\ executing[r].at \in DOMAIN executing[r].list
  BY <1>1, <1>2 DEF Execution, InChain
<1> QED
  BY <1>1, <1>2, <1>3 DEF X!Current

LEMMA ExecutionsInit == X!Init => ExecutionsInv
<1> SUFFICES ASSUME X!Init PROVE ExecutionsInv
  OBVIOUS
<1>1. \A r \in Requests : executing[r] = X!Idle /\ X!At(r, "idle")
  BY DEF X!Init, X!Idle, X!At
<1>2. ExecutionsTyped
  BY DEF X!Init, X!Zero, ExecutionsTyped
<1>3. \A k \in X!Kinds, m \in Models : conc[k][m] = 0 /\ RunsOf(k, m) = 0
  <2>1. \A k, m : X!Runs(k, m) = {}
    BY <1>1 DEF X!Runs, X!At
  <2> QED
    BY <2>1, FS_EmptySet DEF X!Init, X!Zero, RunsOf
<1>4. CountersFollowRuns
  BY <1>3, RunsAreFinite DEF CountersFollowRuns
<1> QED
  BY <1>1, <1>2, <1>4 DEF ExecutionsInv

LEMMA SelectKeepsExecutionsInv ==
  ASSUME ExecutionsInv, NEW r \in Requests, X!Select(r)
  PROVE  ExecutionsInv'
<1>1. PICK chosen \in X!Selections, i \in 1 .. Cardinality(Models) :
        /\ i \in DOMAIN chosen.list
        /\ X!Goto(r, [pc |-> "start", list |-> chosen.list, at |-> i, kind |-> "normal",
                      retried |-> FALSE, thin |-> chosen.thin])
  BY XCardinality DEF X!Select
<1> DEFINE w == [pc |-> "start", list |-> chosen.list, at |-> i, kind |-> "normal",
                 retried |-> FALSE, thin |-> chosen.thin]
<1>2. /\ chosen.list \in Seq(Models) /\ Distinct(chosen.list) /\ chosen.thin \in BOOLEAN
      /\ chosen.thin => chosen.list[1] = X!Best(Strength, X!Members(chosen.list))
  BY SelectionsAreComposed
<1>3. i \in Nat \ {0} /\ "normal" \in X!Kinds
  BY <1>1, <1>2 DEF X!Kinds
<1>4. w \in Execution /\ w.pc = "start" /\ w.list = chosen.list /\ w.at = i /\ w.thin = chosen.thin
  BY <1>2, <1>3 DEF Execution
<1>5. X!Goto(r, w) /\ ~X!At(r, "run") /\ UNCHANGED <<redis, conc>>
  BY <1>1 DEF X!Select, X!At
<1> HIDE DEF w
<1>6. InChain(w)
  BY <1>1, <1>2, <1>4 DEF InChain
<1> QED
  BY <1>4, <1>5, <1>6, StayingKeepsExecutionsInv

LEMMA StartKeepsExecutionsInv ==
  ASSUME ExecutionsInv, NEW r \in Requests, X!Start(r)
  PROVE  ExecutionsInv'
<1> DEFINE w == [executing[r] EXCEPT !.pc = "run"]
<1>1. X!At(r, "start") /\ X!Goto(r, w) /\ UNCHANGED redis
  BY DEF X!Start
<1>2. executing[r] \in Execution /\ InChain(executing[r]) /\ X!Current(r) \in Models
  BY <1>1, WorkInChain DEF X!At
<1>0. PICK kind \in X!Kinds, model \in Models : kind = executing[r].kind /\ model = X!Current(r)
  BY <1>2 DEF Execution
<1>3. /\ w \in Execution /\ w.pc = "run" /\ w.kind = kind /\ w.list[w.at] = model
      /\ w.list = executing[r].list /\ w.at = executing[r].at /\ w.thin = executing[r].thin
  BY <1>0, <1>2 DEF Execution, X!Current
<1>5. /\ conc' = [conc EXCEPT ![kind][model] = @ + 1] /\ conc \in [X!Kinds -> [Models -> Int]]
  BY <1>0 DEF X!Start, ExecutionsInv, ExecutionsTyped
<1> HIDE DEF w
<1>6. /\ executing' \in [Requests -> {X!Idle} \cup Execution] /\ executing'[r] = w
      /\ \A q \in Requests \ {r} : executing'[q] = executing[q]
      /\ \A k, m : X!Runs(k, m)' = IF kind = k /\ model = m
                                   THEN X!Runs(k, m) \cup {r} ELSE X!Runs(k, m) \ {r}
  BY <1>1, <1>3, RunsAfter DEF ExecutionsInv
<1>7. \A k, m : r \notin X!Runs(k, m)
  BY <1>1 DEF X!Runs, X!At
<1>8. /\ RunsOf(kind, model)' = RunsOf(kind, model) + 1
      /\ \A k, m : k # kind \/ m # model => RunsOf(k, m)' = RunsOf(k, m)
  <2>1. /\ X!Runs(kind, model)' = X!Runs(kind, model) \cup {r}
        /\ \A k, m : k # kind \/ m # model => X!Runs(k, m)' = X!Runs(k, m)
    BY <1>6, <1>7
  <2>2. Cardinality(X!Runs(kind, model) \cup {r}) = Cardinality(X!Runs(kind, model)) + 1
    BY <1>7, RunsAreFinite, FS_AddElement
  <2> QED
    BY <2>1, <2>2 DEF RunsOf
<1>9. /\ conc' \in [X!Kinds -> [Models -> Int]] /\ conc'[kind][model] = conc[kind][model] + 1
      /\ \A k \in X!Kinds, m \in Models : k # kind \/ m # model => conc'[k][m] = conc[k][m]
  BY <1>5
<1>10. CountersFollowRuns'
  <2>1. ASSUME NEW k \in X!Kinds, NEW m \in Models
        PROVE  conc'[k][m] \in (IF redis THEN RunsOf(k, m)' - AllRequests ELSE 0) .. RunsOf(k, m)'
    <3>1. /\ conc[k][m] \in (IF redis THEN RunsOf(k, m) - AllRequests ELSE 0) .. RunsOf(k, m)
          /\ RunsOf(k, m) \in Nat /\ AllRequests \in Nat
      BY RunsAreFinite DEF ExecutionsInv, CountersFollowRuns
    <3>2. \/ RunsOf(k, m)' = RunsOf(k, m) + 1 /\ conc'[k][m] = conc[k][m] + 1
          \/ RunsOf(k, m)' = RunsOf(k, m) /\ conc'[k][m] = conc[k][m]
      BY <1>8, <1>9
    <3> QED
      BY <3>1, <3>2
  <2> QED
    BY <1>1, <2>1 DEF CountersFollowRuns, AllRequests
<1>11. InChain(w)
  BY <1>2, <1>3 DEF InChain
<1> QED
  BY <1>1, <1>6, <1>9, <1>10, <1>11 DEF ExecutionsInv, ExecutionsTyped, X!At

(* What follows an end takes no counter with it.                           *)
LEMMA EndingKeepsExecutionsInv ==
  ASSUME ExecutionsInv, NEW r \in Requests, X!At(r, "run"),
         NEW w \in {X!Idle} \cup Execution, X!Goto(r, w), UNCHANGED redis,
         conc' = X!Ended(executing[r].kind, X!Current(r)),
         w.pc # "run", w.pc = "idle" \/ InChain(w)
  PROVE  ExecutionsInv'
<1>1. executing[r] \in Execution /\ X!Current(r) \in Models
  BY WorkInChain DEF X!At
<1>2. PICK kind \in X!Kinds, model \in Models : kind = executing[r].kind /\ model = X!Current(r)
  BY <1>1 DEF Execution
<1>3. r \in X!Runs(kind, model) /\ \A k, m : k # kind \/ m # model => r \notin X!Runs(k, m)
  BY <1>2 DEF X!Runs
<1>4. /\ conc' = [conc EXCEPT ![kind][model] = IF redis \/ @ > 0 THEN @ - 1 ELSE 0]
      /\ conc \in [X!Kinds -> [Models -> Int]] /\ redis \in BOOLEAN
  BY <1>2 DEF X!Ended, ExecutionsInv, ExecutionsTyped
<1>5. /\ executing' \in [Requests -> {X!Idle} \cup Execution] /\ executing'[r] = w
      /\ \A q \in Requests \ {r} : executing'[q] = executing[q]
      /\ \A k, m : X!Runs(k, m)' = X!Runs(k, m) \ {r}
  BY RunsAfter DEF ExecutionsInv
<1>6. /\ RunsOf(kind, model)' = RunsOf(kind, model) - 1
      /\ \A k, m : k # kind \/ m # model => RunsOf(k, m)' = RunsOf(k, m)
  <2>1. \A k, m : k # kind \/ m # model => X!Runs(k, m)' = X!Runs(k, m)
    BY <1>3, <1>5
  <2>2. Cardinality(X!Runs(kind, model) \ {r}) = Cardinality(X!Runs(kind, model)) - 1
    BY <1>3, RunsAreFinite, FS_RemoveElement
  <2>3. X!Runs(kind, model)' = X!Runs(kind, model) \ {r}
    BY <1>5
  <2> QED
    BY <2>1, <2>2, <2>3 DEF RunsOf
<1>7. /\ conc' \in [X!Kinds -> [Models -> Int]]
      /\ conc'[kind][model] = IF redis \/ conc[kind][model] > 0 THEN conc[kind][model] - 1 ELSE 0
      /\ \A k \in X!Kinds, m \in Models : k # kind \/ m # model => conc'[k][m] = conc[k][m]
  BY <1>4
<1>8. CountersFollowRuns'
  <2>1. ASSUME NEW k \in X!Kinds, NEW m \in Models
        PROVE  conc'[k][m] \in (IF redis THEN RunsOf(k, m)' - AllRequests ELSE 0) .. RunsOf(k, m)'
    <3>1. /\ conc[k][m] \in (IF redis THEN RunsOf(k, m) - AllRequests ELSE 0) .. RunsOf(k, m)
          /\ RunsOf(k, m) \in Nat /\ RunsOf(k, m)' \in Nat /\ AllRequests \in Nat
      <4>1. RunsOf(k, m)' \in Nat
        BY <1>5, RunsAreFinite, FS_RemoveElement, FS_CardinalityType DEF RunsOf
      <4> QED
        BY <4>1, RunsAreFinite DEF ExecutionsInv, CountersFollowRuns
    <3>2. CASE k = kind /\ m = model
      BY <1>4, <1>6, <1>7, <3>1, <3>2
    <3>3. CASE k # kind \/ m # model
      BY <1>6, <1>7, <3>1, <3>3
    <3> QED
      BY <3>2, <3>3
  <2> QED
    BY <2>1 DEF CountersFollowRuns, AllRequests
<1> QED
  BY <1>5, <1>7, <1>8 DEF ExecutionsInv, ExecutionsTyped, X!At

LEMMA EndKeepsExecutionsInv ==
  ASSUME ExecutionsInv, NEW r \in Requests, X!End(r)
  PROVE  ExecutionsInv'
<1>1. /\ X!At(r, "run") /\ UNCHANGED redis
      /\ conc' = X!Ended(executing[r].kind, X!Current(r))
  BY DEF X!End
<1>2. executing[r] \in Execution /\ InChain(executing[r]) /\ "escalation" \in X!Kinds
  BY <1>1, WorkInChain DEF X!At, X!Kinds
<1>3. CASE X!Goto(r, X!Idle)
  <2>1. X!Idle \in {X!Idle} \cup Execution /\ X!Idle.pc = "idle"
    BY DEF X!Idle
  <2> QED
    BY <1>1, <1>3, <2>1, EndingKeepsExecutionsInv
<1>4. CASE X!Goto(r, [executing[r] EXCEPT !.pc = "start", !.retried = TRUE])
  <2> DEFINE w == [executing[r] EXCEPT !.pc = "start", !.retried = TRUE]
  <2>1. w \in Execution
    BY <1>2, Zenon DEF Execution
  <2>2. /\ w.pc = "start" /\ w.list = executing[r].list /\ w.at = executing[r].at
        /\ w.thin = executing[r].thin
    BY <1>2 DEF Execution
  <2> HIDE DEF w
  <2>3. InChain(w)
    BY <1>2, <2>2 DEF InChain
  <2> QED
    BY <1>1, <1>4, <2>1, <2>2, <2>3, EndingKeepsExecutionsInv DEF w
<1>5. CASE X!Goto(r, [executing[r] EXCEPT !.pc = "climb", !.kind = "escalation", !.retried = FALSE])
  <2> DEFINE w == [executing[r] EXCEPT !.pc = "climb", !.kind = "escalation", !.retried = FALSE]
  <2>1. w \in Execution
    BY <1>2, Zenon DEF Execution
  <2>2. /\ w.pc = "climb" /\ w.list = executing[r].list /\ w.at = executing[r].at
        /\ w.thin = executing[r].thin
    BY <1>2 DEF Execution
  <2> HIDE DEF w
  <2>3. InChain(w)
    BY <1>2, <2>2 DEF InChain
  <2> QED
    BY <1>1, <1>5, <2>1, <2>2, <2>3, EndingKeepsExecutionsInv DEF w
<1> QED
  BY <1>3, <1>4, <1>5 DEF X!End

LEMMA ClimbingKeepsExecutionsInv ==
  ASSUME ExecutionsInv, NEW r \in Requests, X!Escalate(r) \/ X!Alert(r)
  PROVE  ExecutionsInv'
<1>1. /\ ~X!At(r, "run") /\ ~X!At(r, "idle") /\ UNCHANGED <<redis, conc>>
  BY DEF X!Escalate, X!Alert, X!At
<1>2. executing[r] \in Execution /\ InChain(executing[r])
  BY <1>1, WorkInChain
<1>3. CASE X!Goto(r, X!Idle)
  <2>1. X!Idle \in {X!Idle} \cup Execution /\ X!Idle.pc = "idle"
    BY DEF X!Idle
  <2> QED
    BY <1>1, <1>3, <2>1, StayingKeepsExecutionsInv
<1>4. CASE executing[r].at = 1 /\ X!Goto(r, [executing[r] EXCEPT !.pc = "top_failed"])
  <2> DEFINE w == [executing[r] EXCEPT !.pc = "top_failed"]
  <2>1. /\ w \in Execution /\ w.pc = "top_failed" /\ w.list = executing[r].list
        /\ w.at = executing[r].at /\ w.thin = executing[r].thin
    BY <1>2 DEF Execution
  <2> HIDE DEF w
  <2>2. InChain(w)
    BY <1>2, <1>4, <2>1 DEF InChain
  <2> QED
    BY <1>1, <1>4, <2>1, <2>2, StayingKeepsExecutionsInv DEF w
<1>5. ASSUME NEW i \in 1 .. executing[r].at - 1,
             X!Goto(r, [executing[r] EXCEPT !.pc = "start", !.at = i])
      PROVE  ExecutionsInv'
  <2> DEFINE w == [executing[r] EXCEPT !.pc = "start", !.at = i]
  <2>1. /\ executing[r].list \in Seq(Models) /\ executing[r].at \in DOMAIN executing[r].list
        /\ executing[r].at \in Nat
    BY <1>2 DEF Execution, InChain
  <2>2. i \in Nat \ {0} /\ i \in DOMAIN executing[r].list
    BY <2>1
  <2>3. w \in Execution
    BY <1>2, <2>2, Zenon DEF Execution
  <2>4. /\ w.pc = "start" /\ w.list = executing[r].list /\ w.at = i
        /\ w.thin = executing[r].thin
    BY <1>2 DEF Execution
  <2> HIDE DEF w
  <2>5. InChain(w)
    BY <1>2, <2>2, <2>4 DEF InChain
  <2> QED
    BY <1>1, <1>5, <2>3, <2>4, <2>5, StayingKeepsExecutionsInv DEF w
<1> QED
  BY <1>3, <1>4, <1>5 DEF X!Escalate, X!Alert

LEMMA ExpiryKeepsExecutionsInv ==
  ASSUME ExecutionsInv, X!KeyExpires
  PROVE  ExecutionsInv'
<1>1. redis /\ UNCHANGED <<redis, executing>>
  BY DEF X!KeyExpires
<1>2. PICK key \in Slow : conc' = [conc EXCEPT ![key[1]][key[2]] = 0]
  BY DEF X!KeyExpires
<1>3. PICK kind \in X!Kinds, model \in Models : kind = key[1] /\ model = key[2]
  BY SelectionSizes DEF X!Kinds
<1>4. conc \in [X!Kinds -> [Models -> Int]]
  BY DEF ExecutionsInv, ExecutionsTyped
<1>5. /\ conc' \in [X!Kinds -> [Models -> Int]] /\ conc'[kind][model] = 0
      /\ \A k \in X!Kinds, m \in Models : k # kind \/ m # model => conc'[k][m] = conc[k][m]
  BY <1>2, <1>3, <1>4
<1>6. \A k, m : RunsOf(k, m)' = RunsOf(k, m)
  BY <1>1 DEF RunsOf, X!Runs, X!At, X!Current
<1>7. CountersFollowRuns'
  <2>1. ASSUME NEW k \in X!Kinds, NEW m \in Models
        PROVE  conc'[k][m] \in (RunsOf(k, m) - AllRequests) .. RunsOf(k, m)
    <3>1. /\ conc[k][m] \in (RunsOf(k, m) - AllRequests) .. RunsOf(k, m)
          /\ RunsOf(k, m) \in Nat /\ AllRequests \in Nat /\ RunsOf(k, m) <= AllRequests
      BY <1>1, RunsAreFinite DEF ExecutionsInv, CountersFollowRuns
    <3>2. conc'[k][m] = conc[k][m] \/ conc'[k][m] = 0
      BY <1>5
    <3> QED
      BY <3>1, <3>2
  <2> QED
    BY <1>1, <1>6, <2>1 DEF CountersFollowRuns, AllRequests
<1> QED
  BY <1>1, <1>5, <1>7 DEF ExecutionsInv, ExecutionsTyped, X!At

LEMMA ExecutionsNext == ExecutionsInv /\ [X!Next]_(X!vars) => ExecutionsInv'
<1> SUFFICES ASSUME ExecutionsInv, [X!Next]_(X!vars) PROVE ExecutionsInv'
  OBVIOUS
<1>1. CASE UNCHANGED X!vars
  <2>1. UNCHANGED <<redis, conc, executing>>
    BY <1>1 DEF X!vars
  <2>2. \A k, m : RunsOf(k, m)' = RunsOf(k, m)
    BY <2>1 DEF RunsOf, X!Runs, X!At, X!Current
  <2> QED
    BY <2>1, <2>2 DEF ExecutionsInv, ExecutionsTyped, CountersFollowRuns, AllRequests, X!At
<1>2. CASE X!Next
  BY <1>2, SelectKeepsExecutionsInv, StartKeepsExecutionsInv, EndKeepsExecutionsInv,
     ClimbingKeepsExecutionsInv, ExpiryKeepsExecutionsInv DEF X!Next, X!Step
<1> QED
  BY <1>1, <1>2

LEMMA InvTellsCounters == ExecutionsInv => X!TypeOK /\ NeverOvercounts /\ ThinChainEndsAtCeiling
<1> SUFFICES ASSUME ExecutionsInv PROVE X!TypeOK /\ NeverOvercounts /\ ThinChainEndsAtCeiling
  OBVIOUS
<1>1. \A k \in X!Kinds, m \in Models :
        /\ conc[k][m] \in (IF redis THEN -AllRequests ELSE 0) .. AllRequests
        /\ conc[k][m] <= RunsOf(k, m)
  <2>1. ASSUME NEW k \in X!Kinds, NEW m \in Models
        PROVE  /\ conc[k][m] \in (IF redis THEN -AllRequests ELSE 0) .. AllRequests
               /\ conc[k][m] <= RunsOf(k, m)
    <3>1. /\ conc[k][m] \in (IF redis THEN RunsOf(k, m) - AllRequests ELSE 0) .. RunsOf(k, m)
          /\ RunsOf(k, m) \in Nat /\ AllRequests \in Nat /\ RunsOf(k, m) <= AllRequests
      BY RunsAreFinite DEF ExecutionsInv, CountersFollowRuns
    <3> QED
      BY <3>1
  <2> QED
    BY <2>1
<1>2. redis \in BOOLEAN /\ conc \in [X!Kinds -> [Models -> Int]]
  BY DEF ExecutionsInv, ExecutionsTyped
<1>3. conc \in [X!Kinds -> [Models -> (IF redis THEN -X!Cardinality(Requests) ELSE 0) .. X!Cardinality(Requests)]]
  <2>1. \A k \in X!Kinds : conc[k] \in [Models -> (IF redis THEN -AllRequests ELSE 0) .. AllRequests]
    BY <1>1, <1>2
  <2> QED
    BY <1>2, <2>1, XCardinality DEF AllRequests
<1>4. ASSUME NEW r \in Requests, executing[r] # X!Idle
      PROVE  X!Executing(executing[r])
  <2>1. executing[r] \in Execution
    BY <1>4 DEF ExecutionsInv, ExecutionsTyped
  <2>2. ~X!At(r, "idle")
    BY <2>1 DEF Execution, X!At
  <2>3. InChain(executing[r])
    BY <2>2 DEF ExecutionsInv
  <2>4. X!Cardinality(X!Members(executing[r].list)) = Len(executing[r].list)
    BY <2>1, <2>3, XCardinality, DistinctMembers DEF Execution, InChain
  <2> QED
    BY <2>1, <2>3, <2>4 DEF Execution, InChain, X!Executing
<1>5. NeverOvercounts
  BY <1>1, XCardinality DEF NeverOvercounts, X!NeverOvercounts, RunsOf
<1>6. ThinChainEndsAtCeiling
  BY DEF ThinChainEndsAtCeiling, X!ThinChainEndsAtCeiling, ExecutionsInv, X!At, InChain, X!Current
<1> QED
  BY <1>2, <1>3, <1>4, <1>5, <1>6 DEF X!TypeOK

-----------------------------------------------------------------------------
(* SeededPools: a short pool is being refilled.                            *)

Full(S) == Cardinality(S) >= SeedSize \/ S = Models

(* Whoever adds has passed over nothing that is not in S, and has slots for *)
(* what S lacks.                                                            *)
Refills(S, w) ==
  /\ w.pc = "add" /\ Models \ w.plan \subseteq S
  /\ Cardinality(S \ w.plan) + w.slots >= SeedSize

(* A request that will count, or leave a full pool behind, if S is the pool. *)
Covers(S, w) ==
  \/ w.pc \in {"check", "remove", "count", "seed"}
  \/ Refills(S, w)
  \/ w.pc = "write" /\ (Full(S \cup {w.model}) \/ Refills(S \cup {w.model}, w.then))

(* Requests seed for themselves only after a disturbance.                  *)
Eager(w) ==
  /\ w.pc # "reread"
  /\ w.pc \in {"verify", "count", "seed", "verified", "read", "add"} => ~w.lazy
  /\ w.pc = "write" => ~w.then.lazy /\ w.then.pc \in {"add", "verified"}

Untouched == pool = {} /\ \A r \in Requests : ~P!At(r, "add") /\ ~P!At(r, "write")

(* A verification is behind the engine, or under way: then the pool is full, *)
(* or will be.                                                             *)
Due == verified \/ \E r \in Requests : seeding[r].pc \notin {"idle", "verify"}
Kept == Full(pool) \/ (\E r \in Requests : Covers(pool, seeding[r])) \/ Untouched

PoolsInv ==
  /\ P!TypeOK
  /\ ~disturbed => (\A r \in Requests : Eager(seeding[r])) /\ (Due => Kept)

PoolWork == {P!Idle} \cup P!Staged \cup P!Checking \cup P!Removing \cup P!Adding \cup P!Writing

LEMMA SubpoolsAreFinite ==
  ASSUME NEW S \in SUBSET Models
  PROVE  /\ IsFiniteSet(S) /\ Cardinality(S) \in Nat
         /\ P!Cardinality(S) = Cardinality(S)
<1>1. IsFiniteSet(S)
  BY ModelsAreRanked, FS_Subset
<1> QED
  BY <1>1, FS_CardinalityType DEF P!Cardinality, Cardinality

LEMMA LargerIsFuller ==
  ASSUME NEW S \in SUBSET Models, NEW T \in SUBSET Models, S \subseteq T
  PROVE  /\ Full(S) => Full(T)
         /\ \A w : Refills(S, w) /\ w.slots \in Nat => Refills(T, w)
<1>1. \A U, V : U \subseteq V /\ V \subseteq Models =>
        Cardinality(U) <= Cardinality(V) /\ Cardinality(U) \in Nat /\ Cardinality(V) \in Nat
  <2>1. ASSUME NEW V \in SUBSET Models, NEW U \in SUBSET V
        PROVE  Cardinality(U) <= Cardinality(V) /\ Cardinality(U) \in Nat /\ Cardinality(V) \in Nat
    BY SubpoolsAreFinite, FS_Subset
  <2> QED
    BY <2>1
<1>2. Full(S) => Full(T)
  <2>1. S = Models => T = Models
    OBVIOUS
  <2> QED
    BY <1>1, <2>1, PoolsHaveRoomForSeeds DEF Full
<1>3. ASSUME NEW w, Refills(S, w), w.slots \in Nat
      PROVE  Refills(T, w)
  <2>1. S \ w.plan \subseteq T \ w.plan /\ T \ w.plan \subseteq Models
    OBVIOUS
  <2>2. /\ Cardinality(S \ w.plan) <= Cardinality(T \ w.plan)
        /\ Cardinality(S \ w.plan) \in Nat /\ Cardinality(T \ w.plan) \in Nat
    BY <1>1, <2>1
  <2> QED
    BY <1>3, <2>2, PoolsHaveRoomForSeeds DEF Refills
<1> QED
  BY <1>2, <1>3

LEMMA PoolWorkAt ==
  ASSUME NEW w \in PoolWork
  PROVE  /\ w.pc = "idle" <=> w = P!Idle
         /\ w.pc \in {"verify", "count", "seed", "verified", "read", "reread"} => w \in P!Staged
         /\ w.pc = "check" => w \in P!Checking
         /\ w.pc = "remove" => w \in P!Removing
         /\ w.pc = "add" => w \in P!Adding
         /\ w.pc = "write" => w \in P!Writing
BY DEF PoolWork, P!Idle, P!Staged, P!Checking, P!Removing, P!Adding, P!Writing

(* What is covered stays covered when the pool grows.                      *)
LEMMA CoverStays ==
  ASSUME NEW S \in SUBSET Models, NEW T \in SUBSET Models, S \subseteq T,
         NEW w \in PoolWork, Covers(S, w)
  PROVE  Covers(T, w)
<1>1. CASE w.pc \in {"check", "remove", "count", "seed"}
  BY <1>1 DEF Covers
<1>2. CASE Refills(S, w)
  <2>1. w \in P!Adding
    BY <1>2, PoolWorkAt DEF Refills
  <2>2. w.slots \in Nat
    BY <2>1, PoolsHaveRoomForSeeds DEF P!Adding
  <2> QED
    BY <1>2, <2>2, LargerIsFuller DEF Covers
<1>3. CASE w.pc = "write" /\ (Full(S \cup {w.model}) \/ Refills(S \cup {w.model}, w.then))
  <2>1. w \in P!Writing
    BY <1>3, PoolWorkAt
  <2>2. /\ S \cup {w.model} \in SUBSET Models /\ T \cup {w.model} \in SUBSET Models
        /\ S \cup {w.model} \subseteq T \cup {w.model}
    BY <2>1 DEF P!Writing
  <2>3. CASE Full(S \cup {w.model})
    BY <1>3, <2>2, <2>3, LargerIsFuller DEF Covers
  <2>4. CASE Refills(S \cup {w.model}, w.then)
    <3>1. w.then \in P!Adding
      BY <2>1, <2>4 DEF P!Writing, P!Staged, Refills
    <3>2. w.then.slots \in Nat
      BY <3>1, PoolsHaveRoomForSeeds DEF P!Adding
    <3> QED
      BY <1>3, <2>2, <2>4, <3>2, LargerIsFuller DEF Covers
  <2> QED
    BY <1>3, <2>3, <2>4
<1> QED
  BY <1>1, <1>2, <1>3 DEF Covers

LEMMA PoolGoto ==
  ASSUME P!TypeOK, NEW r \in Requests, NEW w \in PoolWork, P!Goto(r, w)
  PROVE  /\ seeding' \in [Requests -> PoolWork] /\ seeding'[r] = w
         /\ \A q \in Requests \ {r} : seeding'[q] = seeding[q]
BY DEF P!TypeOK, P!Goto, PoolWork

LEMMA GotoKeepsPoolsInv ==
  ASSUME PoolsInv, NEW r \in Requests, NEW w \in PoolWork, P!Goto(r, w),
         pool' \in SUBSET Models, verified' \in BOOLEAN, disturbed' \in BOOLEAN,
         ~disturbed' => ~disturbed /\ Eager(w) /\ (Due' => Kept')
  PROVE  PoolsInv'
<1>1. /\ seeding' \in [Requests -> PoolWork] /\ seeding'[r] = w
      /\ \A q \in Requests \ {r} : seeding'[q] = seeding[q]
  BY PoolGoto DEF PoolsInv
<1>2. P!TypeOK'
  BY <1>1 DEF P!TypeOK, PoolWork
<1>3. ASSUME ~disturbed', NEW q \in Requests
      PROVE  Eager(seeding'[q])
  BY <1>1, <1>3 DEF PoolsInv
<1> QED
  BY <1>2, <1>3 DEF PoolsInv

LEMMA KeptStays ==
  ASSUME P!TypeOK, NEW r \in Requests, NEW w \in PoolWork, P!Goto(r, w),
         pool' \in SUBSET Models, pool \subseteq pool', Kept,
         Covers(pool, seeding[r]) => Covers(pool', w) \/ Full(pool'),
         Untouched => pool' = pool /\ w.pc # "add" /\ w.pc # "write"
  PROVE  Kept'
<1>1. /\ seeding' \in [Requests -> PoolWork] /\ seeding'[r] = w
      /\ \A q \in Requests \ {r} : seeding'[q] = seeding[q]
  BY PoolGoto
<1>2. pool \in SUBSET Models /\ \A q \in Requests : seeding[q] \in PoolWork
  BY DEF P!TypeOK, PoolWork
<1>3. CASE Full(pool)
  BY <1>2, <1>3, LargerIsFuller DEF Kept
<1>4. ASSUME NEW q \in Requests, Covers(pool, seeding[q])
      PROVE  Kept'
  <2>1. CASE q = r
    BY <1>1, <1>4, <2>1 DEF Kept
  <2>2. CASE q # r
    <3>1. Covers(pool', seeding[q]) /\ seeding'[q] = seeding[q]
      BY <1>1, <1>2, <1>4, <2>2, CoverStays
    <3> QED
      BY <3>1 DEF Kept
  <2> QED
    BY <2>1, <2>2
<1>5. CASE Untouched
  BY <1>1, <1>5 DEF Kept, Untouched, P!At
<1> QED
  BY <1>3, <1>4, <1>5 DEF Kept

LEMMA PoolsTyped ==
  ASSUME P!TypeOK, NEW r \in Requests
  PROVE  /\ pool \in SUBSET Models /\ verified \in BOOLEAN /\ disturbed \in BOOLEAN
         /\ seeding[r] \in PoolWork
         /\ IsFiniteSet(pool) /\ Cardinality(pool) \in Nat
         /\ P!Short <=> Cardinality(pool) < SeedSize
         /\ ~P!Short => Full(pool)
<1>1. /\ pool \in SUBSET Models /\ verified \in BOOLEAN /\ disturbed \in BOOLEAN
      /\ seeding[r] \in PoolWork
  BY DEF P!TypeOK, PoolWork
<1>2. /\ IsFiniteSet(pool) /\ Cardinality(pool) \in Nat
      /\ P!Short <=> Cardinality(pool) < SeedSize
  BY <1>1, SubpoolsAreFinite DEF P!Short
<1>3. ~P!Short => Full(pool)
  BY <1>2, PoolsHaveRoomForSeeds DEF Full
<1> QED
  BY <1>1, <1>2, <1>3

LEMMA StageIsStaged ==
  ASSUME NEW r \in Requests, seeding[r] \in P!Staged \cup P!Adding,
         NEW pc \in {"verify", "count", "seed", "verified", "read", "reread"}
  PROVE  /\ P!Stage(r, pc) \in P!Staged /\ P!Stage(r, pc) \in PoolWork
         /\ P!Stage(r, pc).pc = pc /\ P!Stage(r, pc).lazy = seeding[r].lazy
BY DEF P!Stage, P!Staged, P!Adding, PoolWork

LEMMA SeededIsStaged ==
  ASSUME NEW r \in Requests, seeding[r] \in P!Staged \cup P!Adding
  PROVE  /\ P!Seeded(r) \in P!Staged /\ P!Seeded(r) \in PoolWork
         /\ P!Seeded(r).pc \in {"reread", "verified"} /\ P!Seeded(r).lazy = seeding[r].lazy
         /\ ~seeding[r].lazy => P!Seeded(r).pc = "verified"
BY StageIsStaged DEF P!Seeded

(* A step within the verification, or past it.                             *)
LEMMA SteppingKeepsPoolsInv ==
  ASSUME PoolsInv, NEW r \in Requests, NEW w \in PoolWork, P!Goto(r, w),
         UNCHANGED <<pool, verified, disturbed>>,
         ~disturbed => /\ Eager(w)
                       /\ \/ Covers(pool, w)
                          \/ Full(pool)
                          \/ /\ w.pc # "add" /\ w.pc # "write"
                             /\ ~Covers(pool, seeding[r])
                             /\ seeding[r].pc \notin {"idle", "verify"} \/ verified \/ w.pc = "verify"
  PROVE  PoolsInv'
<1>1. P!TypeOK /\ pool \in SUBSET Models /\ verified \in BOOLEAN /\ disturbed \in BOOLEAN
  BY PoolsTyped DEF PoolsInv
<1>2. /\ seeding' \in [Requests -> PoolWork] /\ seeding'[r] = w
      /\ \A q \in Requests \ {r} : seeding'[q] = seeding[q]
  BY <1>1, PoolGoto
<1>3. ASSUME ~disturbed, Due'
      PROVE  Kept'
  <2>1. CASE Covers(pool, w) \/ Full(pool)
    BY <1>2, <2>1 DEF Kept
  <2>2. CASE /\ w.pc # "add" /\ w.pc # "write"
             /\ ~Covers(pool, seeding[r])
             /\ seeding[r].pc \notin {"idle", "verify"} \/ verified \/ w.pc = "verify"
    <3>1. Due
      BY <1>2, <1>3, <2>2 DEF Due
    <3>2. Kept
      BY <1>3, <3>1 DEF PoolsInv
    <3> QED
      BY <1>1, <2>2, <3>2, KeptStays
  <2> QED
    BY <1>3, <2>1, <2>2
<1> QED
  BY <1>1, <1>3, GotoKeepsPoolsInv

LEMMA VerifyingKeepsPoolsInv ==
  ASSUME PoolsInv, NEW r \in Requests, P!Route(r) \/ P!Verify(r) \/ P!Check(r) \/ P!Count(r)
  PROVE  PoolsInv'
<1>1. P!TypeOK /\ UNCHANGED <<pool, verified, disturbed>> /\ seeding[r] \in PoolWork
  BY PoolsTyped DEF PoolsInv, P!Route, P!Verify, P!Check, P!Count
<1>2. ~disturbed => Eager(seeding[r])
  BY DEF PoolsInv
<1>3. pool \in SUBSET Models
  BY <1>1, PoolsTyped
<1>4. CASE P!Route(r)
  <2>1. PICK offer \in P!Offers :
          P!Goto(r, [pc |-> IF verified THEN "read" ELSE "verify", offer |-> offer, lazy |-> FALSE])
    BY <1>4 DEF P!Route
  <2> DEFINE w == [pc |-> IF verified THEN "read" ELSE "verify", offer |-> offer, lazy |-> FALSE]
  <2>2. /\ w \in P!Staged /\ ~w.lazy
        /\ \/ w.pc = "read" /\ verified
           \/ w.pc = "verify"
    BY <2>1 DEF P!Staged
  <2> HIDE DEF w
  <2>3. w \in PoolWork /\ Eager(w) /\ w.pc # "add" /\ w.pc # "write"
    BY <2>2 DEF PoolWork, Eager
  <2>4. ~Covers(pool, seeding[r])
    BY <1>4 DEF P!Route, P!At, Covers, Refills
  <2> QED
    BY <1>1, <2>1, <2>2, <2>3, <2>4, SteppingKeepsPoolsInv DEF w
<1>5. CASE P!Verify(r)
  <2>1. seeding[r].pc = "verify" /\ seeding[r] \in P!Staged
    BY <1>1, <1>5, PoolWorkAt DEF P!Verify, P!At
  <2>2. CASE pool = {}
    <3> DEFINE w == P!Stage(r, "verified")
    <3>1. w \in PoolWork /\ w.pc = "verified" /\ w.lazy = seeding[r].lazy /\ P!Goto(r, w)
      BY <1>5, <2>1, <2>2, StageIsStaged DEF P!Verify
    <3> HIDE DEF w
    <3>2. ~disturbed => Eager(w)
      BY <1>2, <2>1, <3>1 DEF Eager
    <3>3. ~Covers(pool, seeding[r])
      BY <2>1 DEF Covers, Refills
    <3>4. CASE Due
      <4>1. ASSUME ~disturbed
            PROVE  Kept'
        BY <1>1, <1>3, <3>1, <3>3, <4>1, <3>4, KeptStays DEF PoolsInv
      <4> QED
        BY <1>1, <1>3, <3>1, <3>2, <4>1, PoolsTyped, GotoKeepsPoolsInv
    <3>5. CASE ~Due
      <4>1. Untouched'
        <5>1. /\ seeding'[r] = w /\ \A q \in Requests \ {r} : seeding'[q] = seeding[q]
          BY <1>1, <3>1, PoolGoto
        <5>2. \A q \in Requests : seeding[q].pc \in {"idle", "verify"}
          BY <3>5 DEF Due
        <5> QED
          BY <1>1, <2>2, <3>1, <5>1, <5>2 DEF Untouched, P!At
      <4>2. Kept'
        BY <4>1 DEF Kept
      <4> QED
        BY <1>1, <1>3, <3>1, <3>2, <4>2, PoolsTyped, GotoKeepsPoolsInv
    <3> QED
      BY <3>4, <3>5
  <2>3. CASE pool # {}
    <3> DEFINE w == [pc |-> "check", offer |-> seeding[r].offer, todo |-> pool]
    <3>1. w \in P!Checking /\ w.pc = "check"
      BY <1>3, <2>1 DEF P!Staged, P!Checking
    <3>2. P!Goto(r, w)
      BY <1>5, <2>3 DEF P!Verify
    <3> HIDE DEF w
    <3> QED
      BY <1>1, <3>1, <3>2, SteppingKeepsPoolsInv DEF PoolWork, Eager, Covers
  <2> QED
    BY <2>2, <2>3
<1>6. CASE P!Check(r)
  <2>1. seeding[r] \in P!Checking
    BY <1>1, <1>6, PoolWorkAt DEF P!Check, P!At
  <2>2. ASSUME NEW w \in PoolWork, w.pc \in {"check", "remove"} \/ (w.pc = "count" /\ ~w.lazy), P!Goto(r, w)
        PROVE  PoolsInv'
    BY <1>1, <2>2, SteppingKeepsPoolsInv DEF Eager, Covers
  <2>3. CASE P!Goto(r, [pc |-> "count", offer |-> seeding[r].offer, lazy |-> FALSE])
    <3> DEFINE w == [pc |-> "count", offer |-> seeding[r].offer, lazy |-> FALSE]
    <3>1. w \in PoolWork /\ w.pc = "count" /\ ~w.lazy
      BY <2>1 DEF P!Checking, P!Staged, PoolWork
    <3> HIDE DEF w
    <3> QED
      BY <2>2, <2>3, <3>1 DEF w
  <2>4. ASSUME NEW m \in seeding[r].todo, P!Goto(r, [seeding[r] EXCEPT !.todo = @ \ {m}])
        PROVE  PoolsInv'
    <3> DEFINE w == [seeding[r] EXCEPT !.todo = @ \ {m}]
    <3>1. w \in P!Checking /\ w.pc = "check"
      BY <2>1 DEF P!Checking
    <3> HIDE DEF w
    <3> QED
      BY <2>2, <2>4, <3>1 DEF w, PoolWork
  <2>5. ASSUME NEW m \in seeding[r].todo,
               P!Goto(r, [pc |-> "remove", offer |-> seeding[r].offer,
                          todo |-> seeding[r].todo \ {m}, model |-> m])
        PROVE  PoolsInv'
    <3> DEFINE w == [pc |-> "remove", offer |-> seeding[r].offer,
                     todo |-> seeding[r].todo \ {m}, model |-> m]
    <3>1. w \in P!Removing /\ w.pc = "remove"
      BY <2>1 DEF P!Checking, P!Removing
    <3> HIDE DEF w
    <3> QED
      BY <2>2, <2>5, <3>1 DEF w, PoolWork
  <2> QED
    BY <1>6, <2>3, <2>4, <2>5 DEF P!Check
<1>7. CASE P!Count(r)
  <2>1. seeding[r].pc = "count" /\ seeding[r] \in P!Staged
    BY <1>1, <1>7, PoolWorkAt DEF P!Count, P!At
  <2>2. ASSUME NEW pc \in {"seed", "verified"}, P!Goto(r, P!Stage(r, pc)),
               pc = "verified" => Full(pool)
        PROVE  PoolsInv'
    <3> DEFINE w == P!Stage(r, pc)
    <3>1. w \in PoolWork /\ w.pc = pc /\ w.lazy = seeding[r].lazy
      BY <2>1, StageIsStaged
    <3> HIDE DEF w
    <3>2. ~disturbed => Eager(w)
      BY <1>2, <2>1, <3>1 DEF Eager
    <3>3. Covers(pool, w) \/ Full(pool)
      BY <2>2, <3>1 DEF Covers
    <3> QED
      BY <1>1, <2>2, <3>1, <3>2, <3>3, SteppingKeepsPoolsInv DEF w
  <2> QED
    BY <1>1, <1>7, <2>2, PoolsTyped DEF P!Count
<1> QED
  BY <1>4, <1>5, <1>6, <1>7

LEMMA RemoveKeepsPoolsInv ==
  ASSUME PoolsInv, NEW r \in Requests, P!Remove(r)
  PROVE  PoolsInv'
<1> DEFINE w == [pc |-> "check", offer |-> seeding[r].offer, todo |-> seeding[r].todo]
<1>1. P!TypeOK /\ seeding[r] \in PoolWork
  BY PoolsTyped DEF PoolsInv
<1>2. seeding[r] \in P!Removing
  BY <1>1, PoolWorkAt DEF P!Remove, P!At
<1>3. w \in PoolWork /\ w.pc = "check" /\ P!Goto(r, w)
  BY <1>2 DEF P!Removing, P!Checking, PoolWork, P!Remove
<1> HIDE DEF w
<1>4. pool' \in SUBSET Models /\ UNCHANGED <<verified, disturbed>>
  BY <1>1, PoolsTyped DEF P!Remove
<1>5. seeding'[r] = w
  BY <1>1, <1>3, PoolGoto
<1>6. Kept' /\ Eager(w)
  BY <1>3, <1>5 DEF Kept, Covers, Eager
<1> QED
  BY <1>1, <1>3, <1>4, <1>6, PoolsTyped, GotoKeepsPoolsInv

LEMMA SeedKeepsPoolsInv ==
  ASSUME PoolsInv, NEW r \in Requests, P!Seed(r)
  PROVE  PoolsInv'
<1> DEFINE plan == (IF seeding[r].lazy THEN seeding[r].offer ELSE Models) \ pool
           w == [pc |-> "add", offer |-> seeding[r].offer, lazy |-> seeding[r].lazy,
                 slots |-> SeedSize - Cardinality(pool), plan |-> plan]
<1>1. /\ P!TypeOK /\ seeding[r] \in PoolWork /\ pool \in SUBSET Models
      /\ Cardinality(pool) \in Nat /\ P!Cardinality(pool) = Cardinality(pool)
      /\ UNCHANGED <<pool, verified, disturbed>>
  BY PoolsTyped, SubpoolsAreFinite DEF PoolsInv, P!Seed
<1>2. seeding[r].pc = "seed" /\ seeding[r] \in P!Staged
  BY <1>1, PoolWorkAt DEF P!Seed, P!At
<1>3. plan \in SUBSET Models
  BY <1>2, ModelsAreRanked DEF P!Staged, P!Offers
<1>4. ~disturbed => ~seeding[r].lazy /\ plan = Models \ pool
  BY <1>2 DEF PoolsInv, Eager
<1>5. CASE (~P!Short \/ plan = {}) /\ P!Goto(r, P!Seeded(r))
  <2> DEFINE v == P!Seeded(r)
  <2>1. /\ v \in PoolWork /\ v.pc \in {"reread", "verified"} /\ v.lazy = seeding[r].lazy
        /\ ~seeding[r].lazy => v.pc = "verified"
    BY <1>2, SeededIsStaged
  <2> HIDE DEF v
  <2>2. ~disturbed => Eager(v)
    BY <1>4, <2>1 DEF Eager
  <2>3. ~disturbed => Full(pool)
    <3>1. plan = {} /\ ~disturbed => pool = Models
      BY <1>1, <1>4
    <3> QED
      BY <1>1, <1>5, <3>1, PoolsTyped DEF Full
  <2> QED
    BY <1>1, <1>5, <2>1, <2>2, <2>3, SteppingKeepsPoolsInv DEF v
<1>6. CASE P!Short /\ plan # {} /\ P!Goto(r, w)
  <2>1. SeedSize - Cardinality(pool) \in 1 .. SeedSize
    BY <1>1, <1>6, PoolsTyped, PoolsHaveRoomForSeeds
  <2> HIDE DEF plan
  <2>2. /\ w \in P!Adding /\ w.pc = "add" /\ w.plan = plan /\ w.lazy = seeding[r].lazy
        /\ w.slots = SeedSize - Cardinality(pool)
    BY <1>2, <1>3, <1>6, <2>1 DEF P!Staged, P!Adding
  <2> HIDE DEF w
  <2>3. ~disturbed => Eager(w)
    BY <1>4, <2>2 DEF Eager
  <2>4. ~disturbed => Refills(pool, w)
    <3>1. ASSUME ~disturbed
          PROVE  Models \ w.plan \subseteq pool /\ pool \ w.plan = pool
      BY <1>1, <1>4, <2>2, <3>1
    <3>2. Cardinality(pool) + w.slots >= SeedSize
      BY <1>1, <2>2, PoolsHaveRoomForSeeds
    <3> QED
      BY <2>2, <3>1, <3>2 DEF Refills
  <2>5. w \in PoolWork
    BY <2>2 DEF PoolWork
  <2> QED
    BY <1>1, <1>6, <2>3, <2>4, <2>5, SteppingKeepsPoolsInv DEF Covers
<1>7. P!Goto(r, IF ~P!Short \/ plan = {} THEN P!Seeded(r) ELSE w)
  BY <1>1 DEF P!Seed
<1> HIDE DEF plan, w
<1> QED
  BY <1>5, <1>6, <1>7

(* The rest of a plan: what remains of it still refills, or the pool is full. *)
LEMMA LeftOf ==
  ASSUME NEW r \in Requests, seeding[r] \in P!Adding,
         NEW rest, rest.plan \in SUBSET Models, rest.slots \in 0 .. SeedSize,
         rest.pc = "add", rest.offer = seeding[r].offer, rest.lazy = seeding[r].lazy,
         rest = [pc |-> rest.pc, offer |-> rest.offer, lazy |-> rest.lazy,
                 slots |-> rest.slots, plan |-> rest.plan],
         NEW S \in SUBSET Models
  PROVE  LET v == P!Left(r, rest) IN
         /\ v \in P!Staged \cup P!Adding /\ v \in PoolWork /\ v.lazy = seeding[r].lazy
         /\ v.pc \in {"reread", "verified", "add"}
         /\ ~seeding[r].lazy => v.pc # "reread"
         /\ Refills(S, rest) => Refills(S, v) \/ Full(S)
<1>1. CASE rest.plan = {} \/ rest.slots = 0
  <2>1. P!Left(r, rest) = P!Seeded(r)
    BY <1>1 DEF P!Left
  <2>2. ASSUME Refills(S, rest)
        PROVE  Full(S)
    <3>1. CASE rest.plan = {}
      BY <2>2, <3>1 DEF Refills, Full
    <3>2. CASE rest.slots = 0
      <4>1. Cardinality(S \ rest.plan) + 0 >= SeedSize
        BY <2>2, <3>2 DEF Refills
      <4>2. /\ Cardinality(S \ rest.plan) <= Cardinality(S)
            /\ Cardinality(S \ rest.plan) \in Nat /\ Cardinality(S) \in Nat
        <5>1. S \ rest.plan \in SUBSET S /\ S \ rest.plan \in SUBSET Models
          OBVIOUS
        <5> QED
          BY <5>1, SubpoolsAreFinite, FS_Subset
      <4> QED
        BY <4>1, <4>2, PoolsHaveRoomForSeeds DEF Full
    <3> QED
      BY <1>1, <3>1, <3>2
  <2>3. /\ P!Seeded(r) \in P!Staged /\ P!Seeded(r) \in PoolWork
        /\ P!Seeded(r).pc \in {"reread", "verified"} /\ P!Seeded(r).lazy = seeding[r].lazy
        /\ ~seeding[r].lazy => P!Seeded(r).pc = "verified"
    BY SeededIsStaged
  <2> QED
    BY <2>1, <2>2, <2>3
<1>2. CASE rest.plan # {} /\ rest.slots # 0
  <2>1. P!Left(r, rest) = rest
    BY <1>2 DEF P!Left
  <2>2. rest.slots \in 1 .. SeedSize /\ rest.plan \in (SUBSET Models) \ {{}}
    BY <1>2, PoolsHaveRoomForSeeds
  <2>3. rest.offer \in P!Offers /\ rest.lazy \in BOOLEAN
    BY DEF P!Adding
  <2>4. rest \in P!Adding
    BY <2>2, <2>3, Zenon DEF P!Adding
  <2> QED
    BY <2>1, <2>4 DEF PoolWork
<1> QED
  BY <1>1, <1>2

LEMMA VerifiedKeepsPoolsInv ==
  ASSUME PoolsInv, NEW r \in Requests, P!Verified(r)
  PROVE  PoolsInv'
<1> DEFINE w == P!Stage(r, "read")
<1>1. /\ P!TypeOK /\ seeding[r] \in PoolWork /\ pool \in SUBSET Models
      /\ UNCHANGED <<pool, disturbed>> /\ verified' \in BOOLEAN /\ disturbed \in BOOLEAN
  BY PoolsTyped DEF PoolsInv, P!Verified
<1>2. seeding[r].pc = "verified" /\ seeding[r] \in P!Staged
  BY <1>1, PoolWorkAt DEF P!Verified, P!At
<1>3. w \in PoolWork /\ w.pc = "read" /\ w.lazy = seeding[r].lazy /\ P!Goto(r, w)
  BY <1>2, StageIsStaged DEF P!Verified
<1> HIDE DEF w
<1>4. ASSUME ~disturbed
      PROVE  Eager(w) /\ Kept'
  <2>1. Eager(w)
    BY <1>2, <1>3, <1>4 DEF PoolsInv, Eager
  <2>2. Kept
    BY <1>2, <1>4 DEF PoolsInv, Due
  <2>3. ~Covers(pool, seeding[r])
    BY <1>2 DEF Covers, Refills
  <2> QED
    BY <1>1, <1>3, <2>1, <2>2, <2>3, KeptStays
<1> QED
  BY <1>1, <1>3, <1>4, GotoKeepsPoolsInv

LEMMA ReadKeepsPoolsInv ==
  ASSUME PoolsInv, NEW r \in Requests, P!Read(r) \/ P!Raise(r)
  PROVE  PoolsInv'
<1>1. /\ P!TypeOK /\ seeding[r] \in PoolWork /\ pool \in SUBSET Models
      /\ UNCHANGED <<pool, verified>> /\ verified \in BOOLEAN /\ disturbed \in BOOLEAN
  BY PoolsTyped DEF PoolsInv, P!Read, P!Raise
<1>2. P!Idle \in PoolWork /\ P!Idle.pc = "idle" /\ Eager(P!Idle)
  BY DEF PoolWork, P!Idle, Eager
<1>3. CASE disturbed' = TRUE /\ P!Goto(r, P!Idle)
  BY <1>1, <1>2, <1>3, GotoKeepsPoolsInv
<1>4. CASE P!Read(r) /\ P!Goto(r, P!Idle) /\ UNCHANGED disturbed
  <2>1. seeding[r].pc \in {"read", "reread"}
    BY <1>4 DEF P!Read, P!At
  <2>2. ~Covers(pool, seeding[r])
    BY <2>1 DEF Covers, Refills
  <2> QED
    BY <1>1, <1>2, <1>4, <2>1, <2>2, SteppingKeepsPoolsInv
<1>5. CASE disturbed' = TRUE /\ P!Read(r) /\ P!Goto(r, [pc |-> "seed", offer |-> seeding[r].offer, lazy |-> TRUE])
  <2> DEFINE w == [pc |-> "seed", offer |-> seeding[r].offer, lazy |-> TRUE]
  <2>1. seeding[r] \in P!Staged
    BY <1>1, <1>5, PoolWorkAt DEF P!Read, P!At
  <2>2. w \in PoolWork
    BY <2>1 DEF P!Staged, PoolWork
  <2> HIDE DEF w
  <2> QED
    BY <1>1, <1>5, <2>2, GotoKeepsPoolsInv DEF w
<1> QED
  BY <1>3, <1>4, <1>5 DEF P!Read, P!Raise

(* A step of who adds: what it covered it goes on to cover.                *)
LEMMA AddingKeepsPoolsInv ==
  ASSUME PoolsInv, NEW r \in Requests, P!At(r, "add") \/ P!At(r, "write"),
         NEW w \in PoolWork, P!Goto(r, w), UNCHANGED <<verified, disturbed>>,
         pool' \in SUBSET Models, pool \subseteq pool',
         ~disturbed => Eager(w),
         Covers(pool, seeding[r]) => Covers(pool', w) \/ Full(pool')
  PROVE  PoolsInv'
<1>1. P!TypeOK /\ verified \in BOOLEAN /\ disturbed \in BOOLEAN
  BY PoolsTyped DEF PoolsInv
<1>2. ASSUME ~disturbed
      PROVE  Kept'
  <2>1. Kept
    BY <1>2 DEF PoolsInv, Due, P!At
  <2>2. ~Untouched
    BY DEF Untouched
  <2> QED
    BY <1>1, <2>1, <2>2, KeptStays
<1> QED
  BY <1>1, <1>2, GotoKeepsPoolsInv

LEMMA TakenRefills ==
  ASSUME NEW S \in SUBSET Models, NEW w \in P!Adding, NEW m \in w.plan, Refills(S, w),
         NEW rest, rest.pc = "add", rest.plan = w.plan \ {m}, rest.slots = w.slots - 1
  PROVE  Refills(S \cup {m}, rest)
<1> DEFINE kept == S \ w.plan
<1>1. w.plan \in SUBSET Models /\ w.slots \in 1 .. SeedSize
  BY DEF P!Adding
<1>2. (S \cup {m}) \ rest.plan = kept \cup {m} /\ m \notin kept
  BY <1>1
<1>3. Models \ rest.plan \subseteq S \cup {m}
  BY <1>1 DEF Refills
<1>4. kept \in SUBSET Models /\ Cardinality(kept) + w.slots >= SeedSize
  BY DEF Refills
<1> HIDE DEF kept
<1>5. IsFiniteSet(kept) /\ Cardinality(kept) \in Nat /\ Cardinality(kept \cup {m}) = Cardinality(kept) + 1
  BY <1>2, <1>4, SubpoolsAreFinite, FS_AddElement
<1>6. Cardinality(kept \cup {m}) + rest.slots >= SeedSize
  BY <1>1, <1>4, <1>5, PoolsHaveRoomForSeeds
<1> QED
  BY <1>2, <1>3, <1>6 DEF Refills

LEMMA AddKeepsPoolsInv ==
  ASSUME PoolsInv, NEW r \in Requests, P!Add(r)
  PROVE  PoolsInv'
<1>1. /\ P!TypeOK /\ seeding[r] \in PoolWork /\ pool \in SUBSET Models
      /\ Cardinality(pool) \in Nat /\ P!Cardinality(pool) = Cardinality(pool)
      /\ UNCHANGED <<pool, verified, disturbed>>
  BY PoolsTyped, SubpoolsAreFinite DEF PoolsInv, P!Add
<1>2. seeding[r].pc = "add" /\ seeding[r] \in P!Adding /\ P!At(r, "add")
  BY <1>1, PoolWorkAt DEF P!Add, P!At
<1>3. ~disturbed => ~seeding[r].lazy
  BY <1>2 DEF PoolsInv, Eager
<1>4. Covers(pool, seeding[r]) <=> Refills(pool, seeding[r])
  BY <1>2 DEF Covers
<1>5. seeding[r].plan \in (SUBSET Models) \ {{}} /\ seeding[r].slots \in 1 .. SeedSize
  BY <1>2 DEF P!Adding
<1>6. PICK o \in SeedRankings :
        LET m == P!Best(o, seeding[r].plan)
            rest == [seeding[r] EXCEPT !.plan = @ \ {m}] IN
        IF m \in pool THEN P!Goto(r, P!Took(r, rest))
        ELSE IF Cardinality(pool) >= PoolMax THEN P!Goto(r, P!Left(r, rest))
        ELSE P!Goto(r, [pc |-> "write", then |-> P!Took(r, rest), model |-> m])
  BY <1>1 DEF P!Add
<1> DEFINE m == P!Best(o, seeding[r].plan)
           rest == [seeding[r] EXCEPT !.plan = @ \ {m}]
           fewer == [rest EXCEPT !.slots = @ - 1]
<1>7. m \in seeding[r].plan /\ m \in Models
  BY <1>5, BestIsFirst, ModelsAreRanked
<1>8. IF m \in pool THEN P!Goto(r, P!Left(r, fewer))
      ELSE IF Cardinality(pool) >= PoolMax THEN P!Goto(r, P!Left(r, rest))
      ELSE P!Goto(r, [pc |-> "write", then |-> P!Left(r, fewer), model |-> m])
  BY <1>6 DEF P!Took
<1> HIDE DEF m
<1>9. /\ rest.pc = "add" /\ rest.offer = seeding[r].offer /\ rest.lazy = seeding[r].lazy
      /\ rest.plan = seeding[r].plan \ {m} /\ rest.slots = seeding[r].slots
      /\ rest = [pc |-> rest.pc, offer |-> rest.offer, lazy |-> rest.lazy,
                 slots |-> rest.slots, plan |-> rest.plan]
  BY <1>2 DEF P!Adding
<1> HIDE DEF rest
<1>10. /\ fewer.pc = "add" /\ fewer.offer = seeding[r].offer /\ fewer.lazy = seeding[r].lazy
       /\ fewer.plan = seeding[r].plan \ {m} /\ fewer.slots = seeding[r].slots - 1
       /\ fewer = [pc |-> fewer.pc, offer |-> fewer.offer, lazy |-> fewer.lazy,
                   slots |-> fewer.slots, plan |-> fewer.plan]
  BY <1>9
<1> HIDE DEF fewer
<1>11. /\ rest.plan \in SUBSET Models /\ rest.slots \in 0 .. SeedSize
       /\ fewer.plan \in SUBSET Models /\ fewer.slots \in 0 .. SeedSize
       /\ pool \cup {m} \in SUBSET Models
  BY <1>1, <1>5, <1>7, <1>9, <1>10, PoolsHaveRoomForSeeds
<1>12. Refills(pool, seeding[r]) => Refills(pool \cup {m}, fewer)
  BY <1>1, <1>2, <1>7, <1>10, TakenRefills
<1> DEFINE v == P!Left(r, fewer)
<1>13. /\ v \in P!Staged \cup P!Adding /\ v \in PoolWork /\ v.lazy = seeding[r].lazy
       /\ v.pc \in {"reread", "verified", "add"}
       /\ ~seeding[r].lazy => v.pc # "reread"
       /\ Refills(pool \cup {m}, fewer) => Refills(pool \cup {m}, v) \/ Full(pool \cup {m})
  BY <1>2, <1>10, <1>11, LeftOf
<1>14. CASE m \in pool
  <2>1. P!Goto(r, v) /\ pool \cup {m} = pool
    BY <1>8, <1>14
  <2> HIDE DEF v
  <2>2. ~disturbed => Eager(v)
    BY <1>3, <1>13 DEF Eager
  <2>3. Covers(pool, seeding[r]) => Covers(pool, v) \/ Full(pool)
    BY <1>4, <1>12, <1>13, <2>1 DEF Covers
  <2> QED
    BY <1>1, <1>2, <1>13, <2>1, <2>2, <2>3, AddingKeepsPoolsInv
<1>15. CASE m \notin pool /\ Cardinality(pool) >= PoolMax
  <2> DEFINE u == P!Left(r, rest)
  <2>1. P!Goto(r, u)
    BY <1>8, <1>15
  <2>2. /\ u \in PoolWork /\ u.lazy = seeding[r].lazy
        /\ u.pc \in {"reread", "verified", "add"}
        /\ ~seeding[r].lazy => u.pc # "reread"
    BY <1>1, <1>2, <1>9, <1>11, LeftOf
  <2> HIDE DEF u
  <2>3. ~disturbed => Eager(u)
    BY <1>3, <2>2 DEF Eager
  <2>4. Full(pool)
    BY <1>1, <1>15, PoolsHaveRoomForSeeds DEF Full
  <2> QED
    BY <1>1, <2>1, <2>2, <2>3, <2>4, SteppingKeepsPoolsInv
<1>16. CASE m \notin pool /\ ~(Cardinality(pool) >= PoolMax)
  <2> DEFINE u == [pc |-> "write", then |-> v, model |-> m]
  <2>1. P!Goto(r, u)
    BY <1>8, <1>16
  <2> HIDE DEF v
  <2>2. u \in P!Writing /\ u.pc = "write" /\ u.then = v /\ u.model = m
    BY <1>7, <1>13 DEF P!Writing
  <2> HIDE DEF u
  <2>3. ~disturbed => Eager(u)
    BY <1>3, <1>13, <2>2 DEF Eager
  <2>4. Covers(pool, seeding[r]) => Covers(pool, u)
    BY <1>4, <1>12, <1>13, <2>2 DEF Covers
  <2>5. u \in PoolWork
    BY <2>2 DEF PoolWork
  <2> QED
    BY <1>1, <1>2, <2>1, <2>3, <2>4, <2>5, AddingKeepsPoolsInv
<1> QED
  BY <1>14, <1>15, <1>16

LEMMA WriteKeepsPoolsInv ==
  ASSUME PoolsInv, NEW r \in Requests, P!Write(r)
  PROVE  PoolsInv'
<1> DEFINE w == seeding[r].then
           m == seeding[r].model
<1>1. /\ P!TypeOK /\ seeding[r] \in PoolWork /\ pool \in SUBSET Models
      /\ UNCHANGED <<verified, disturbed>>
  BY PoolsTyped DEF PoolsInv, P!Write
<1>2. seeding[r].pc = "write" /\ seeding[r] \in P!Writing /\ P!At(r, "write")
  BY <1>1, PoolWorkAt DEF P!Write, P!At
<1>3. m \in Models /\ w \in P!Staged \cup P!Adding /\ w \in PoolWork
  BY <1>2 DEF P!Writing, PoolWork
<1>4. pool' = pool \cup {m} /\ P!Goto(r, w)
  BY DEF P!Write
<1>5. ~disturbed => ~w.lazy /\ w.pc \in {"add", "verified"}
  BY <1>2 DEF PoolsInv, Eager
<1>6. Covers(pool, seeding[r]) => Full(pool \cup {m}) \/ Refills(pool \cup {m}, w)
  BY <1>2 DEF Covers, Refills
<1> HIDE DEF w, m
<1>7. ~disturbed => Eager(w)
  BY <1>5 DEF Eager
<1>8. Covers(pool, seeding[r]) => Covers(pool', w) \/ Full(pool')
  BY <1>4, <1>6 DEF Covers
<1> QED
  BY <1>1, <1>2, <1>3, <1>4, <1>7, <1>8, AddingKeepsPoolsInv

LEMMA PoolsNext == PoolsInv /\ [P!Next]_(P!vars) => PoolsInv'
<1> SUFFICES ASSUME PoolsInv, [P!Next]_(P!vars) PROVE PoolsInv'
  OBVIOUS
<1>1. CASE UNCHANGED P!vars
  <2>1. UNCHANGED <<pool, verified, seeding, disturbed>>
    BY <1>1 DEF P!vars
  <2> QED
    BY <2>1 DEF PoolsInv, P!TypeOK, Due, Kept, Untouched, P!At
<1>2. CASE P!NewEngine
  <2>1. /\ verified' = FALSE /\ disturbed' = FALSE /\ UNCHANGED <<pool, seeding>>
        /\ \A r \in Requests : seeding[r].pc = "idle"
    BY <1>2 DEF P!NewEngine, P!At
  <2>2. ~Due'
    BY <2>1 DEF Due
  <2>3. \A r \in Requests : Eager(seeding[r])
    BY <2>1 DEF Eager
  <2>4. P!TypeOK'
    BY <2>1 DEF PoolsInv, P!TypeOK
  <2> QED
    BY <2>1, <2>2, <2>3, <2>4 DEF PoolsInv
<1>3. ASSUME NEW r \in Requests, P!Route(r) \/ P!Step(r) \/ P!Raise(r)
      PROVE  PoolsInv'
  BY <1>3, VerifyingKeepsPoolsInv, RemoveKeepsPoolsInv, SeedKeepsPoolsInv, AddKeepsPoolsInv,
     WriteKeepsPoolsInv, VerifiedKeepsPoolsInv, ReadKeepsPoolsInv DEF P!Step
<1> QED
  BY <1>1, <1>2, <1>3 DEF P!Next

LEMMA PoolsInit == P!Init => PoolsInv
<1> SUFFICES ASSUME P!Init PROVE PoolsInv
  OBVIOUS
<1>1. \A r \in Requests : seeding[r] = P!Idle /\ seeding[r].pc = "idle"
  BY DEF P!Init, P!Idle
<1>2. P!TypeOK /\ ~Due
  BY <1>1 DEF P!Init, P!TypeOK, Due
<1>3. \A r \in Requests : Eager(seeding[r])
  BY <1>1 DEF Eager
<1> QED
  BY <1>2, <1>3 DEF PoolsInv

LEMMA InvTellsPools == PoolsInv => RefilledWhenVerified
<1> SUFFICES ASSUME PoolsInv, verified, ~disturbed, \A r \in Requests : ~P!Verifying(r)
             PROVE  pool = {} \/ P!Cardinality(pool) >= SeedSize \/ pool = Models
  BY DEF RefilledWhenVerified, P!RefilledWhenVerified
<1>1. Kept
  BY DEF PoolsInv, Due
<1>2. ASSUME NEW r \in Requests
      PROVE  ~Covers(pool, seeding[r])
  BY DEF PoolsInv, Eager, Covers, Refills, P!Verifying
<1>3. P!Cardinality(pool) = Cardinality(pool)
  BY SubpoolsAreFinite DEF PoolsInv, P!TypeOK
<1> QED
  BY <1>1, <1>2, <1>3 DEF Kept, Full, Untouched

-----------------------------------------------------------------------------
(* SeededPools: requests that seed at once fill the pool past its limit.   *)

Writers == {r \in Requests : P!At(r, "write")}

(* Room is checked before the write: every request may hold one checked    *)
(* model.                                                                  *)
OvershootInv == Cardinality(pool) + Cardinality(Writers) < PoolMax + Cardinality(Requests)

LEMMA WritersAreFinite ==
  /\ IsFiniteSet(Writers) /\ Cardinality(Writers) \in Nat
  /\ Cardinality(Requests) \in Nat /\ Cardinality(Writers) <= Cardinality(Requests)
<1>1. Writers \in SUBSET Requests
  BY DEF Writers
<1> QED
  BY <1>1, RequestsAreFinite, FS_Subset, FS_CardinalityType

(* A request holds a checked model only where the pool had room for it.    *)
LEMMA WritersHadRoom ==
  ASSUME P!TypeOK, NEW r \in Requests, P!Route(r) \/ P!Step(r) \/ P!Raise(r)
  PROVE  /\ \A q \in Requests \ {r} : seeding'[q] = seeding[q]
         /\ seeding'[r].pc = "write" => pool' = pool /\ Cardinality(pool) < PoolMax
<1> DEFINE Leads(w) == P!Goto(r, w) /\ w.pc # "write"
<1>1. /\ seeding \in [Requests -> PoolWork] /\ seeding[r] \in PoolWork /\ pool \in SUBSET Models
      /\ P!Cardinality(pool) = Cardinality(pool) /\ Cardinality(pool) \in Nat
  BY SubpoolsAreFinite DEF P!TypeOK, PoolWork
<1>2. \A w : P!Goto(r, w) => /\ seeding'[r] = w
                             /\ \A q \in Requests \ {r} : seeding'[q] = seeding[q]
  BY <1>1 DEF P!Goto
<1>3. \A pc : P!Stage(r, pc).pc = pc
  BY DEF P!Stage
<1>4. P!Seeded(r).pc # "write"
  BY <1>3 DEF P!Seeded
<1>5. ASSUME P!Route(r) \/ P!Verify(r) \/ P!Count(r) \/ P!Remove(r) \/ P!Verified(r)
             \/ P!Read(r) \/ P!Raise(r)
      PROVE  \E w : Leads(w)
  <2>1. CASE P!Route(r)
    <3>1. PICK offer \in P!Offers :
            P!Goto(r, [pc |-> IF verified THEN "read" ELSE "verify", offer |-> offer, lazy |-> FALSE])
      BY <2>1 DEF P!Route
    <3> QED
      BY <3>1
  <2>2. CASE P!Verify(r)
    BY <1>3, <2>2 DEF P!Verify
  <2>3. CASE P!Count(r)
    BY <1>3, <2>3 DEF P!Count
  <2>4. CASE P!Remove(r)
    BY <2>4 DEF P!Remove
  <2>5. CASE P!Verified(r)
    BY <1>3, <2>5 DEF P!Verified
  <2>6. CASE P!Read(r)
    BY <2>6 DEF P!Read, P!Idle
  <2>7. CASE P!Raise(r)
    BY <2>7 DEF P!Raise, P!Idle
  <2> QED
    BY <1>5, <2>1, <2>2, <2>3, <2>4, <2>5, <2>6, <2>7
<1>6. CASE P!Check(r)
  <2>1. seeding[r].pc = "check" /\ seeding[r] \in P!Checking
    BY <1>1, <1>6, PoolWorkAt DEF P!Check, P!At
  <2>2. ASSUME P!Goto(r, [pc |-> "count", offer |-> seeding[r].offer, lazy |-> FALSE])
        PROVE  \E w : Leads(w)
    BY <2>2
  <2>3. ASSUME NEW m \in seeding[r].todo, NEW selectable \in BOOLEAN,
               P!Goto(r, IF selectable THEN [seeding[r] EXCEPT !.todo = @ \ {m}]
                         ELSE [pc |-> "remove", offer |-> seeding[r].offer,
                               todo |-> seeding[r].todo \ {m}, model |-> m])
        PROVE  \E w : Leads(w)
    <3>1. [seeding[r] EXCEPT !.todo = @ \ {m}].pc = "check"
      BY <2>1 DEF P!Checking
    <3>2. CASE selectable
      BY <2>3, <3>1, <3>2
    <3>3. CASE ~selectable
      BY <2>3, <3>3
    <3> QED
      BY <3>2, <3>3
  <2>4. \E w : Leads(w)
    BY <1>6, <2>2, <2>3 DEF P!Check
  <2>5. PICK w : Leads(w)
    BY <2>4
  <2> QED
    BY <1>2, <2>5
<1>7. CASE P!Seed(r)
  <2> DEFINE plan == (IF seeding[r].lazy THEN seeding[r].offer ELSE Models) \ pool
             adding == [pc |-> "add", offer |-> seeding[r].offer, lazy |-> seeding[r].lazy,
                        slots |-> SeedSize - P!Cardinality(pool), plan |-> plan]
  <2>1. P!Goto(r, P!Seeded(r)) \/ P!Goto(r, adding)
    BY <1>7 DEF P!Seed
  <2>2. adding.pc # "write"
    OBVIOUS
  <2> HIDE DEF adding
  <2> QED
    BY <1>2, <1>4, <2>1, <2>2
<1>8. CASE P!Add(r)
  <2>1. seeding[r] \in P!Adding /\ seeding[r].pc = "add" /\ pool' = pool
    BY <1>1, <1>8, PoolWorkAt DEF P!Add, P!At
  <2>2. PICK m : LET rest == [seeding[r] EXCEPT !.plan = @ \ {m}] IN
          IF m \in pool THEN P!Goto(r, P!Took(r, rest))
          ELSE IF Cardinality(pool) >= PoolMax THEN P!Goto(r, P!Left(r, rest))
          ELSE P!Goto(r, [pc |-> "write", then |-> P!Took(r, rest), model |-> m])
    BY <1>1, <1>8 DEF P!Add
  <2> DEFINE rest == [seeding[r] EXCEPT !.plan = @ \ {m}]
             fewer == [rest EXCEPT !.slots = @ - 1]
  <2>3. rest.pc = "add" /\ fewer.pc = "add"
    BY <2>1 DEF P!Adding
  <2>4. P!Left(r, rest).pc # "write" /\ P!Took(r, rest).pc # "write"
    <3> HIDE DEF rest
    <3>1. P!Took(r, rest) = P!Left(r, fewer)
      BY DEF P!Took
    <3> HIDE DEF fewer
    <3> QED
      BY <1>4, <2>3, <3>1 DEF P!Left
  <2>5. CASE m \in pool
    BY <1>2, <2>2, <2>4, <2>5
  <2>6. CASE m \notin pool /\ Cardinality(pool) >= PoolMax
    BY <1>2, <2>2, <2>4, <2>6
  <2>7. CASE m \notin pool /\ ~(Cardinality(pool) >= PoolMax)
    <3>1. Cardinality(pool) < PoolMax
      BY <1>1, <2>7, PoolsHaveRoomForSeeds
    <3>2. P!Goto(r, [pc |-> "write", then |-> P!Took(r, rest), model |-> m])
      BY <2>2, <2>7
    <3> QED
      BY <1>2, <2>1, <3>1, <3>2
  <2> QED
    BY <2>5, <2>6, <2>7
<1>9. CASE P!Write(r)
  <2>1. seeding[r] \in P!Writing
    BY <1>1, <1>9, PoolWorkAt DEF P!Write, P!At
  <2>2. seeding[r].then.pc # "write"
    BY <2>1 DEF P!Writing, P!Staged, P!Adding
  <2> QED
    BY <1>2, <1>9, <2>2 DEF P!Write
<1> QED
  BY <1>2, <1>5, <1>6, <1>7, <1>8, <1>9 DEF P!Step

LEMMA RequestKeepsOvershootInv ==
  ASSUME P!TypeOK, OvershootInv, NEW r \in Requests, P!Route(r) \/ P!Step(r) \/ P!Raise(r)
  PROVE  OvershootInv'
<1>1. /\ pool \in SUBSET Models /\ IsFiniteSet(pool) /\ Cardinality(pool) \in Nat /\ PoolMax \in Nat
      /\ IsFiniteSet(Writers) /\ Cardinality(Writers) \in Nat
      /\ Cardinality(Requests) \in Nat
  BY SubpoolsAreFinite, WritersAreFinite, PoolsHaveRoomForSeeds DEF P!TypeOK
<1>2. /\ Writers' \in SUBSET Requests
      /\ IsFiniteSet(Writers') /\ Cardinality(Writers') \in Nat
      /\ Cardinality(Writers') <= Cardinality(Requests)
  BY RequestsAreFinite, FS_Subset, FS_CardinalityType DEF Writers
<1>3. CASE seeding'[r].pc = "write"
  <2>1. pool' = pool /\ Cardinality(pool) < PoolMax
    BY <1>3, WritersHadRoom
  <2> QED
    BY <1>1, <1>2, <2>1 DEF OvershootInv
<1>4. CASE seeding'[r].pc # "write"
  <2>1. Writers' = Writers \ {r}
    BY <1>4, WritersHadRoom DEF Writers, P!At
  <2>2. CASE P!Write(r)
    <3>1. r \in Writers /\ pool' = pool \cup {seeding[r].model}
      BY <2>2 DEF P!Write, Writers
    <3>2. Cardinality(Writers') = Cardinality(Writers) - 1
      BY <1>1, <2>1, <3>1, FS_RemoveElement
    <3>3. Cardinality(pool') <= Cardinality(pool) + 1 /\ Cardinality(pool') \in Nat
      <4> DEFINE m == seeding[r].model
      <4>1. /\ IsFiniteSet(pool \cup {m})
            /\ Cardinality(pool \cup {m}) =
                 IF m \in pool THEN Cardinality(pool) ELSE Cardinality(pool) + 1
        BY <1>1, FS_AddElement
      <4> QED
        BY <1>1, <3>1, <4>1
    <3> QED
      BY <1>1, <3>2, <3>3 DEF OvershootInv
  <2>3. CASE ~P!Write(r)
    <3>1. pool' \subseteq pool
      BY <2>3 DEF P!Route, P!Step, P!Raise, P!Verify, P!Check, P!Remove, P!Count, P!Seed,
                  P!Add, P!Verified, P!Read
    <3>2. Cardinality(pool') <= Cardinality(pool) /\ Cardinality(pool') \in Nat
      BY <1>1, <3>1, FS_Subset, FS_CardinalityType
    <3>3. Cardinality(Writers') <= Cardinality(Writers)
      BY <1>1, <2>1, FS_Subset
    <3> QED
      BY <1>1, <1>2, <3>2, <3>3 DEF OvershootInv
  <2> QED
    BY <2>2, <2>3
<1> QED
  BY <1>3, <1>4

LEMMA OvershootNext == P!TypeOK /\ OvershootInv /\ [P!Next]_(P!vars) => OvershootInv'
<1> SUFFICES ASSUME P!TypeOK, OvershootInv, [P!Next]_(P!vars) PROVE OvershootInv'
  OBVIOUS
<1>1. CASE P!NewEngine \/ UNCHANGED P!vars
  <2>1. UNCHANGED <<pool, seeding>>
    BY <1>1 DEF P!NewEngine, P!vars
  <2>2. Writers' = Writers
    BY <2>1 DEF Writers, P!At
  <2> QED
    BY <2>1, <2>2 DEF OvershootInv
<1> QED
  BY <1>1, RequestKeepsOvershootInv DEF P!Next

(* No request holds a model at the start. *)
LEMMA OvershootInit ==
  ASSUME P!Init, Requests # {}, Cardinality(pool) <= PoolMax
  PROVE  OvershootInv
<1>1. Writers = {}
  BY DEF Writers, P!Init, P!At, P!Idle
<1>2. Cardinality(Writers) = 0
  BY <1>1, FS_EmptySet
<1>3. Cardinality(Requests) \in Nat /\ Cardinality(Requests) # 0
  BY RequestsAreFinite, FS_EmptySet, FS_CardinalityType
<1>4. Cardinality(pool) \in Nat /\ PoolMax \in Nat
  BY SubpoolsAreFinite, PoolsHaveRoomForSeeds DEF P!Init
<1> QED
  BY <1>2, <1>3, <1>4 DEF OvershootInv

-----------------------------------------------------------------------------
(* The theorems.                                                           *)

PartsInv == PoolsInv /\ ExecutionsInv /\ ClassesInv /\ RecordsInv /\ MonitoringInv

(* A step is one of a single part, and no step of the others.              *)
LEMMA StepOfParts ==
  [Next]_vars => /\ [P!Next]_(P!vars) /\ [X!Next]_(X!vars) /\ [C!Next]_(C!vars)
                 /\ [A!Next]_(A!vars) /\ [M!Next]_(M!vars)
<1> SUFFICES ASSUME [Next]_vars
             PROVE  /\ [P!Next]_(P!vars) /\ [X!Next]_(X!vars) /\ [C!Next]_(C!vars)
                    /\ [A!Next]_(A!vars) /\ [M!Next]_(M!vars)
  OBVIOUS
<1>1. /\ P!Next \/ UNCHANGED pvars
      /\ X!Next \/ UNCHANGED xvars
      /\ C!Next \/ UNCHANGED cvars
      /\ A!Next \/ UNCHANGED avars
      /\ M!Next \/ UNCHANGED mvars
  BY DEF Next, vars, Pools, Executing, Classifying, Recording, Monitoring
<1> QED
  BY <1>1 DEF pvars, xvars, cvars, avars, mvars, P!vars, X!vars, C!vars, A!vars, M!vars

(* The inductive invariants of the parts, from any pool and with either    *)
(* store of the limiter.                                                   *)
THEOREM PartsStaySound == FairSpec => []PartsInv
<1>1. Init => PartsInv
  BY PoolsInit, ExecutionsInit, ClassesInit, RecordsInit, MonitoringInit DEF Init, PartsInv
<1>2. PartsInv /\ [Next]_vars => PartsInv'
  BY StepOfParts, PoolsNext, ExecutionsNext, ClassesNext, RecordsNext, MonitoringNext DEF PartsInv
<1> QED
  BY <1>1, <1>2, PTL DEF FairSpec

(* The state of every part has its type: what is added fits the slots, a   *)
(* counter in memory stays at zero or above, candidates are all different, *)
(* no two rows have one id.                                                *)
THEOREM TypeCorrect == FairSpec => []TypeOK
<1>1. PartsInv => TypeOK
  BY InvTellsCounters DEF PartsInv, TypeOK, PoolsInv, ClassesInv, RecordsInv, MonitoringInv
<1> QED
  BY <1>1, PartsStaySound, PTL

(* However verify_seeded_pools_async of several requests interleave, an     *)
(* undisturbed engine that holds its pools for verified has refilled them, *)
(* with any POOL_SEED_SIZE and POOL_MAX_SIZE and for any registry.         *)
THEOREM VerificationRefills == FairSpec => []RefilledWhenVerified
<1>1. PartsInv => RefilledWhenVerified
  BY InvTellsPools DEF PartsInv
<1> QED
  BY <1>1, PartsStaySound, PTL

(* The limiter's counters follow what runs from below, through retries,    *)
(* escalations and expired keys.                                           *)
THEOREM CountersStayBelow == FairSpec => []NeverOvercounts
<1>1. PartsInv => NeverOvercounts
  BY InvTellsCounters DEF PartsInv
<1> QED
  BY <1>1, PartsStaySound, PTL

(* Who climbs the candidates of a thin pool to the end has tried the       *)
(* strongest of them, whatever is composed, preferred and passed over.     *)
THEOREM ThinChainsEndAtCeiling == FairSpec => []ThinChainEndsAtCeiling
<1>1. PartsInv => ThinChainEndsAtCeiling
  BY InvTellsCounters DEF PartsInv
<1> QED
  BY <1>1, PartsStaySound, PTL

(* No request compares its task with a part of the classes only, while     *)
(* others load what is missing or the process starts again.                *)
THEOREM MatchesCoverAllClasses == FairSpec => []MatchCoversAllClasses
<1>1. PartsInv => MatchCoversAllClasses
  BY DEF PartsInv, ClassesInv
<1> QED
  BY <1>1, PartsStaySound, PTL

(* A reviewed name does not return to the queue, by whatever step.         *)
THEOREM ReviewsAreKept == FairSpec => ReviewedStaysReviewed
<1>1. PartsInv /\ [Next]_vars =>
        [\A n \in Names : queue[n] = "reviewed" => queue'[n] # "pending"]_(C!vars)
  BY StepOfParts, ReviewsStay DEF PartsInv
<1> QED
  BY <1>1, PartsStaySound, PTL DEF FairSpec, ReviewedStaysReviewed, C!ReviewedStaysReviewed

(* The records of a call and its attempts agree, for chains of any length. *)
THEOREM RecordsStayTrue == FairSpec => []RecordsTellAttempts
<1>1. PartsInv => RecordsTellAttempts
  BY InvTellsAttempts DEF PartsInv
<1> QED
  BY <1>1, PartsStaySound, PTL

(* A row left running has lost its end, or an API client has started it,   *)
(* under an id of its own or of the routing: nothing else leaves one.      *)
THEOREM RowsAreEnded == FairSpec => []NoRowLeftRunning
<1>1. PartsInv => NoRowLeftRunning
  BY DEF PartsInv, MonitoringInv
<1> QED
  BY <1>1, PartsStaySound, PTL

(* What task_analyzer/storage.py says of its updates, that the quality is  *)
(* added "while preserving existing feedback.execution", holds as long as  *)
(* update_execution_result_async and update_quality_review_async of one    *)
(* record do not overlap: for any number of calls and analyzers, and       *)
(* however often SQLite fails.                                             *)
THEOREM LoneUpdatesPreserve == FairSpec /\ []OneUpdatePerRecord => []A!FeedbackPreserved
<1>1. Init => HalvesAreKept
  BY HalvesInit DEF Init
<1>2. PartsInv /\ HalvesAreKept /\ OneUpdatePerRecord /\ [Next]_vars => HalvesAreKept'
  BY StepOfParts, HalvesNext DEF PartsInv
<1>3. HalvesAreKept => A!FeedbackPreserved
  BY DEF HalvesAreKept, A!FeedbackPreserved
<1> QED
  BY <1>1, <1>2, <1>3, PartsStaySound, PTL DEF FairSpec

(* Requests that seed at once check for room and write apart, so the pool  *)
(* may pass POOL_MAX_SIZE, but by fewer models than there are requests:    *)
(* one request alone never passes it.                                      *)
THEOREM SeedingOvershootIsBounded ==
  FairSpec /\ Requests # {} /\ Cardinality(pool) <= PoolMax =>
    [](Cardinality(pool) < PoolMax + Cardinality(Requests))
<1>1. Init /\ Requests # {} /\ Cardinality(pool) <= PoolMax => OvershootInv
  BY OvershootInit DEF Init
<1>2. PartsInv /\ OvershootInv /\ [Next]_vars => OvershootInv'
  BY StepOfParts, OvershootNext DEF PartsInv, PoolsInv
<1>3. PartsInv /\ OvershootInv => Cardinality(pool) < PoolMax + Cardinality(Requests)
  <2> SUFFICES ASSUME PartsInv, OvershootInv
               PROVE  Cardinality(pool) < PoolMax + Cardinality(Requests)
    OBVIOUS
  <2>1. Cardinality(pool) \in Nat /\ PoolMax \in Nat
    BY SubpoolsAreFinite, PoolsHaveRoomForSeeds DEF PartsInv, PoolsInv, P!TypeOK
  <2> QED
    BY <2>1, WritersAreFinite DEF OvershootInv
<1> QED
  BY <1>1, <1>2, <1>3, PartsStaySound, PTL DEF FairSpec
=============================================================================
