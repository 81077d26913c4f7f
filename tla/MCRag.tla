-------------------------------- MODULE MCRag --------------------------------
(* The parts of retrieval on small instances: the embedder's breaker, the    *)
(* example store with its watcher, the embedding cache, the index, and       *)
(* retrievals beside a changing store; a behaviour is about one of them.     *)
EXTENDS Breaker, Sequences, SequencesExt, TLC

CONSTANTS
  Paths, Indexable, Base, Chunks, Models, IndexThreshold, MaxChanges, MaxEvents, MaxFaults,  \* store
  Callers, Keys, BatchOf, MaxEntries, MaxExpiries,                             \* cache
  Points, EfConstruction, EfSearch, MaxLayer, MaxSize,                         \* index
  Readers, Files, Versions, Similarity, Terms, Least, Wanted, Room, MaxUpdates \* retrievals

VARIABLES
  focus,
  dir, rows, saved, examples, index, model, mixed, watcher, known, seen, todo, forgotten,
  changes, faults, starts,
  lru, loading, slot, cpc, asks, waits, missing, got, expiries,
  graph, draws,
  array, length, indexed, inverted, updates, how, at, found, view, idx, hit, since, given

\* Two files of the same base name; versions of two chunks and of one.
Bases == [p \in {"a/x", "b/x"} |-> [name |-> "x", order |-> IF p = "a/x" THEN 1 ELSE 2]]
ChunkCounts == [v \in 0..MaxChanges |-> CASE v = 0 -> 0 [] v = 1 -> 2 [] OTHER -> 1]
Batch == <<"t1", "t2", "t3">>

\* Versions by rising similarity to the prompt and falling number of its words.
Similarities == [v \in Versions |-> v]
TermCounts == [v \in Versions |-> Cardinality(Versions) - v]

Store == INSTANCE RAGStore WITH pc <- watcher
Cache == INSTANCE EmbedCache
Graph == INSTANCE HNSW WITH M <- 1
Read == INSTANCE Retrieval WITH count <- found, Threshold <- Least, K <- Wanted

ASSUME RagAssumption == Store!StoreAssumption /\ Read!ReadAssumption

storeVars == <<dir, rows, saved, examples, index, model, mixed, watcher, known, seen, todo, forgotten,
               changes, faults, starts>>
cacheVars == <<lru, loading, slot, cpc, asks, waits, missing, got, expiries>>
graphVars == <<graph, draws>>
readVars == <<array, length, indexed, inverted, updates, how, at, found, view, idx, hit, since, given>>
allVars == <<focus, vars, storeVars, cacheVars, graphVars, readVars>>

MCInit ==
  /\ focus \in {"breaker", "store", "cache", "index", "read"}
  /\ Init /\ (focus # "breaker" => up)
  /\ Store!RagInit /\ (focus # "store" => dir = [p \in Paths |-> 0])
  /\ Cache!CacheInit
  /\ Graph!HNSWInit /\ (focus # "index" => draws = [n \in 1..MaxSize |-> 0])
  /\ Read!RetrievalInit /\ (focus # "read" => length = 0 /\ how = [r \in Readers |-> "single"])

MCNext ==
  /\ UNCHANGED focus
  /\ \/ focus = "breaker" /\ Next /\ UNCHANGED <<storeVars, cacheVars, graphVars, readVars>>
     \* The embedders' models are alike: let the first server run the first of them.
     \/ focus = "store" /\ Store!RagNext /\ (starts = 0 => model' = model)
        /\ UNCHANGED <<vars, cacheVars, graphVars, readVars>>
     \/ focus = "cache" /\ Cache!CacheNext /\ UNCHANGED <<vars, storeVars, graphVars, readVars>>
     \/ focus = "index" /\ Graph!HNSWNext /\ UNCHANGED <<vars, storeVars, cacheVars, readVars>>
     \/ focus = "read" /\ Read!RetrievalNext /\ UNCHANGED <<vars, storeVars, cacheVars, graphVars>>

\* Goroutines run to the end of their calls, time passes, embedders are asked again, the
\* watcher's ticker fires and a stopped server is started again.
MCSpec ==
  /\ MCInit /\ [][MCNext]_allVars
  /\ \A u \in Users : WF_vars(focus = "breaker" /\ Proceed(u))
  /\ \A u \in Embedders : WF_vars(focus = "breaker" /\ Ask(u))
  /\ WF_vars(focus = "breaker" /\ Elapse)
  /\ WF_storeVars(focus = "store" /\ Store!Scanning)
  /\ WF_storeVars(focus = "store" /\ \E m \in Models : Store!Start(m, {}))
  /\ \A c \in Callers : WF_cacheVars(focus = "cache" /\ Cache!Inner(c))
                        /\ WF_cacheVars(focus = "cache" /\ Cache!Receive(c))

\* A service that stays down opens the breaker (health/breaker.go:64-122).
OutageNoticed == focus = "breaker" => DownIsNoticed

\* The rows, the examples and the index of the store agree (rag/sqlite.go, rag/rag.go).
StoreSound == Store!StoreSound

\* A directory left alone is what the store holds in the end (rag/watcher.go).
Converges == Store!Converges

\* The embedding cache is bounded, its slots have loaders, callers get their own vectors,
\* and whoever waits for a loader returns (rag/rag.go:179-404).
EmbedCacheSound == [](focus = "cache" => Cache!CacheSound) /\ Cache!WaitersReturn

\* A query of a small index is exact, and a restored index is the one that was saved.
IndexSound == []Graph!SearchSound /\ Graph!RestoredSame

\* Undisturbed retrievals are exact.
RetrievalExact == Read!RetrievalExact

\* The hybrid search weighs similarity and keywords against each other.
HybridBlends == Read!HybridBlends
==============================================================================
