------------------------------ MODULE Retrieval ------------------------------
(***************************************************************************)
(* Retrieve, RetrieveTopK and retrieveHybrid of internal/rag/rag.go next   *)
(* to the watcher that changes the examples: how many there are is read    *)
(* under one lock, the slice and the index under a second, the scores      *)
(* under a third, and the handler reads the example found under none.      *)
(*                                                                         *)
(* s.examples is a slice: `array' is what it points to and `length' how    *)
(* much of it is in use.  Replacing, renaming and removing happen in       *)
(* place, and appending while there is room; a slice that outgrows its     *)
(* array, which would leave readers with the old one, is left out.  An     *)
(* example is a file and a version of its content, with a similarity and   *)
(* a number of query terms for the one prompt there is.  The index finds   *)
(* every position it knows (HNSW!SearchSound, stores of up to efSearch).   *)
(***************************************************************************)
EXTENDS Integers, Sequences, SequencesExt, FiniteSetsExt

CONSTANTS
    Readers, Files, Versions,
    Similarity, Terms,      \* of a version
    Threshold,              \* of similarity
    IndexThreshold,         \* examples needed for the index
    K,                      \* RAGTopK
    Room,                   \* capacity of the array
    MaxUpdates              \* bound on the watcher's changes

VARIABLES
    array, length,
    indexed,                \* positions in s.index, 0 when it is nil
    inverted,               \* position -> query terms, of the inverted index; <<>> for nil
    updates,                \* changes of the watcher so far
    how,                    \* "single", "topk" or "hybrid", for each reader
    at,                     \* where a reader is
    count, view, idx,       \* n, the length of the slice and the index it saw
    hit,                    \* position returned, 0 for none; copies, for top-k
    since,                  \* updates when it started, and when it scored
    given                   \* what was injected: <<file, version>> pairs

readVars == <<how, at, count, view, idx, hit, since, given>>
retrievalVars == <<array, length, indexed, inverted, updates, readVars>>

\* Similarities are numbers, and 0 is no version.
ReadAssumption ==
    /\ Versions \subseteq Nat \ {0} /\ Similarity \in [Versions -> Int]
    /\ Threshold \in Int /\ IndexThreshold \in Nat /\ K \in Nat /\ Room \in Nat

Nothing == [file |-> "", v |-> 0]
Score(i) == IF array[i].v = 0 THEN 0 ELSE Similarity[array[i].v]

RetrievalInit ==
    /\ \E n \in 0..Room : \E f \in [1..n -> Files], v \in [1..n -> Versions] :
          /\ IsInjective(f) /\ length = n
          /\ array = [i \in 1..Room |-> IF i <= n THEN [file |-> f[i], v |-> v[i]] ELSE Nothing]
    /\ indexed = IF length < IndexThreshold THEN 0 ELSE length
    /\ inverted = [i \in 1..length |-> Terms[array[i].v]]
    /\ updates = 0
    /\ how \in [Readers -> {"single", "topk", "hybrid"}]
    /\ at = [r \in Readers |-> "idle"]
    /\ count = [r \in Readers |-> 0] /\ view = [r \in Readers |-> 0] /\ idx = [r \in Readers |-> 0]
    /\ hit = [r \in Readers |-> <<>>] /\ since = [r \in Readers |-> <<0, 0>>]
    /\ given = [r \in Readers |-> <<>>]

Goto(r, here, there) == at[r] = here /\ at' = [at EXCEPT ![r] = there]

\* The number of examples; none ends the retrieval.
Begin(r) ==
    /\ Goto(r, "idle", IF length = 0 THEN "done" ELSE "embed")
    /\ count' = [count EXCEPT ![r] = length]
    /\ since' = [since EXCEPT ![r] = <<updates, updates>>]
    /\ UNCHANGED <<array, length, indexed, inverted, updates, how, view, idx, hit, given>>

\* The prompt is embedded, or not.
Embed(r) ==
    /\ Goto(r, "embed", "rebuild") \/ Goto(r, "embed", "done")
    /\ UNCHANGED <<array, length, indexed, inverted, updates, how, count, view, idx, hit, since, given>>

\* maybeRebuildIndex.
Rebuild(r) ==
    /\ Goto(r, "rebuild", "look")
    /\ indexed' = IF indexed = 0 /\ length >= IndexThreshold THEN length ELSE indexed
    /\ UNCHANGED <<array, length, inverted, updates, how, count, view, idx, hit, since, given>>

\* The slice and, when it is large enough, the index.
Look(r) ==
    /\ Goto(r, "look", "score")
    /\ view' = [view EXCEPT ![r] = length]
    /\ idx' = [idx EXCEPT ![r] = IF count[r] >= IndexThreshold /\ indexed >= count[r] THEN indexed ELSE 0]
    /\ UNCHANGED <<array, length, indexed, inverted, updates, how, count, hit, since, given>>

\* Positions that are scored: of the index within the slice seen, or of a slice.
Candidates(r) ==
    IF idx[r] # 0 THEN 1..Min({idx[r], view[r]})
    ELSE IF how[r] = "hybrid" THEN 1..view[r] ELSE 1..length

\* BM25Score reads s.examples[docID], where the slice may have become shorter.
Panics(r) ==
    /\ how[r] = "hybrid" /\ inverted # <<>> /\ length > 0
    /\ \E i \in Candidates(r) : i > length

Keyword(i) == IF i \in DOMAIN inverted THEN inverted[i] ELSE 0

\* retrieveHybrid's choice.  Both ranks are taken from the order by keyword, because the
\* second sort moves the candidates under the first ranks.
HybridBest(r) ==
    {i \in Candidates(r) : \A j \in Candidates(r) : Keyword(j) <= Keyword(i)}

\* Retrieve's: the first of the highest similarity.
Best(r) ==
    {i \in Candidates(r) : \A j \in Candidates(r) : Score(j) < Score(i) \/ (Score(j) = Score(i) /\ i <= j)}

\* The order candidates are collected in, without the sort.
BugBetter(i, j) == i < j

\* The sort's: by descending similarity.
Better(i, j) == Score(i) > Score(j) \/ (Score(i) = Score(j) /\ i < j)

BySimilarity(I) ==
    [k \in 1..Cardinality(I) |-> CHOOSE i \in I : Cardinality({j \in I : Better(j, i)}) = k - 1]

\* RetrieveTopK's: those above the threshold, by descending similarity, K at most.
TopK(r) ==
    LET above == BySimilarity({i \in Candidates(r) : Score(i) > Threshold})
    IN  SubSeq(above, 1, Min({K, Len(above)}))

\* Scoring, under the read lock.  Top-k copies the examples, the others return a pointer
\* into the array.
Scored(r) ==
    /\ ~Panics(r)
    /\ \/ /\ how[r] = "topk"
          /\ hit' = [hit EXCEPT ![r] = TopK(r)]
          /\ given' = [given EXCEPT ![r] = [n \in DOMAIN TopK(r) |-> array[TopK(r)[n]]]]
          /\ Goto(r, "score", "done")
       \/ /\ how[r] # "topk" /\ UNCHANGED given
          /\ \E i \in (IF how[r] = "hybrid" THEN HybridBest(r) ELSE Best(r)) :
                IF Score(i) > Threshold
                THEN hit' = [hit EXCEPT ![r] = <<i>>] /\ Goto(r, "score", "label")
                ELSE UNCHANGED hit /\ Goto(r, "score", "done")
       \/ /\ how[r] # "topk" /\ Candidates(r) = {}
          /\ UNCHANGED <<hit, given>> /\ Goto(r, "score", "done")
    /\ since' = [since EXCEPT ![r] = <<@[1], updates>>]
    /\ UNCHANGED <<array, length, indexed, inverted, updates, how, count, view, idx>>

\* An index out of range: the handler's goroutine panics.
Panic(r) ==
    /\ Panics(r) /\ Goto(r, "score", "panicked")
    /\ UNCHANGED <<array, length, indexed, inverted, updates, how, count, view, idx, hit, since, given>>

\* FormatInjection, in the handler: the file name through the pointer...
Label(r) ==
    /\ Goto(r, "label", "quote")
    /\ given' = [given EXCEPT ![r] = <<[file |-> array[hit[r][1]].file, v |-> 0]>>]
    /\ UNCHANGED <<array, length, indexed, inverted, updates, how, count, view, idx, hit, since>>

\* ...and then the content.
Quote(r) ==
    /\ Goto(r, "quote", "done")
    /\ given' = [given EXCEPT ![r][1].v = array[hit[r][1]].v]
    /\ UNCHANGED <<array, length, indexed, inverted, updates, how, count, view, idx, hit, since>>

-----------------------------------------------------------------------------
\* The watcher.  Every change drops the index and leaves the inverted index alone.
Change == updates < MaxUpdates /\ updates' = updates + 1 /\ UNCHANGED <<inverted, readVars>>

upsertExample(f, v) ==
    /\ Change /\ indexed' = 0
    /\ LET same == {i \in 1..length : array[i].file = f}
           i == IF same = {} THEN length + 1 ELSE Min(same)
       IN  /\ i <= Room
           /\ array' = [array EXCEPT ![i] = [file |-> f, v |-> v]]
           /\ length' = Max({length, i})

\* A file has one example here: those behind it move up, and what was last stays in the
\* array behind the slice.
removeExample(f) ==
    /\ Change /\ indexed' = 0
    /\ \E p \in 1..length :
          /\ array[p].file = f
          /\ array' = [i \in 1..Room |-> IF i \in p..(length - 1) THEN array[i + 1] ELSE array[i]]
    /\ length' = length - 1

moveExample(f, g) ==
    /\ Change /\ indexed' = 0
    /\ f # g /\ \E i \in 1..length : array[i].file = f
    /\ \A i \in 1..length : array[i].file # g
    /\ array' = [i \in 1..Room |-> IF i <= length /\ array[i].file = f THEN [array[i] EXCEPT !.file = g] ELSE array[i]]
    /\ UNCHANGED length

Watcher == \E f \in Files :
    (\E v \in Versions : upsertExample(f, v)) \/ removeExample(f) \/ \E g \in Files : moveExample(f, g)

Reading(r) ==
    Begin(r) \/ Embed(r) \/ Rebuild(r) \/ Look(r) \/ Scored(r) \/ Panic(r) \/ Label(r) \/ Quote(r)

RetrievalNext == (\E r \in Readers : Reading(r)) \/ Watcher

RetrievalSpec == RetrievalInit /\ [][RetrievalNext]_retrievalVars

-----------------------------------------------------------------------------
Ended(r) == at[r] = "done" /\ view[r] # 0

\* What there is to find.
Above == {i \in 1..length : Score(i) > Threshold}

\* A retrieval during which nothing changed (rag.go:1179-1196, 1400-1404): it gives what
\* the whole store has to offer, whether it went through the index or not, and however
\* often the store had changed before.  Retrieve gives the most similar example above the
\* threshold, RetrieveTopK the K most similar, each once; the hybrid search nothing at
\* or below the threshold.  One during which something changed gives no more than K.
Exact(r) ==
    /\ Len(given[r]) <= IF how[r] = "topk" THEN K ELSE 1
    /\ since[r][1] = updates =>
          /\ \A n \in DOMAIN given[r] : \E i \in Above : given[r][n] = array[i]
          /\ IsInjective(given[r])
          /\ how[r] # "hybrid" =>
                /\ Len(given[r]) = Min({Cardinality(Above), IF how[r] = "topk" THEN K ELSE 1})
                /\ \A i \in Above : \A n \in DOMAIN given[r] :
                      given[r][n] = array[i] \/ Similarity[given[r][n].v] >= Score(i)
                                             \/ \E m \in 1..(n - 1) : given[r][m] = array[i]

RetrievalExact == \A r \in Readers : Ended(r) => Exact(r)

\* retrieveHybrid "blend[s] semantic and keyword scores via RRF" (rag.go:1231) with equal
\* weights: an example that is first in similarity is not passed over for one that is
\* behind it there by more than it is ahead in keywords.
HybridBlends ==
    \A r \in Readers : how[r] = "hybrid" /\ at[r] = "label" /\ since[r][1] = updates =>
        LET Rank(S(_), i) == 1 + Cardinality({j \in 1..length : S(j) > S(i)})
        IN  \A i \in 1..length : Rank(Score, i) + Rank(Keyword, i)
                                  >= Rank(Score, hit[r][1]) + Rank(Keyword, hit[r][1])
=============================================================================
