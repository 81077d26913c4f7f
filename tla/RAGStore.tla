------------------------------ MODULE RAGStore ------------------------------
(* The few-shot store of internal/rag: the examples in memory, the SQLite  *)
(* table behind them, the HNSW index over them, and the watcher that keeps *)
(* both equal to the examples directory (rag.go, sqlite.go, watcher.go),   *)
(* with embedding and database failures, crashes and restarts.             *)
(*                                                                         *)
(* A version stands for the content of a file together with its mtime and  *)
(* size: a write makes a new one, a rename keeps it.  A chunk's text is    *)
(* its version and its number; its vector is a function of its text.       *)
EXTENDS Naturals, Sequences, FiniteSets, SequencesExt

CONSTANTS
  Paths,          \* in the order of sort.Strings
  Indexable,      \* the paths FileFilter and the symlink checks let through
  Base,           \* path -> filepath.Base
  Chunks,         \* version -> number of chunks of chunkFile
  Models,         \* embedder models a restart may choose from
  IndexThreshold, \* examples needed before the HNSW index is used
  MaxChanges, MaxEvents, MaxFaults  \* bounds on changes and starts together, and on failures

VARIABLES
  dir,       \* path -> version, 0 when there is no such file
  rows,      \* rag_examples: [file, chunk, v, model, blob]
  saved,     \* the texts of the index that Close wrote into the blobs
  examples,  \* Store.examples: sequence of [file, chunk, v]
  index,     \* Store.index: [from, of], from = "nil" when there is none
  model,     \* model of the running embedder
  mixed,     \* did the last start pass over rows of its model for those of another?
  pc,        \* of the watcher goroutine: "down", "idle", "sweep", "index"
  known,     \* Watcher.known: path -> version of the snapshot, 0 if absent
  seen,      \* the scan's snapshot of the directory
  todo,      \* paths the current pass still has to look at
  forgotten, \* paths whose stored chunks may not be of the known snapshot
  changes, faults, starts

storeVars == <<rows, saved, examples, index, model, mixed>>
watchVars == <<pc, known, seen, todo, forgotten>>
ragVars == <<dir, storeVars, watchVars, changes, faults, starts>>

\* What stops is started again: only stops and changes are bounded, and a start to come
\* is among them.
EventsLeft == changes + starts + (IF pc = "down" THEN 1 ELSE 0) < MaxEvents

\* Paths have places of their own in the order, and the versions there will be have chunks.
StoreAssumption ==
  /\ IsFiniteSet(Paths) /\ Indexable \subseteq Paths /\ MaxChanges \in Nat
  /\ \A p \in Paths : Base[p].order \in 1..MaxChanges
  /\ \A p, q \in Paths : Base[p].order = Base[q].order => p = q
  /\ \A v \in 0..MaxChanges : Chunks[v] \in Nat

Ex(r) == [file |-> r.file, chunk |-> r.chunk, v |-> r.v]
Texts(exs) == [i \in 1..Len(exs) |-> <<exs[i].v, exs[i].chunk>>]
Absent == [p \in Paths |-> 0]
Nil == [from |-> "nil", of |-> <<>>]

\* The examples of one file, in the order of its chunks.
Pieces(p, v) == [i \in 1..Chunks[v] |-> [file |-> p, chunk |-> i, v |-> v]]

rebuildIndex(exs) ==
  IF Len(exs) < IndexThreshold THEN Nil ELSE [from |-> "built", of |-> Texts(exs)]

SameKey(x, y) == x.file = y.file /\ x.chunk = y.chunk

\* The elements of s at some of its places, in their order.
Those(s, places) ==
  [k \in 1..Cardinality(places) |->
     s[CHOOSE i \in places : Cardinality({j \in places : j < i}) = k - 1]]

\* upsertExample for each of news, no two of which have the same key: what has its key is
\* replaced in place, the others are appended.
Put(exs, news) ==
  LET new(i) == ~\E x \in ToSet(exs) : SameKey(x, news[i])
  IN [i \in 1..Len(exs) |-> IF \E x \in ToSet(news) : SameKey(x, exs[i])
                           THEN CHOOSE x \in ToSet(news) : SameKey(x, exs[i]) ELSE exs[i]]
       \o Those(news, {i \in 1..Len(news) : new(i)})

\* removeExample: the examples of other files.
Kept(exs, gone) == Those(exs, {i \in 1..Len(exs) : exs[i].file \notin gone})

BugUpsert(rs, exs, m) ==
  rs \cup {[file |-> ex.file, chunk |-> ex.chunk, v |-> ex.v, model |-> m, blob |-> FALSE] :
             ex \in {x \in ToSet(exs) : ~\E r \in rs : SameKey(r, x)}}

\* The rows after an Upsert of each example under model m; INSERT ... ON CONFLICT DO UPDATE
\* leaves the hnsw_index of an existing row alone.
Upsert(rs, exs, m) ==
  {r \in rs : ~\E ex \in ToSet(exs) : SameKey(r, ex)} \cup
    {[file |-> ex.file, chunk |-> ex.chunk, v |-> ex.v, model |-> m,
      blob |-> \E r \in rs : SameKey(r, ex) /\ r.blob] : ex \in ToSet(exs)}

\* Examples by file and chunk, the order of the SELECT and of the walk of a directory.
Precedes(x, y) ==
  Base[x.file].order < Base[y.file].order \/ (x.file = y.file /\ x.chunk < y.chunk)

InOrder(S) ==
  [k \in 1..Cardinality(S) |->
     CHOOSE x \in S : Cardinality({y \in S : Precedes(y, x)}) = k - 1]

-----------------------------------------------------------------------------
RagInit ==
  /\ dir \in {d \in [Paths -> 0..Cardinality(Paths)] : \A p \in Paths : d[p] \in {0, Base[p].order}}
  /\ changes = Cardinality(Paths)
  /\ rows = {} /\ saved = <<>> /\ examples = <<>> /\ index = Nil
  /\ model = (CHOOSE m \in Models : TRUE) /\ mixed = FALSE
  /\ pc = "down" /\ known = Absent /\ seen = Absent /\ todo = {} /\ forgotten = {}
  /\ faults = 0 /\ starts = 0

\* The rows of the SELECT, if all of them are of the embedder's model.
Load(m) == IF \E r \in rows : r.model # m THEN <<>> ELSE InOrder({Ex(r) : r \in rows})

\* The stored blob wins over the index replace has just built.
restoreIndex(exs) ==
  IF exs # <<>> /\ \E r \in rows : r.blob
  THEN [from |-> "blob", of |-> saved] ELSE rebuildIndex(exs)

\* What IndexDir upserts of the directory, less the chunks that fail to embed.
Collected(failed) ==
  LET there == {p \in Indexable : dir[p] # 0}
  IN InOrder({ex \in UNION {ToSet(Pieces(p, dir[p])) : p \in there} : <<ex.file, ex.chunk>> \notin failed})

\* buildRAGStore: open, LoadOrIndex, start the watcher with nothing known.
Start(m, failed) ==
  /\ pc = "down" /\ starts' = starts + 1
  /\ failed # {} => faults < MaxFaults
  /\ faults' = IF failed = {} THEN faults ELSE faults + 1
  /\ model' = m
  /\ mixed' = ((\E r \in rows : r.model = m) /\ \E r \in rows : r.model # m)
  /\ LET loaded == Load(m)
         collected == Collected(failed)
     IN IF loaded # <<>>
        THEN /\ examples' = loaded /\ index' = restoreIndex(loaded) /\ UNCHANGED rows
        ELSE examples' = Put(<<>>, collected) /\ rows' = Upsert(rows, collected, m) /\ index' = Nil
  /\ pc' = "idle" /\ known' = Absent /\ forgotten' = {}
  /\ UNCHANGED <<dir, saved, seen, todo, changes>>

Gone == /\ pc' = "down" /\ examples' = <<>> /\ index' = Nil
        /\ known' = Absent /\ seen' = Absent /\ todo' = {} /\ forgotten' = {}
        /\ UNCHANGED <<dir, model, mixed, changes, faults, starts>>

\* Close saves the index into every row, building it if it has been dropped.
Close ==
  /\ pc # "down" /\ EventsLeft
  /\ LET idx == IF index.from = "nil" THEN rebuildIndex(examples) ELSE index
     IN IF idx.from = "nil" THEN UNCHANGED <<rows, saved>>
        ELSE saved' = idx.of /\ rows' = {[r EXCEPT !.blob = TRUE] : r \in rows}
  /\ Gone

Crash == pc # "down" /\ EventsLeft /\ Gone /\ UNCHANGED <<rows, saved>>

-----------------------------------------------------------------------------
(* The watcher's passes over the directory.                                *)

\* A tick or an event: the directory is read, and what is known but gone comes first.
scanOnce ==
  /\ pc = "idle" /\ pc' = "sweep"
  /\ seen' = [p \in Paths |-> IF p \in Indexable THEN dir[p] ELSE 0]
  /\ todo' = {p \in Paths : known[p] # 0 /\ seen'[p] = 0}
  /\ UNCHANGED <<dir, storeVars, known, forgotten, changes, faults, starts>>

\* PersistentStore.Remove
RemoveFile(p) ==
  /\ rows' = {r \in rows : r.file # p}
  /\ examples' = Kept(examples, {p}) /\ index' = Nil

\* UPDATE ... SET filename violates the primary key when the target has the chunk.
Collides(p, q) ==
  \E r, s \in rows : r.file = p /\ s.file = q /\ r.chunk = s.chunk

MoveFile(p, q) ==
  /\ rows' = {IF r.file = p THEN [r EXCEPT !.file = q] ELSE r : r \in rows}
  /\ examples' = [i \in 1..Len(examples) |->
                    IF examples[i].file = p THEN [examples[i] EXCEPT !.file = q] ELSE examples[i]]
  /\ index' = Nil

\* indexFile after its Remove: the first n chunks are stored, then one fails to embed.
Reindex(gone, p, n) ==
  LET pieces == SubSeq(Pieces(p, dir[p]), 1, n)
  IN /\ rows' = Upsert({r \in rows : r.file \notin gone}, pieces, model)
     /\ examples' = Put(Kept(examples, gone), pieces)
     /\ index' = Nil

First(S) == CHOOSE p \in S : \A q \in S : Base[p].order <= Base[q].order
Matches(p) == {q \in Paths : seen[q] = known[p] /\ Base[q].name = Base[p].name}

Faulty(b) == /\ b => faults < MaxFaults
             /\ faults' = IF b THEN faults + 1 ELSE faults

SweepMove(p, q) ==
  /\ ~Collides(p, q) /\ MoveFile(p, q)
  /\ known' = [known EXCEPT ![p] = 0, ![q] = known[p]]
  /\ forgotten' = IF p \in forgotten \/ \E r \in rows : r.file = q
                 THEN forgotten \cup {q} ELSE forgotten
  /\ UNCHANGED faults

\* The move failed: remove the old name, trust the snapshot, index the new name.
SweepFallback(p, q) ==
  \E broken \in BOOLEAN, n \in 0..Chunks[dir[q]] :
    /\ broken \/ Collides(p, q)
    /\ Faulty(broken \/ n < Chunks[dir[q]])
    /\ IF dir[q] = 0 THEN RemoveFile(p) ELSE Reindex({p, q}, q, n)
    /\ known' = [known EXCEPT ![p] = 0, ![q] = known[p]]
    /\ forgotten' = IF n < Chunks[dir[q]] \/ dir[q] # known[p]
                   THEN forgotten \cup {q} ELSE forgotten \ {q}

SweepRemove(p) ==
  \E broken \in BOOLEAN :
    /\ Faulty(broken)
    /\ IF broken THEN UNCHANGED <<rows, examples, index, known>>
       ELSE RemoveFile(p) /\ known' = [known EXCEPT ![p] = 0]
    /\ UNCHANGED forgotten

Sweep ==
  /\ pc = "sweep" /\ todo # {}
  /\ LET p == First(todo)
     IN /\ todo' = todo \ {p}
        /\ IF Matches(p) = {} THEN SweepRemove(p)
           ELSE \E q \in Matches(p) : SweepMove(p, q) \/ SweepFallback(p, q)
  /\ UNCHANGED <<dir, saved, model, mixed, pc, seen, changes, starts>>

SweepEnds ==
  /\ pc = "sweep" /\ todo = {} /\ pc' = "index"
  /\ todo' = {p \in Paths : seen[p] # 0 /\ seen[p] # known[p]}
  /\ UNCHANGED <<dir, storeVars, known, seen, forgotten, changes, faults, starts>>

BugIndexFile ==
  /\ pc = "index"
  /\ \E p \in todo : \E n \in 0..Chunks[dir[p]] :
       /\ todo' = todo \ {p}
       /\ dir[p] # 0 /\ Faulty(n < Chunks[dir[p]]) /\ Reindex({p}, p, n)
       /\ known' = [known EXCEPT ![p] = seen[p]]
       /\ forgotten' = IF dir[p] = seen[p] THEN forgotten \ {p} ELSE forgotten \cup {p}
  /\ UNCHANGED <<dir, saved, model, mixed, pc, seen, changes, starts>>

\* A file that is new or changed: read now, known by the snapshot of the scan.
indexFile ==
  /\ pc = "index"
  /\ \E p \in todo : \E broken \in BOOLEAN, n \in 0..Chunks[dir[p]] :
       /\ todo' = todo \ {p}
       /\ IF dir[p] = 0 \/ broken
          THEN Faulty(broken) /\ UNCHANGED <<rows, examples, index, known, forgotten>>
          ELSE /\ Faulty(n < Chunks[dir[p]]) /\ Reindex({p}, p, n)
               /\ known' = IF n < Chunks[dir[p]] THEN known ELSE [known EXCEPT ![p] = seen[p]]
               /\ forgotten' = IF n = Chunks[dir[p]] /\ dir[p] = seen[p]
                              THEN forgotten \ {p} ELSE forgotten \cup {p}
  /\ UNCHANGED <<dir, saved, model, mixed, pc, seen, changes, starts>>

ScanEnds ==
  /\ pc = "index" /\ todo = {} /\ pc' = "idle" /\ seen' = Absent
  /\ UNCHANGED <<dir, storeVars, known, todo, forgotten, changes, faults, starts>>

\* A retrieval of a request rebuilds the index it needs.
maybeRebuildIndex ==
  /\ pc # "down" /\ index.from = "nil" /\ index' = rebuildIndex(examples)
  /\ UNCHANGED <<dir, rows, saved, examples, model, mixed, watchVars, changes, faults, starts>>

-----------------------------------------------------------------------------
(* The examples directory, changed by its users at any time.               *)
ChangeDir(d) == /\ changes < MaxChanges /\ EventsLeft /\ dir' = d /\ changes' = changes + 1
                /\ UNCHANGED <<storeVars, watchVars, faults, starts>>
Write(p) == ChangeDir([dir EXCEPT ![p] = changes + 1])
Delete(p) == dir[p] # 0 /\ ChangeDir([dir EXCEPT ![p] = 0])
Rename(p, q) == dir[p] # 0 /\ p # q /\ ChangeDir([dir EXCEPT ![p] = 0, ![q] = dir[p]])

RagNext ==
  \/ \E m \in Models, failed \in SUBSET {<<p, 1>> : p \in Paths} : Start(m, failed)
  \/ Close \/ Crash \/ scanOnce \/ Sweep \/ SweepEnds \/ indexFile \/ ScanEnds
  \/ maybeRebuildIndex
  \/ \E p, q \in Paths : Write(p) \/ Delete(p) \/ Rename(p, q)

RagSpec == RagInit /\ [][RagNext]_ragVars

Scanning == scanOnce \/ Sweep \/ SweepEnds \/ indexFile \/ ScanEnds

-----------------------------------------------------------------------------
\* Memory and table agree: every example in memory is a row of the current model, once,
\* and every such row is in memory, whatever failed on the way.  The exception are rows
\* of the model that a start passed over because there were rows of another, and did not
\* write again.
StoreAgrees ==
  pc # "down" =>
    LET current == {Ex(r) : r \in {s \in rows : s.model = model}}
    IN /\ ToSet(examples) \subseteq current /\ (~mixed => current \subseteq ToSet(examples))
       /\ Cardinality(ToSet(examples)) = Len(examples)

\* An index a retrieval may use, unless it came from a saved blob, numbers
\* the texts exactly as the examples do, so that its ids name what it found.
IndexFaithful ==
  index.from = "built" /\ Len(index.of) >= Len(examples) => index.of = Texts(examples)

\* The rows, the examples and the index agree.
StoreSound == StoreAgrees /\ IndexFaithful

\* Once the directory, the failures and the restarts come to an end, every
\* indexable file is in the store with exactly its present chunks and the
\* watcher knows no file that is gone.  The exceptions are files the watcher
\* wrongly takes for current: one whose fallback after a failed move failed,
\* one moved onto a path with left-over rows, and one put back by renames just
\* as it was when the scan listed it.
Converges ==
  <>[](/\ \A p \in Indexable : dir[p] # 0 /\ ~(p \in forgotten /\ known[p] = dir[p]) =>
            {ex \in ToSet(examples) : ex.file = p} = ToSet(Pieces(p, dir[p]))
       /\ \A p \in Paths : known[p] # 0 => dir[p] # 0)
=============================================================================
