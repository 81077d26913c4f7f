----------------------------- MODULE Rag_proofs -----------------------------
(***************************************************************************)
(* Proofs about what a retrieval rests on: the embedder's breaker, for any *)
(* number of goroutines and any threshold; the embedding cache, for any    *)
(* callers and texts; the rows, the examples and the index of the example  *)
(* store, for any files and embedders; and retrievals beside a changing    *)
(* store, for any readers, files and capacity.                             *)
(***************************************************************************)
EXTENDS MCRag, FiniteSetTheorems, WellFoundedInduction, TLAPS

-----------------------------------------------------------------------------
(* The breaker.  HalfOpenOwned is inductive together with the types: the   *)
(* goroutine that moved the breaker to half-open is the one that has to    *)
(* move it on.                                                             *)

\* The initial states are well typed.
LEMMA BreakerInitTypes == Init => TypeOK
BY DEF Init, TypeOK, States, Deadlines, Positions

\* Every atomic operation of every goroutine keeps the types.
LEMMA BreakerStepTypes == TypeOK /\ [Next]_vars => TypeOK'
<1> SUFFICES ASSUME TypeOK, [Next]_vars PROVE TypeOK'
  OBVIOUS
<1> USE DEF TypeOK, Positions, InIsOpen, InFailure, InSuccess, Goto, shared
<1>1. ASSUME NEW u \in Users, Ask(u) \/ RetrievalHit(u) PROVE TypeOK'
  BY <1>1 DEF Ask, RetrievalHit
<1>2. ASSUME NEW u \in Users, LoadState(u) \/ LoadDeadline(u) PROVE TypeOK'
  BY <1>2 DEF LoadState, LoadDeadline, Admitted, States
<1>3. ASSUME NEW u \in Users, HalfOpen(u) PROVE TypeOK'
  BY <1>3 DEF HalfOpen, States
<1>4. ASSUME NEW u \in Users, ClearCount(u) \/ ClearDeadline(u) PROVE TypeOK'
  BY <1>4 DEF ClearCount, ClearDeadline, Admitted, Deadlines
<1>5. ASSUME NEW u \in Users, Embed(u) \/ AddFailure(u) \/ CheckTrip(u)
      PROVE  TypeOK'
  BY <1>5 DEF Embed, AddFailure, CheckTrip
<1>6. ASSUME NEW u \in Users, Arm(u) PROVE TypeOK'
  BY <1>6 DEF Arm, Deadlines
<1>7. ASSUME NEW u \in Users, Open(u) PROVE TypeOK'
  BY <1>7 DEF Open, States
<1>8. ASSUME NEW u \in Users,
             SuccessCount(u) \/ SuccessDeadline(u) \/ SuccessState(u)
      PROVE  TypeOK'
  BY <1>8 DEF SuccessCount, SuccessDeadline, SuccessState, States, Deadlines
<1>9. ASSUME Elapse \/ ServiceChange PROVE TypeOK'
  BY <1>9 DEF Elapse, ServiceChange, Deadlines
<1>10. ASSUME UNCHANGED vars PROVE TypeOK'
  BY <1>10 DEF vars
<1> QED
  BY <1>1, <1>2, <1>3, <1>4, <1>5, <1>6, <1>7, <1>8, <1>9, <1>10
     DEF Next, Proceed

\* The breaker's three atomics and the goroutines' positions keep their types
\* under every interleaving.
THEOREM BreakerTypeCorrect == Spec => []TypeOK
BY BreakerInitTypes, BreakerStepTypes, PTL DEF Spec

-----------------------------------------------------------------------------
\* One step never leaves the breaker half-open without an owner.
LEMMA OwnerStep ==
  ASSUME Observers = {}, TypeOK, HalfOpenOwned, [Next]_vars
  PROVE  HalfOpenOwned'
<1> USE DEF TypeOK, Goto, shared
<1>1. Users = Embedders
  BY DEF Users
<1>2. ASSUME NEW u \in Users, HalfOpen(u) PROVE HalfOpenOwned'
  <2>1. CASE state = "open"
    BY <1>1, <1>2, <2>1 DEF HalfOpen, HalfOpenOwned, Probing
  <2>2. CASE state # "open"
    BY <1>1, <1>2, <2>2 DEF HalfOpen, HalfOpenOwned, Probing, InSuccess
  <2> QED
    BY <2>1, <2>2
<1>3. ASSUME NEW u \in Users, CheckTrip(u) PROVE HalfOpenOwned'
  BY <1>1, <1>3 DEF CheckTrip, HalfOpenOwned, Probing, InSuccess
<1>4. ASSUME NEW u \in Users, Ask(u) \/ RetrievalHit(u) PROVE HalfOpenOwned'
  BY <1>1, <1>4 DEF Ask, RetrievalHit, HalfOpenOwned, Probing, InSuccess
<1>5. ASSUME NEW u \in Users, LoadState(u) \/ LoadDeadline(u) PROVE HalfOpenOwned'
  BY <1>1, <1>5 DEF LoadState, LoadDeadline, HalfOpenOwned, Probing, InSuccess
<1>6. ASSUME NEW u \in Users, ClearCount(u) \/ ClearDeadline(u) PROVE HalfOpenOwned'
  BY <1>1, <1>6 DEF ClearCount, ClearDeadline, Admitted, HalfOpenOwned, Probing,
                    InSuccess
<1>7. ASSUME NEW u \in Users, Embed(u) \/ AddFailure(u) PROVE HalfOpenOwned'
  BY <1>1, <1>7 DEF Embed, AddFailure, HalfOpenOwned, Probing, InSuccess
<1>8. ASSUME NEW u \in Users, Arm(u) PROVE HalfOpenOwned'
  BY <1>1, <1>8 DEF Arm, HalfOpenOwned, Probing, InSuccess
<1>9. ASSUME NEW u \in Users, Open(u) \/ SuccessState(u) PROVE HalfOpenOwned'
  BY <1>9 DEF Open, SuccessState, HalfOpenOwned
<1>10. ASSUME NEW u \in Users, SuccessCount(u) \/ SuccessDeadline(u)
       PROVE  HalfOpenOwned'
  BY <1>1, <1>10 DEF SuccessCount, SuccessDeadline, HalfOpenOwned, Probing,
                     InSuccess
<1>11. ASSUME Elapse \/ ServiceChange \/ UNCHANGED vars PROVE HalfOpenOwned'
  BY <1>11 DEF Elapse, ServiceChange, vars, HalfOpenOwned, Probing
<1> QED
  BY <1>2, <1>3, <1>4, <1>5, <1>6, <1>7, <1>8, <1>9, <1>10, <1>11
     DEF Next, Proceed

\* As long as everybody who asks IsOpen goes on to embed, a half-open breaker is
\* never abandoned: the goroutine that moved it there is still on its way to
\* close it or to open it again, under every interleaving of the lock-free
\* operations.  (One observer is enough to break it.)
THEOREM BreakerHalfOpenOwned ==
  ASSUME Observers = {}
  PROVE  Spec => []HalfOpenOwned
<1>1. Init => HalfOpenOwned
  BY DEF Init, HalfOpenOwned
<1>2. TypeOK /\ HalfOpenOwned /\ [Next]_vars => HalfOpenOwned'
  BY OwnerStep
<1> QED
  BY <1>1, <1>2, BreakerTypeCorrect, PTL DEF Spec
-----------------------------------------------------------------------------
(* The embedding cache.                                                    *)

CacheTypes ==
  /\ loading \in [Keys -> Callers \cup {"none"}]
  /\ slot \in [Callers -> {"open", "sent", "failed", "closed"}]
  /\ cpc \in [Callers -> {"idle", "wait", "load", "direct", "batch", "done"}]
  /\ waits \in [Callers -> Callers \cup {"none"}]
  /\ asks \in [Callers -> {<<>>, BatchOf} \cup {<<k>> : k \in Keys}]
  /\ got = [c \in Callers |-> got[c]]

\* A slot belongs to a call of Embed for one text, and is used once.
Asked ==
  /\ \A c \in Callers : cpc[c] \in {"wait", "load", "direct"} => \E k \in Keys : asks[c] = <<k>>
  /\ \A c \in Callers : cpc[c] = "wait" => waits[c] \in Callers /\ waits[c] # "none"
  /\ \A c \in Callers : slot[c] = "open" \/ cpc[c] = "done"

CacheInv == CacheTypes /\ Asked /\ Cache!Loaders /\ Cache!Waiters /\ Cache!Answers

\* Every step of every call keeps the slots led and the answers right.
LEMMA CacheStep == CacheInv /\ [Cache!CacheNext]_(Cache!cacheVars) => CacheInv'
<1> SUFFICES ASSUME CacheInv, [Cache!CacheNext]_(Cache!cacheVars) PROVE CacheInv'
  OBVIOUS
<1> USE DEF CacheInv, CacheTypes, Asked, Cache!Loaders, Cache!Waiters, Cache!Answers, Cache!Done
<1>1. ASSUME NEW c \in Callers, NEW k \in Keys, Cache!Embed(c, k) PROVE CacheInv'
  BY <1>1 DEF Cache!Embed
<1>2. ASSUME NEW c \in Callers, Cache!EmbedBatch(c) PROVE CacheInv'
  <2>1. /\ cpc[c] = "idle" /\ asks' = [asks EXCEPT ![c] = BatchOf]
        /\ UNCHANGED <<loading, slot, waits>>
        /\ \/ cpc' = [cpc EXCEPT ![c] = "done"] /\ got' = [got EXCEPT ![c] = BatchOf]
           \/ cpc' = [cpc EXCEPT ![c] = "batch"] /\ UNCHANGED got
    BY <1>2 DEF Cache!EmbedBatch
  <2> QED
    BY <2>1
<1>3. ASSUME NEW c \in Callers, Cache!Receive(c) PROVE CacheInv'
  BY <1>3 DEF Cache!Receive
<1>4. ASSUME NEW c \in Callers, Cache!StopWaiting(c) PROVE CacheInv'
  BY <1>4 DEF Cache!StopWaiting
<1>5. ASSUME NEW c \in Callers, Cache!Direct(c) PROVE CacheInv'
  BY <1>5 DEF Cache!Direct
<1>6. ASSUME NEW c \in Callers, Cache!Loaded(c) PROVE CacheInv'
  BY <1>6 DEF Cache!Loaded
<1>7. ASSUME NEW c \in Callers, Cache!Batched(c) PROVE CacheInv'
  BY <1>7 DEF Cache!Batched
<1>8. ASSUME Cache!Expire \/ UNCHANGED Cache!cacheVars PROVE CacheInv'
  BY <1>8 DEF Cache!Expire, Cache!cacheVars
<1> QED
  BY <1>1, <1>2, <1>3, <1>4, <1>5, <1>6, <1>7, <1>8 DEF Cache!CacheNext, Cache!Inner

\* Whoever waits for a text's loader waits on a slot of that text whose loader is still
\* at work or has answered, and everybody gets the vectors asked for or an error, but for
\* the waiters that read a channel somebody else has emptied: for any callers and texts,
\* whatever fails, is cancelled or times out meanwhile (rag/rag.go:179-404).
THEOREM CacheWaitersLed == Cache!CacheSpec => [](Cache!Loaders /\ Cache!Waiters /\ Cache!Answers)
<1>1. Cache!CacheInit => CacheInv
  BY DEF Cache!CacheInit, CacheInv, CacheTypes, Asked, Cache!Loaders, Cache!Waiters, Cache!Answers
<1>2. CacheInv => Cache!Loaders /\ Cache!Waiters /\ Cache!Answers
  BY DEF CacheInv
<1> QED
  BY <1>1, <1>2, CacheStep, PTL DEF Cache!CacheSpec
-----------------------------------------------------------------------------
(* The index of the example store.                                         *)

\* An index built in this process numbers the examples as they are.
IndexCurrent == index.from = "built" => index.of = Store!Texts(examples)

\* Whatever replaces an example, renames it or takes it away drops the index.
LEMMA StoreStep == IndexCurrent /\ [Store!RagNext]_(Store!ragVars) => IndexCurrent'
<1> SUFFICES ASSUME IndexCurrent, [Store!RagNext]_(Store!ragVars) PROVE IndexCurrent'
  OBVIOUS
<1> USE DEF IndexCurrent
<1>1. ASSUME index' = Store!Nil PROVE IndexCurrent'
  BY <1>1 DEF Store!Nil
<1>2. ASSUME UNCHANGED <<index, examples>> PROVE IndexCurrent'
  BY <1>2 DEF Store!Texts
<1>3. \A exs : Store!rebuildIndex(exs) = Store!Nil
                \/ Store!rebuildIndex(exs) = [from |-> "built", of |-> Store!Texts(exs)]
  BY DEF Store!rebuildIndex
<1>4. ASSUME index' = Store!rebuildIndex(examples') PROVE IndexCurrent'
  <2>1. index' = Store!Nil \/ index' = [from |-> "built", of |-> Store!Texts(examples')]
    BY <1>3, <1>4, Zenon
  <2>2. Store!Texts(examples)' = Store!Texts(examples')
    BY DEF Store!Texts
  <2> QED
    BY <2>1, <2>2, <1>1
<1>5. ASSUME NEW m \in Models, NEW failed \in SUBSET {<<p, 1>> : p \in Paths},
             Store!Start(m, failed)
      PROVE  IndexCurrent'
  <2>1. \/ index' = Store!Nil
        \/ examples' = Store!Load(m) /\ index' = Store!restoreIndex(Store!Load(m))
    BY <1>5, Zenon DEF Store!Start
  <2>2. Store!restoreIndex(Store!Load(m)) = [from |-> "blob", of |-> saved]
          \/ Store!restoreIndex(Store!Load(m)) = Store!rebuildIndex(Store!Load(m))
    BY Zenon DEF Store!restoreIndex
  <2>3. CASE index' = [from |-> "blob", of |-> saved]
    BY <2>3
  <2> QED
    BY <1>1, <1>4, <2>1, <2>2, <2>3, Zenon
<1>6. ASSUME Store!Close \/ Store!Crash PROVE IndexCurrent'
  BY <1>1, <1>6, Zenon DEF Store!Close, Store!Crash, Store!Gone
<1>7. ASSUME Store!scanOnce \/ Store!SweepEnds \/ Store!ScanEnds PROVE IndexCurrent'
  BY <1>2, <1>7, Zenon DEF Store!scanOnce, Store!SweepEnds, Store!ScanEnds, Store!storeVars
<1>8. ASSUME Store!Sweep \/ Store!indexFile PROVE IndexCurrent'
  BY <1>1, <1>2, <1>8, Zenon
     DEF Store!Sweep, Store!SweepRemove, Store!SweepMove, Store!SweepFallback, Store!indexFile, Store!RemoveFile,
         Store!MoveFile, Store!Reindex
<1>9. ASSUME Store!maybeRebuildIndex PROVE IndexCurrent'
  BY <1>4, <1>9, Zenon DEF Store!maybeRebuildIndex
<1>10. ASSUME NEW p \in Paths, NEW q \in Paths, Store!Write(p) \/ Store!Delete(p) \/ Store!Rename(p, q)
       PROVE  IndexCurrent'
  BY <1>2, <1>10, Zenon DEF Store!Write, Store!Delete, Store!Rename, Store!ChangeDir, Store!storeVars
<1>11. ASSUME UNCHANGED Store!ragVars PROVE IndexCurrent'
  BY <1>2, <1>11, Zenon DEF Store!ragVars, Store!storeVars
<1> QED
  BY <1>5, <1>6, <1>7, <1>8, <1>9, <1>10, <1>11, Zenon DEF Store!RagNext

\* An index a retrieval may use, unless it was restored from a blob, numbers the texts as
\* the examples do, so that the ids it finds name what it found: for any paths, files and
\* models, through moves, failed moves, crashes and restarts (rag/rag.go, rag/watcher.go).
THEOREM StoreIndexFaithful == Store!RagSpec => []Store!IndexFaithful
<1>1. Store!RagInit => IndexCurrent
  BY DEF Store!RagInit, IndexCurrent, Store!Nil
<1>2. IndexCurrent => Store!IndexFaithful
  BY DEF IndexCurrent, Store!IndexFaithful
<1> QED
  BY <1>1, <1>2, StoreStep, PTL DEF Store!RagSpec
-----------------------------------------------------------------------------
(* Sets put in an order by counting, as the store's reading of its table   *)
(* and of a directory and the sort of top-k do.                            *)

\* A relation that puts the elements of a set one after the other.
Orders(Rl, S) ==
  /\ \A x \in S : <<x, x>> \notin Rl
  /\ \A x, y, z \in S : <<x, y>> \in Rl /\ <<y, z>> \in Rl => <<x, z>> \in Rl
  /\ \A x, y \in S : x # y => <<x, y>> \in Rl \/ <<y, x>> \in Rl

\* What comes before an element, and the element that has k - 1 before it.
Before(Rl, S, x) == {y \in S : <<y, x>> \in Rl}
Nth(Rl, S, k) == CHOOSE x \in S : Cardinality(Before(Rl, S, x)) = k - 1

\* Counting what comes before numbers a finite set from one on.
LEMMA Numbered ==
  ASSUME NEW S, IsFiniteSet(S), NEW Rl, Orders(Rl, S)
  PROVE  /\ Cardinality(S) \in Nat
         /\ \A k \in 1..Cardinality(S) : /\ Nth(Rl, S, k) \in S
                                         /\ Cardinality(Before(Rl, S, Nth(Rl, S, k))) = k - 1
         /\ \A x \in S : \E k \in 1..Cardinality(S) : Nth(Rl, S, k) = x
         /\ \A x, y \in S : <<x, y>> \in Rl =>
              /\ Cardinality(Before(Rl, S, x)) \in Nat /\ Cardinality(Before(Rl, S, y)) \in Nat
              /\ Cardinality(Before(Rl, S, x)) < Cardinality(Before(Rl, S, y))
<1> DEFINE n == Cardinality(S)
           before(x) == Before(Rl, S, x)
           r == [x \in S |-> Cardinality(before(x))]
<1>1. n \in Nat
  BY FS_CardinalityType
<1>2. \A x \in S : IsFiniteSet(before(x)) /\ Cardinality(before(x)) \in 0..n - 1
  <2> SUFFICES ASSUME NEW x \in S
               PROVE  IsFiniteSet(before(x)) /\ Cardinality(before(x)) \in 0..n - 1
    OBVIOUS
  <2>1. before(x) \in SUBSET (S \ {x})
    BY DEF Before, Orders
  <2>2. IsFiniteSet(S \ {x}) /\ Cardinality(S \ {x}) = n - 1
    BY FS_RemoveElement
  <2>3. IsFiniteSet(before(x)) /\ Cardinality(before(x)) <= n - 1
    BY <2>1, <2>2, FS_Subset
  <2>4. Cardinality(before(x)) \in Nat
    BY <2>3, FS_CardinalityType
  <2> HIDE DEF before, n
  <2> QED
    BY <1>1, <2>3, <2>4
<1>3. ASSUME NEW x \in S, NEW y \in S, <<x, y>> \in Rl
      PROVE  r[x] < r[y] /\ r[x] \in Nat /\ r[y] \in Nat
  <2>1. before(x) \in SUBSET before(y) /\ x \in before(y) /\ x \notin before(x)
    BY <1>3 DEF Before, Orders
  <2>2. IsFiniteSet(before(x)) /\ IsFiniteSet(before(y)) /\ Cardinality(before(x)) \in Nat
          /\ Cardinality(before(y)) \in Nat
    BY <1>2, FS_CardinalityType
  <2> HIDE DEF before
  <2>3. Cardinality(before(x)) <= Cardinality(before(y))
          /\ Cardinality(before(x)) # Cardinality(before(y))
    BY <2>1, <2>2, FS_Subset
  <2> QED
    BY <2>2, <2>3
<1>4. r \in [S -> 0..n - 1]
  BY <1>2
<1>5. ASSUME NEW x \in S, NEW y \in S, x # y PROVE r[x] # r[y]
  <2>1. <<x, y>> \in Rl \/ <<y, x>> \in Rl
    BY <1>5 DEF Orders
  <2> HIDE DEF r
  <2> QED
    BY <1>3, <2>1
<1>6. \A k \in 0..n - 1 : \E x \in S : r[x] = k
  <2>1. r \in Injection(S, 0..n - 1)
    <3> HIDE DEF r
    <3>1. \A x \in S, y \in S : r[x] = r[y] => x = y
      BY <1>5
    <3> QED
      BY <1>4, <3>1 DEF Injection, IsInjective
  <2>2. IsFiniteSet(0..n - 1) /\ Cardinality(0..n - 1) = Cardinality(S)
    <3>1. 0 \in Int /\ n - 1 \in Int
      <4> HIDE DEF n
      <4> QED
        BY <1>1
    <3>2. IsFiniteSet(0..n - 1) /\ Cardinality(0..n - 1) = IF 0 > n - 1 THEN 0 ELSE (n - 1) - 0 + 1
      <4> HIDE DEF n
      <4> QED
        BY <3>1, FS_Interval
    <3>3. (IF 0 > n - 1 THEN 0 ELSE (n - 1) - 0 + 1) = n
      <4> HIDE DEF n
      <4> QED
        BY <1>1
    <3> QED
      BY <3>2, <3>3
  <2> HIDE DEF r
  <2>3. r \in Surjection(S, 0..n - 1)
    BY <2>1, <2>2, FS_Injection
  <2> QED
    BY <2>3 DEF Surjection
<1>7. \A k \in 1..n : Nth(Rl, S, k) \in S /\ r[Nth(Rl, S, k)] = k - 1
  <2> SUFFICES ASSUME NEW k \in 1..n PROVE Nth(Rl, S, k) \in S /\ r[Nth(Rl, S, k)] = k - 1
    OBVIOUS
  <2>1. k - 1 \in 0..n - 1
    BY <1>1
  <2>2. \E x \in S : r[x] = k - 1
    <3> HIDE DEF r
    <3> QED
      BY <1>6, <2>1
  <2>3. \E x \in S : Cardinality(Before(Rl, S, x)) = k - 1
    BY <2>2
  <2> QED
    BY <2>3 DEF Nth
<1>8. ASSUME NEW x \in S PROVE \E k \in 1..n : Nth(Rl, S, k) = x
  <2> DEFINE k == r[x] + 1
  <2>1. r[x] \in 0..n - 1
    BY <1>4
  <2>2. k \in 1..n /\ k - 1 = r[x]
    <3> HIDE DEF r, n
    <3> QED
      BY <1>1, <2>1
  <2>3. Nth(Rl, S, k) \in S /\ r[Nth(Rl, S, k)] = r[x]
    BY <1>7, <2>2
  <2>4. Nth(Rl, S, k) = x
    <3> HIDE DEF r, k
    <3> QED
      BY <1>5, <2>3
  <2> QED
    BY <2>2, <2>4
<1> QED
  BY <1>1, <1>3, <1>7, <1>8
-----------------------------------------------------------------------------
(* The table and the memory of the example store.                          *)

\* Paths have places of their own in the order of sort.Strings.
BasesOrdered ==
  /\ \A p \in Paths : Base[p].order \in Nat
  /\ \A p, q \in Paths : Base[p].order = Base[q].order => p = q

\* An example: a chunk of a version of a file.
Piece == [file : Paths, chunk : Nat, v : 0..MaxChanges]

\* The elements of a sequence.
Held(s) == {s[i] : i \in 1..Len(s)}

\* No two examples are of the same chunk of the same file.
Keyed(s) == \A i, j \in 1..Len(s) : Store!SameKey(s[i], s[j]) => i = j

\* The same of a set.
Distinct(S) == \A x, y \in S : Store!SameKey(x, y) => x = y

\* The instance counts as the theorems about finite sets do.
LEMMA StoreCounts == \A X : Store!Cardinality(X) = Cardinality(X)
  BY Zenon DEF Store!Cardinality, Cardinality

\* The elements at some places of a sequence are a sequence of just those, each in its own place.
LEMMA ThosePicked ==
  ASSUME NEW s \in Seq(Piece), NEW I \in SUBSET (1..Len(s))
  PROVE  /\ Store!Those(s, I) \in Seq(Piece)
         /\ Held(Store!Those(s, I)) = {s[i] : i \in I}
         /\ Keyed(s) => Keyed(Store!Those(s, I))
<1> DEFINE n == Cardinality(I)
           Rl == {p \in I \X I : p[1] < p[2]}
           t == Store!Those(s, I)
           nth(k) == CHOOSE i \in I : Store!Cardinality({j \in I : j < i}) = k - 1
<1>1. IsFiniteSet(I) /\ I \subseteq Nat
  <2>1. Len(s) \in Nat
    OBVIOUS
  <2>2. IsFiniteSet(1..Len(s)) /\ 1..Len(s) \subseteq Nat
    BY <2>1, FS_Interval
  <2>3. IsFiniteSet(I)
    BY <2>2, FS_Subset
  <2> QED
    BY <2>2, <2>3
<1>2. \A i, j \in I : <<i, j>> \in Rl <=> i < j
  OBVIOUS
<1>3. Orders(Rl, I)
  <2> HIDE DEF Rl
  <2> QED
    BY <1>1, <1>2 DEF Orders
<1>4. ASSUME NEW k
      PROVE  Nth(Rl, I, k) = nth(k)
  <2>1. \A i \in I : {j \in I : j < i} = Before(Rl, I, i)
    <3> HIDE DEF Rl
    <3> QED
      BY <1>2 DEF Before
  <2>2. \A i \in I : Cardinality(Before(Rl, I, i)) = k - 1
                       <=> Store!Cardinality({j \in I : j < i}) = k - 1
    BY <2>1, StoreCounts
  <2> HIDE DEF Rl
  <2> QED
    BY <2>2 DEF Nth
<1>5. t = [k \in 1..n |-> s[Nth(Rl, I, k)]]
  <2>1. t = [k \in 1..n |-> s[nth(k)]]
    BY StoreCounts DEF Store!Those
  <2> HIDE DEF t, n, Rl, nth
  <2> QED
    BY <1>4, <2>1
<1>6. /\ n \in Nat
      /\ \A k \in 1..n : Nth(Rl, I, k) \in I /\ Cardinality(Before(Rl, I, Nth(Rl, I, k))) = k - 1
      /\ \A i \in I : \E k \in 1..n : Nth(Rl, I, k) = i
  <2> HIDE DEF Rl
  <2> QED
    BY <1>1, <1>3, Numbered
<1> HIDE DEF t, n, Rl
<1>7. \A i \in I : s[i] \in Piece
  OBVIOUS
<1>8. t \in Seq(Piece) /\ Len(t) = n
  <2>1. \A k \in 1..n : s[Nth(Rl, I, k)] \in Piece
    BY <1>6, <1>7
  <2> QED
    BY <1>5, <1>6, <2>1
<1>9. Held(t) = {s[i] : i \in I}
  <2>1. ASSUME NEW k \in 1..n PROVE t[k] \in {s[i] : i \in I}
    BY <1>5, <1>6
  <2>2. ASSUME NEW i \in I PROVE s[i] \in Held(t)
    BY <1>5, <1>6, <1>8 DEF Held
  <2> QED
    BY <1>8, <2>1, <2>2 DEF Held
<1>10. ASSUME Keyed(s), NEW k \in 1..n, NEW l \in 1..n, Store!SameKey(t[k], t[l]) PROVE k = l
  <2>1. Store!SameKey(s[Nth(Rl, I, k)], s[Nth(Rl, I, l)])
    BY <1>5, <1>10
  <2>2. Nth(Rl, I, k) = Nth(Rl, I, l)
    BY <1>6, <1>10, <2>1 DEF Keyed
  <2>3. k - 1 = l - 1
    BY <1>6, <2>2
  <2> QED
    BY <1>6, <2>3
<1> QED
  BY <1>8, <1>9, <1>10 DEF t, Keyed

\* A set of examples in order is a sequence of just those, each once.
LEMMA InOrderHolds ==
  ASSUME NEW S \in SUBSET Piece, IsFiniteSet(S), Distinct(S), BasesOrdered
  PROVE  /\ Store!InOrder(S) \in Seq(Piece)
         /\ Held(Store!InOrder(S)) = S
         /\ Keyed(Store!InOrder(S))
<1> DEFINE n == Cardinality(S)
           Rl == {p \in S \X S : Store!Precedes(p[1], p[2])}
           t == Store!InOrder(S)
           nth(k) == CHOOSE x \in S : Store!Cardinality({y \in S : Store!Precedes(y, x)}) = k - 1
<1>1. \A x, y \in S : <<x, y>> \in Rl <=> Store!Precedes(x, y)
  OBVIOUS
<1>2. Orders(Rl, S)
  <2>1. \A x \in S : x.file \in Paths /\ x.chunk \in Nat /\ Base[x.file].order \in Nat
    BY DEF Piece, BasesOrdered
  <2>2. \A x, y \in S : Base[x.file].order = Base[y.file].order => x.file = y.file
    BY <2>1 DEF BasesOrdered
  <2>3. \A x \in S : ~Store!Precedes(x, x)
    BY <2>1 DEF Store!Precedes
  <2>4. ASSUME NEW x \in S, NEW y \in S, NEW z \in S, Store!Precedes(x, y), Store!Precedes(y, z)
        PROVE  Store!Precedes(x, z)
    <3> DEFINE a == Base[x.file].order
               b == Base[y.file].order
               c == Base[z.file].order
    <3>1. a \in Nat /\ b \in Nat /\ c \in Nat /\ x.chunk \in Nat /\ y.chunk \in Nat /\ z.chunk \in Nat
      BY <2>1
    <3>2. /\ a < b \/ (x.file = y.file /\ x.chunk < y.chunk)
          /\ b < c \/ (y.file = z.file /\ y.chunk < z.chunk)
          /\ x.file = y.file => a = b
          /\ y.file = z.file => b = c
      BY <2>4 DEF Store!Precedes
    <3> HIDE DEF a, b, c
    <3>3. a < c \/ (x.file = z.file /\ x.chunk < z.chunk)
      BY <3>1, <3>2
    <3> QED
      BY <3>3 DEF a, b, c, Store!Precedes
  <2>5. ASSUME NEW x \in S, NEW y \in S, x # y PROVE Store!Precedes(x, y) \/ Store!Precedes(y, x)
    <3>1. x.file # y.file \/ x.chunk # y.chunk
      BY <2>5 DEF Distinct, Store!SameKey
    <3> QED
      BY <2>1, <2>2, <3>1 DEF Store!Precedes
  <2> HIDE DEF Rl
  <2> QED
    BY <1>1, <2>3, <2>4, <2>5 DEF Orders
<1>3. ASSUME NEW k
      PROVE  Nth(Rl, S, k) = nth(k)
  <2>1. \A x \in S : {y \in S : Store!Precedes(y, x)} = Before(Rl, S, x)
    <3> HIDE DEF Rl
    <3> QED
      BY <1>1 DEF Before
  <2>2. \A x \in S : Cardinality(Before(Rl, S, x)) = k - 1
                       <=> Store!Cardinality({y \in S : Store!Precedes(y, x)}) = k - 1
    BY <2>1, StoreCounts
  <2> HIDE DEF Rl
  <2> QED
    BY <2>2 DEF Nth
<1>4. t = [k \in 1..n |-> Nth(Rl, S, k)]
  <2>1. t = [k \in 1..n |-> nth(k)]
    BY StoreCounts DEF Store!InOrder
  <2> HIDE DEF t, n, Rl, nth
  <2> QED
    BY <1>3, <2>1
<1>5. /\ n \in Nat
      /\ \A k \in 1..n : Nth(Rl, S, k) \in S /\ Cardinality(Before(Rl, S, Nth(Rl, S, k))) = k - 1
      /\ \A x \in S : \E k \in 1..n : Nth(Rl, S, k) = x
  <2> HIDE DEF Rl
  <2> QED
    BY <1>2, Numbered
<1> HIDE DEF t, n, Rl
<1>6. t \in Seq(Piece) /\ Len(t) = n
  BY <1>4, <1>5
<1>7. Held(t) = S
  <2>1. \A k \in 1..n : t[k] \in S
    BY <1>4, <1>5
  <2>2. \A x \in S : \E k \in 1..n : t[k] = x
    BY <1>4, <1>5
  <2> QED
    BY <1>6, <2>1, <2>2 DEF Held
<1>8. ASSUME NEW k \in 1..n, NEW l \in 1..n, Store!SameKey(t[k], t[l]) PROVE k = l
  <2>1. t[k] = t[l]
    BY <1>4, <1>5, <1>8 DEF Distinct
  <2>2. k - 1 = l - 1
    BY <1>4, <1>5, <2>1
  <2> QED
    BY <1>5, <2>2
<1> QED
  BY <1>6, <1>7, <1>8 DEF t, Keyed

\* They are what ToSet gives.
LEMMA HeldIs ==
  ASSUME NEW T, NEW s \in Seq(T)
  PROVE  Store!ToSet(s) = Held(s)
BY DEF Store!ToSet, Held

\* A sequence over a set holds elements of that set.
LEMMA HeldTyped ==
  ASSUME NEW T, NEW s \in Seq(T)
  PROVE  Held(s) \subseteq T
BY DEF Held

\* Each place holds one of them.
LEMMA HeldPlace ==
  ASSUME NEW s, NEW i \in 1..Len(s)
  PROVE  s[i] \in Held(s)
BY DEF Held

\* Of the examples held, those of other keys than news.
Spared(S, news) == {x \in S : \A y \in news : ~Store!SameKey(x, y)}

\* Putting examples replaces those of the same keys and keeps the rest.
LEMMA PutHolds ==
  ASSUME NEW exs \in Seq(Piece), NEW news \in Seq(Piece), Keyed(exs), Keyed(news)
  PROVE  /\ Store!Put(exs, news) \in Seq(Piece)
         /\ Held(Store!Put(exs, news)) = Spared(Held(exs), Held(news)) \cup Held(news)
         /\ Keyed(Store!Put(exs, news))
<1> DEFINE there(i) == \E x \in Held(news) : Store!SameKey(x, exs[i])
           I == {i \in 1..Len(news) : ~\E x \in Held(exs) : Store!SameKey(x, news[i])}
           a == [i \in 1..Len(exs) |-> IF there(i)
                                      THEN CHOOSE x \in Held(news) : Store!SameKey(x, exs[i]) ELSE exs[i]]
           b == Store!Those(news, I)
<1>1. Store!Put(exs, news) = a \o b
  <2>1. Store!ToSet(exs) = Held(exs) /\ Store!ToSet(news) = Held(news)
    BY HeldIs
  <2> QED
    BY <2>1 DEF Store!Put
<1>2. /\ b \in Seq(Piece) /\ Held(b) = {news[i] : i \in I} /\ Keyed(b)
  <2>1. I \in SUBSET (1..Len(news))
    OBVIOUS
  <2> HIDE DEF I
  <2> QED
    BY <2>1, ThosePicked
<1>3. \A i \in 1..Len(exs) : /\ exs[i] \in Piece /\ exs[i] \in Held(exs)
                             /\ there(i) => a[i] \in Held(news) /\ Store!SameKey(a[i], exs[i])
                             /\ ~there(i) => a[i] = exs[i]
  BY HeldPlace
<1>4. Held(news) \subseteq Piece
  BY HeldTyped
<1>5. a \in Seq(Piece) /\ Len(a) = Len(exs)
  <2>1. Len(exs) \in Nat /\ \A i \in 1..Len(exs) : a[i] \in Piece
    <3> HIDE DEF a, there
    <3> QED
      BY <1>3, <1>4
  <2>2. a = [i \in 1..Len(exs) |-> a[i]]
    OBVIOUS
  <2> HIDE DEF a
  <2> QED
    BY <2>1, <2>2
<1> HIDE DEF a, b
<1>6. /\ a \o b \in Seq(Piece) /\ Len(a \o b) = Len(a) + Len(b) /\ Len(a) \in Nat /\ Len(b) \in Nat
      /\ \A i \in 1..Len(a) : (a \o b)[i] = a[i]
      /\ \A i \in 1..Len(b) : (a \o b)[Len(a) + i] = b[i]
  <2>1. a \in Seq(Piece) /\ b \in Seq(Piece)
    BY <1>2, <1>5
  <2>2. a \o b \in Seq(Piece) /\ Len(a \o b) = Len(a) + Len(b) /\ Len(a) \in Nat /\ Len(b) \in Nat
    BY <2>1
  <2>3. \A i \in 1..Len(a \o b) : (a \o b)[i] = IF i <= Len(a) THEN a[i] ELSE b[i - Len(a)]
    BY <2>1
  <2>4. \A i \in 1..Len(b) : /\ Len(a) + i \in 1..Len(a \o b) /\ ~(Len(a) + i <= Len(a))
                             /\ Len(a) + i - Len(a) = i
    BY <2>2
  <2>5. \A i \in 1..Len(a) : i \in 1..Len(a \o b) /\ i <= Len(a)
    BY <2>2
  <2> QED
    BY <2>2, <2>3, <2>4, <2>5
<1>7. \A i \in 1..Len(exs) : Store!SameKey(a[i], exs[i])
  BY <1>3 DEF Store!SameKey
<1>8. \A i \in 1..Len(b) : \E j \in I : b[i] = news[j]
  BY <1>2 DEF Held
<1>9. ASSUME NEW k \in 1..Len(a \o b)
      PROVE  \/ k \in 1..Len(a) /\ (a \o b)[k] = a[k]
             \/ \E l \in 1..Len(b) : k = Len(a) + l /\ (a \o b)[k] = b[l]
  <2>1. CASE k <= Len(a)
    BY <1>6, <2>1
  <2>2. CASE ~(k <= Len(a))
    <3>1. k - Len(a) \in 1..Len(b) /\ k = Len(a) + (k - Len(a))
      BY <1>6, <2>2
    <3> QED
      BY <1>6, <3>1
  <2> QED
    BY <2>1, <2>2
<1>10. Held(a \o b) = Held(a) \cup Held(b)
  <2>1. Held(a \o b) \subseteq Held(a) \cup Held(b)
    BY <1>9 DEF Held
  <2>2. ASSUME NEW i \in 1..Len(a) PROVE a[i] \in Held(a \o b)
    <3>1. i \in 1..Len(a \o b) /\ (a \o b)[i] = a[i]
      BY <1>6
    <3> QED
      BY <3>1 DEF Held
  <2>3. ASSUME NEW i \in 1..Len(b) PROVE b[i] \in Held(a \o b)
    <3>1. Len(a) + i \in 1..Len(a \o b) /\ (a \o b)[Len(a) + i] = b[i]
      BY <1>6
    <3> QED
      BY <3>1 DEF Held
  <2> QED
    BY <2>1, <2>2, <2>3 DEF Held
<1>11. Held(a) \cup Held(b) = Spared(Held(exs), Held(news)) \cup Held(news)
  <2>1. ASSUME NEW i \in 1..Len(exs)
        PROVE  a[i] \in Spared(Held(exs), Held(news)) \cup Held(news)
    <3>1. CASE there(i)
      BY <1>3, <3>1
    <3>2. CASE ~there(i)
      BY <1>3, <3>2 DEF Spared, Store!SameKey
    <3> QED
      BY <3>1, <3>2
  <2>2. ASSUME NEW j \in 1..Len(news) PROVE news[j] \in Held(a) \cup Held(b)
    <3>1. CASE j \in I
      BY <1>2, <3>1
    <3>2. CASE j \notin I
      <4>1. PICK i \in 1..Len(exs) : Store!SameKey(exs[i], news[j])
        BY <3>2 DEF Held
      <4>2. there(i)
        BY <4>1 DEF Held, Store!SameKey
      <4>3. PICK k \in 1..Len(news) : a[i] = news[k]
        BY <1>3, <4>2 DEF Held
      <4>4. Store!SameKey(news[k], news[j])
        BY <1>3, <4>1, <4>2, <4>3 DEF Store!SameKey
      <4>5. a[i] = news[j]
        BY <4>3, <4>4 DEF Keyed
      <4> QED
        BY <1>5, <4>5 DEF Held
    <3> QED
      BY <3>1, <3>2
  <2>3. ASSUME NEW i \in 1..Len(exs), exs[i] \in Spared(Held(exs), Held(news))
        PROVE  exs[i] \in Held(a)
    <3>1. ~there(i)
      BY <2>3 DEF Spared, Store!SameKey
    <3> QED
      BY <1>3, <1>5, <3>1 DEF Held
  <2>4. Held(b) \subseteq Held(news)
    BY <1>2 DEF Held
  <2>5. Held(a) \subseteq Spared(Held(exs), Held(news)) \cup Held(news)
    BY <1>5, <2>1 DEF Held
  <2>6. Held(news) \subseteq Held(a) \cup Held(b)
    BY <2>2 DEF Held
  <2>7. Spared(Held(exs), Held(news)) \subseteq Held(a)
    <3>1. ASSUME NEW x \in Spared(Held(exs), Held(news)) PROVE x \in Held(a)
      <4>1. PICK i \in 1..Len(exs) : x = exs[i]
        BY DEF Spared, Held
      <4> QED
        BY <2>3, <4>1
    <3> QED
      BY <3>1
  <2> QED
    BY <2>4, <2>5, <2>6, <2>7
<1>12. Keyed(a \o b)
  <2>1. ASSUME NEW i \in 1..Len(a), NEW j \in 1..Len(a), Store!SameKey(a[i], a[j]) PROVE i = j
    BY <1>5, <1>7, <2>1 DEF Keyed, Store!SameKey
  <2>2. ASSUME NEW i \in 1..Len(a), NEW j \in 1..Len(b)
        PROVE  ~Store!SameKey(a[i], b[j]) /\ ~Store!SameKey(b[j], a[i])
    <3>1. PICK k \in I : b[j] = news[k]
      BY <1>8
    <3>2. ~Store!SameKey(exs[i], news[k]) /\ Store!SameKey(a[i], exs[i])
      BY <1>3, <1>5, <1>7
    <3> QED
      BY <3>1, <3>2 DEF Store!SameKey
  <2>3. \A i, j \in 1..Len(b) : Store!SameKey(b[i], b[j]) => i = j
    BY <1>2 DEF Keyed
  <2> SUFFICES ASSUME NEW k \in 1..Len(a \o b), NEW l \in 1..Len(a \o b),
                      Store!SameKey((a \o b)[k], (a \o b)[l])
               PROVE  k = l
    BY DEF Keyed
  <2>4. CASE k \in 1..Len(a) /\ (a \o b)[k] = a[k]
    BY <1>9, <2>1, <2>2, <2>4
  <2>5. ASSUME NEW m \in 1..Len(b), k = Len(a) + m, (a \o b)[k] = b[m] PROVE k = l
    BY <1>9, <2>2, <2>3, <2>5
  <2> QED
    BY <1>9, <2>4, <2>5
<1> QED
  BY <1>1, <1>6, <1>10, <1>11, <1>12

\* Removing files leaves the examples of the others.
LEMMA KeptHolds ==
  ASSUME NEW exs \in Seq(Piece), Keyed(exs), NEW gone
  PROVE  /\ Store!Kept(exs, gone) \in Seq(Piece)
         /\ Held(Store!Kept(exs, gone)) = {x \in Held(exs) : x.file \notin gone}
         /\ Keyed(Store!Kept(exs, gone))
<1> DEFINE I == {i \in 1..Len(exs) : exs[i].file \notin gone}
<1>1. I \in SUBSET (1..Len(exs)) /\ Store!Kept(exs, gone) = Store!Those(exs, I)
  BY DEF Store!Kept
<1>2. {exs[i] : i \in I} = {x \in Held(exs) : x.file \notin gone}
  BY DEF Held
<1> HIDE DEF I
<1> QED
  BY <1>1, <1>2, ThosePicked

\* The images of a finite set's elements are finitely many.
LEMMA ImageFinite ==
  ASSUME NEW S, IsFiniteSet(S), NEW f
  PROVE  IsFiniteSet({f[x] : x \in S})
<1> DEFINE T == {f[x] : x \in S}
           g == [x \in S |-> f[x]]
<1>1. g \in Surjection(S, T)
  BY DEF Surjection
<1> HIDE DEF g, T
<1>2. IsFiniteSet(T)
  BY <1>1, FS_Surjection
<1> QED
  BY <1>2 DEF T

\* A sequence holds finitely many.
LEMMA HeldFinite ==
  ASSUME NEW T, NEW s \in Seq(T)
  PROVE  IsFiniteSet(Held(s))
<1>1. IsFiniteSet(1..Len(s))
  <2>1. Len(s) \in Nat
    OBVIOUS
  <2> QED
    BY <2>1, FS_Interval
<1> QED
  BY <1>1, ImageFinite DEF Held

\* The rows of the table: finitely many, of files and chunks, one for each.
IsRow(r) ==
  /\ r = [file |-> r.file, chunk |-> r.chunk, v |-> r.v, model |-> r.model, blob |-> r.blob]
  /\ Store!Ex(r) \in Piece

TableKeyed(rs) == IsFiniteSet(rs) /\ (\A r \in rs : IsRow(r)) /\ Distinct(rs)

\* The examples of a model's rows.
Of(rs, m) == {Store!Ex(r) : r \in {s \in rs : s.model = m}}

\* The table and the memory, with the rows a mixed start has passed over.
Agreeing(rs, exs, m, mx) ==
  /\ TableKeyed(rs) /\ exs \in Seq(Piece) /\ Keyed(exs)
  /\ Held(exs) \subseteq Of(rs, m)
  /\ ~mx => Of(rs, m) \subseteq Held(exs)

\* An upsert replaces the rows of the same keys and keeps the rest.
LEMMA UpsertHolds ==
  ASSUME NEW rs, TableKeyed(rs), NEW exs \in Seq(Piece), Keyed(exs), NEW m
  PROVE  /\ TableKeyed(Store!Upsert(rs, exs, m))
         /\ Of(Store!Upsert(rs, exs, m), m) = Spared(Of(rs, m), Held(exs)) \cup Held(exs)
<1> DEFINE row(ex) == [file |-> ex.file, chunk |-> ex.chunk, v |-> ex.v, model |-> m,
                       blob |-> \E r \in rs : Store!SameKey(r, ex) /\ r.blob]
           old == {r \in rs : ~\E ex \in Held(exs) : Store!SameKey(r, ex)}
           new == {row(ex) : ex \in Held(exs)}
<1>1. Store!Upsert(rs, exs, m) = old \cup new
  BY HeldIs DEF Store!Upsert
<1>2. Held(exs) \subseteq Piece
  BY HeldTyped
<1>3. \A ex \in Held(exs) : Store!Ex(row(ex)) = ex /\ Store!SameKey(row(ex), ex) /\ row(ex).model = m
  BY <1>2 DEF Piece, Store!Ex, Store!SameKey
<1>3a. \A ex \in Held(exs) : IsRow(row(ex))
  BY <1>2, <1>3 DEF IsRow
<1>4. \A x, y \in Held(exs) : Store!SameKey(x, y) => x = y
  BY DEF Keyed, Held
<1>5. IsFiniteSet(old \cup new)
  <2>1. IsFiniteSet(old)
    BY FS_Subset DEF TableKeyed
  <2>2. IsFiniteSet(new)
    <3> DEFINE f == [ex \in Held(exs) |-> row(ex)]
    <3>1. IsFiniteSet(Held(exs))
      BY HeldFinite
    <3>2. new = {f[ex] : ex \in Held(exs)}
      OBVIOUS
    <3> HIDE DEF f, new
    <3> QED
      BY <3>1, <3>2, ImageFinite
  <2> HIDE DEF old, new
  <2> QED
    BY <2>1, <2>2, FS_Union
<1> HIDE DEF row
<1>6. \A r \in old \cup new : IsRow(r)
  BY <1>3a DEF TableKeyed
<1>7. ASSUME NEW r \in old \cup new, NEW s \in old \cup new, Store!SameKey(r, s) PROVE r = s
  <2>1. CASE r \in old /\ s \in old
    BY <1>7, <2>1 DEF TableKeyed, Distinct
  <2>2. ASSUME NEW x \in Held(exs), NEW t \in old PROVE ~Store!SameKey(row(x), t) /\ ~Store!SameKey(t, row(x))
    BY <1>3 DEF Store!SameKey
  <2>3. ASSUME NEW x \in Held(exs), NEW y \in Held(exs), Store!SameKey(row(x), row(y)) PROVE x = y
    <3>1. Store!SameKey(x, y)
      BY <1>3, <2>3 DEF Store!SameKey
    <3> QED
      BY <1>4, <3>1
  <2> HIDE DEF old
  <2> QED
    BY <1>7, <2>1, <2>2, <2>3
<1>8. Of(old \cup new, m) = Spared(Of(rs, m), Held(exs)) \cup Held(exs)
  <2>1. Of(new, m) = Held(exs)
    BY <1>3 DEF Of
  <2>2. Of(old, m) = Spared(Of(rs, m), Held(exs))
    <3>1. ASSUME NEW r \in rs, NEW ex PROVE Store!SameKey(r, ex) <=> Store!SameKey(Store!Ex(r), ex)
      BY DEF Store!SameKey, Store!Ex
    <3>2. ASSUME NEW x \in Of(old, m) PROVE x \in Spared(Of(rs, m), Held(exs))
      <4>1. PICK r \in rs : x = Store!Ex(r) /\ r.model = m /\ ~\E ex \in Held(exs) : Store!SameKey(r, ex)
        BY DEF Of
      <4>2. x \in Of(rs, m)
        BY <4>1 DEF Of
      <4>3. \A ex \in Held(exs) : ~Store!SameKey(x, ex)
        BY <3>1, <4>1
      <4> QED
        BY <4>2, <4>3 DEF Spared
    <3>3. ASSUME NEW x \in Spared(Of(rs, m), Held(exs)) PROVE x \in Of(old, m)
      <4>1. x \in Of(rs, m) /\ \A ex \in Held(exs) : ~Store!SameKey(x, ex)
        BY DEF Spared
      <4>2. PICK r \in rs : x = Store!Ex(r) /\ r.model = m
        BY <4>1 DEF Of
      <4>3. r \in old
        BY <3>1, <4>1, <4>2
      <4> HIDE DEF old
      <4> QED
        BY <4>2, <4>3 DEF Of
    <3> QED
      BY <3>2, <3>3
  <2>3. Of(old \cup new, m) = Of(old, m) \cup Of(new, m)
    <3> HIDE DEF old, new
    <3> QED
      BY DEF Of
  <2> QED
    BY <2>1, <2>2, <2>3
<1> HIDE DEF old, new
<1> QED
  BY <1>1, <1>5, <1>6, <1>7, <1>8 DEF TableKeyed, Distinct

\* Upserting the same examples in the table and in memory keeps them together.
LEMMA UpsertAgrees ==
  ASSUME NEW rs, NEW exs, NEW m, NEW mx, Agreeing(rs, exs, m, mx), NEW news \in Seq(Piece), Keyed(news)
  PROVE  Agreeing(Store!Upsert(rs, news, m), Store!Put(exs, news), m, mx)
<1>1. /\ TableKeyed(Store!Upsert(rs, news, m))
      /\ Of(Store!Upsert(rs, news, m), m) = Spared(Of(rs, m), Held(news)) \cup Held(news)
  BY UpsertHolds DEF Agreeing
<1>2. /\ Store!Put(exs, news) \in Seq(Piece) /\ Keyed(Store!Put(exs, news))
      /\ Held(Store!Put(exs, news)) = Spared(Held(exs), Held(news)) \cup Held(news)
  BY PutHolds DEF Agreeing
<1> QED
  BY <1>1, <1>2 DEF Agreeing, Spared

\* So does removing files from both.
LEMMA RemoveAgrees ==
  ASSUME NEW rs, NEW exs, NEW m, NEW mx, Agreeing(rs, exs, m, mx), NEW gone
  PROVE  Agreeing({r \in rs : r.file \notin gone}, Store!Kept(exs, gone), m, mx)
<1> DEFINE left == {r \in rs : r.file \notin gone}
<1>1. TableKeyed(left)
  BY FS_Subset DEF Agreeing, TableKeyed, Distinct
<1>2. /\ Store!Kept(exs, gone) \in Seq(Piece) /\ Keyed(Store!Kept(exs, gone))
      /\ Held(Store!Kept(exs, gone)) = {x \in Held(exs) : x.file \notin gone}
  BY KeptHolds DEF Agreeing
<1>3. Of(left, m) = {x \in Of(rs, m) : x.file \notin gone}
  BY DEF Of, Store!Ex
<1> HIDE DEF left
<1>4. Agreeing(left, Store!Kept(exs, gone), m, mx)
  BY <1>1, <1>2, <1>3 DEF Agreeing
<1> QED
  BY <1>4 DEF left

\* No chunk of p has a row under q too.
Free(rs, p, q) == ~\E r, s \in rs : r.file = p /\ s.file = q /\ r.chunk = s.chunk

\* And moving a file to a name whose chunks are not in the table.
LEMMA MoveAgrees ==
  ASSUME NEW rs, NEW exs, NEW m, NEW mx, Agreeing(rs, exs, m, mx), NEW p, NEW q \in Paths,
         Free(rs, p, q)
  PROVE  Agreeing({IF r.file = p THEN [r EXCEPT !.file = q] ELSE r : r \in rs},
                  [i \in 1..Len(exs) |->
                     IF exs[i].file = p THEN [exs[i] EXCEPT !.file = q] ELSE exs[i]], m, mx)
<1> DEFINE to(x) == IF x.file = p THEN [x EXCEPT !.file = q] ELSE x
           moved == {to(r) : r \in rs}
           t == [i \in 1..Len(exs) |-> to(exs[i])]
<1>1. TableKeyed(rs) /\ exs \in Seq(Piece) /\ Keyed(exs)
  BY DEF Agreeing
<1>2. Held(exs) \subseteq Piece
  BY <1>1, HeldTyped
<1>3. ASSUME NEW x \in Piece
      PROVE  /\ to(x) \in Piece /\ to(x).chunk = x.chunk
             /\ to(x).file = IF x.file = p THEN q ELSE x.file
  BY DEF Piece
<1>4. ASSUME NEW r \in rs
      PROVE  /\ Store!Ex(to(r)) = to(Store!Ex(r)) /\ to(r).model = r.model
             /\ r.chunk = Store!Ex(r).chunk /\ r.file = Store!Ex(r).file /\ Store!Ex(r) \in Piece
             /\ to(r).chunk = r.chunk
             /\ to(r).file = IF r.file = p THEN q ELSE r.file
             /\ IsRow(to(r))
  <2>1. /\ r = [file |-> r.file, chunk |-> r.chunk, v |-> r.v, model |-> r.model, blob |-> r.blob]
        /\ Store!Ex(r) \in Piece
    BY <1>1 DEF TableKeyed, IsRow
  <2>2. /\ to(r) = [file |-> IF r.file = p THEN q ELSE r.file, chunk |-> r.chunk, v |-> r.v,
                   model |-> r.model, blob |-> r.blob]
    BY <2>1
  <2>3. /\ to(r).file = IF r.file = p THEN q ELSE r.file
        /\ to(r).chunk = r.chunk /\ to(r).v = r.v /\ to(r).model = r.model /\ to(r).blob = r.blob
    BY <2>2
  <2>4. /\ Store!Ex(r) = [file |-> r.file, chunk |-> r.chunk, v |-> r.v]
        /\ Store!Ex(to(r)) = [file |-> to(r).file, chunk |-> r.chunk, v |-> r.v]
    BY <2>3 DEF Store!Ex
  <2>5. Store!Ex(to(r)) = to(Store!Ex(r))
    BY <2>3, <2>4
  <2>6. Store!Ex(to(r)) \in Piece
    BY <1>3, <2>1, <2>5
  <2>7. IsRow(to(r))
    BY <2>2, <2>3, <2>6 DEF IsRow
  <2> HIDE DEF to
  <2> QED
    BY <2>1, <2>3, <2>4, <2>5, <2>7
<1> HIDE DEF to
<1>5. ASSUME NEW r \in rs, NEW s \in rs, Store!SameKey(to(r), to(s)) PROVE r = s
  <2>1. r.chunk = s.chunk /\ (r.file = s.file \/ (r.file = p /\ s.file = q) \/ (r.file = q /\ s.file = p))
    BY <1>4, <1>5 DEF Store!SameKey
  <2>2. r.file = s.file
    BY <2>1 DEF Free
  <2> QED
    BY <1>1, <2>1, <2>2 DEF TableKeyed, Distinct, Store!SameKey
<1>6. TableKeyed(moved)
  <2>1. IsFiniteSet(moved)
    <3> DEFINE f == [r \in rs |-> to(r)]
    <3>1. moved = {f[r] : r \in rs}
      OBVIOUS
    <3> HIDE DEF f, moved
    <3> QED
      BY <1>1, <3>1, ImageFinite DEF TableKeyed
  <2>2. \A r \in moved : IsRow(r)
    BY <1>4
  <2>3. Distinct(moved)
    BY <1>5 DEF Distinct
  <2> QED
    BY <2>1, <2>2, <2>3 DEF TableKeyed
<1>7. Of(moved, m) = {to(x) : x \in Of(rs, m)}
  <2>1. ASSUME NEW r \in rs, r.model = m PROVE to(Store!Ex(r)) \in Of(moved, m)
    BY <1>4, <2>1 DEF Of
  <2>2. ASSUME NEW r \in rs, to(r).model = m PROVE Store!Ex(to(r)) \in {to(x) : x \in Of(rs, m)}
    <3>1. Store!Ex(r) \in Of(rs, m)
      BY <1>4, <2>2 DEF Of
    <3> QED
      BY <1>4, <3>1
  <2>3. Of(moved, m) \subseteq {to(x) : x \in Of(rs, m)}
    BY <2>2 DEF Of
  <2>4. {to(x) : x \in Of(rs, m)} \subseteq Of(moved, m)
    <3> HIDE DEF moved
    <3> QED
      BY <2>1 DEF Of
  <2> QED
    BY <2>3, <2>4
<1>8. t \in Seq(Piece) /\ Len(t) = Len(exs) /\ \A i \in 1..Len(exs) : t[i] = to(exs[i])
  <2>1. Len(exs) \in Nat /\ \A i \in 1..Len(exs) : to(exs[i]) \in Piece
    BY <1>1, <1>3
  <2> QED
    BY <2>1
<1>9. Held(t) = {to(x) : x \in Held(exs)}
  <2> HIDE DEF t
  <2> QED
    BY <1>8 DEF Held
<1>10. Keyed(t)
  <2> SUFFICES ASSUME NEW i \in 1..Len(exs), NEW j \in 1..Len(exs), Store!SameKey(to(exs[i]), to(exs[j]))
               PROVE  i = j
    BY <1>8 DEF Keyed
  <2>1. exs[i] \in Of(rs, m) /\ exs[j] \in Of(rs, m)
    BY DEF Agreeing, Held
  <2>2. PICK r \in rs, s \in rs : exs[i] = Store!Ex(r) /\ exs[j] = Store!Ex(s)
    BY <2>1 DEF Of
  <2>3. Store!SameKey(to(r), to(s))
    BY <1>3, <1>4, <2>2 DEF Store!SameKey
  <2>4. exs[i] = exs[j]
    BY <1>5, <2>2, <2>3
  <2> QED
    BY <1>1, <2>4 DEF Keyed, Store!SameKey
<1> HIDE DEF moved, t
<1>11. Agreeing(moved, t, m, mx)
  BY <1>6, <1>7, <1>8, <1>9, <1>10 DEF Agreeing
<1> QED
  BY <1>11 DEF moved, t, to

\* The assumptions in the terms of the proofs.
LEMMA BasesAre ==
  ASSUME Store!StoreAssumption
  PROVE  BasesOrdered /\ IsFiniteSet(Paths) /\ Indexable \subseteq Paths /\ MaxChanges \in Nat
         /\ \A v \in 0..MaxChanges : Chunks[v] \in Nat
<1>1. Store!IsFiniteSet(Paths) = IsFiniteSet(Paths)
  BY Zenon DEF Store!IsFiniteSet, IsFiniteSet
<1> QED
  BY <1>1 DEF Store!StoreAssumption, BasesOrdered

\* The chunks of a version of a file.
LEMMA PiecesTyped ==
  ASSUME Store!StoreAssumption, NEW p \in Paths, NEW u \in 0..MaxChanges
  PROVE  /\ Chunks[u] \in Nat /\ Store!Pieces(p, u) \in Seq(Piece) /\ Len(Store!Pieces(p, u)) = Chunks[u]
         /\ \A i \in 1..Chunks[u] : Store!Pieces(p, u)[i] = [file |-> p, chunk |-> i, v |-> u]
<1>1. Chunks[u] \in Nat
  BY BasesAre
<1>2. Store!Pieces(p, u) = [i \in 1..Chunks[u] |-> [file |-> p, chunk |-> i, v |-> u]]
  BY DEF Store!Pieces
<1>3. \A i \in 1..Chunks[u] : [file |-> p, chunk |-> i, v |-> u] \in Piece
  BY <1>1 DEF Piece
<1> QED
  BY <1>1, <1>2, <1>3

\* The first of them, no two alike.
LEMMA FirstPieces ==
  ASSUME Store!StoreAssumption, NEW p \in Paths, NEW u \in 0..MaxChanges, NEW n \in 0..Chunks[u]
  PROVE  SubSeq(Store!Pieces(p, u), 1, n) \in Seq(Piece) /\ Keyed(SubSeq(Store!Pieces(p, u), 1, n))
<1> DEFINE s == Store!Pieces(p, u)
           t == SubSeq(s, 1, n)
<1>1. /\ Chunks[u] \in Nat /\ s \in Seq(Piece) /\ Len(s) = Chunks[u]
      /\ \A i \in 1..Chunks[u] : s[i] = [file |-> p, chunk |-> i, v |-> u]
  BY PiecesTyped
<1> HIDE DEF s
<1>2. n \in Nat /\ n <= Len(s) /\ s \in Seq(Piece)
  BY <1>1
<1>3. t \in Seq(Piece) /\ Len(t) = n /\ \A i \in 1..n : t[i] = s[i]
  BY <1>2
<1>4. \A i \in 1..n : t[i].chunk = i
  <2>1. ASSUME NEW i \in 1..n PROVE t[i].chunk = i
    <3>1. i \in 1..Chunks[u]
      BY <1>1
    <3>2. t[i] = [file |-> p, chunk |-> i, v |-> u]
      BY <1>1, <1>3, <3>1
    <3> QED
      BY <3>2
  <2> QED
    BY <2>1
<1> HIDE DEF t
<1>5. Keyed(t)
  BY <1>3, <1>4 DEF Keyed, Store!SameKey
<1> QED
  BY <1>3, <1>5 DEF t, s

\* What IndexDir collects, in its order.
LEMMA CollectedHolds ==
  ASSUME Store!StoreAssumption, dir \in [Paths -> 0..MaxChanges], NEW failed
  PROVE  Store!Collected(failed) \in Seq(Piece) /\ Keyed(Store!Collected(failed))
<1> DEFINE there == {p \in Indexable : dir[p] # 0}
           of(p) == Store!ToSet(Store!Pieces(p, dir[p]))
           all == UNION {of(p) : p \in there}
           S == {ex \in all : <<ex.file, ex.chunk>> \notin failed}
<1>1. /\ BasesOrdered /\ IsFiniteSet(there) /\ there \subseteq Paths
  <2>1. BasesOrdered /\ IsFiniteSet(Paths) /\ Indexable \subseteq Paths
    BY BasesAre
  <2>2. there \in SUBSET Paths
    BY <2>1
  <2> HIDE DEF there
  <2>3. IsFiniteSet(there)
    BY <2>1, <2>2, FS_Subset
  <2> QED
    BY <2>1, <2>2, <2>3
<1>2. ASSUME NEW p \in there
      PROVE  /\ IsFiniteSet(of(p)) /\ of(p) \subseteq Piece
             /\ \A x \in of(p) : x.file = p
             /\ \A x, y \in of(p) : x.chunk = y.chunk => x = y
  <2> DEFINE s == Store!Pieces(p, dir[p])
  <2>1. p \in Paths /\ dir[p] \in 0..MaxChanges
    BY <1>1
  <2>2. /\ Chunks[dir[p]] \in Nat /\ s \in Seq(Piece) /\ Len(s) = Chunks[dir[p]]
        /\ \A i \in 1..Len(s) : s[i] = [file |-> p, chunk |-> i, v |-> dir[p]]
    BY <2>1, PiecesTyped
  <2> HIDE DEF s
  <2>3. Store!ToSet(s) = Held(s) /\ IsFiniteSet(Held(s)) /\ Held(s) \subseteq Piece
    BY <2>2, HeldIs, HeldFinite, HeldTyped
  <2>4. /\ \A x \in Held(s) : x.file = p
        /\ \A x, y \in Held(s) : x.chunk = y.chunk => x = y
    <3>1. ASSUME NEW i \in 1..Len(s) PROVE s[i].file = p /\ s[i].chunk = i
      <4>1. s[i] = [file |-> p, chunk |-> i, v |-> dir[p]]
        BY <2>2
      <4> QED
        BY <4>1
    <3> QED
      BY <3>1 DEF Held
  <2>5. of(p) = Store!ToSet(s)
    BY DEF s
  <2> HIDE DEF of
  <2> QED
    BY <2>3, <2>4, <2>5
<1>3. IsFiniteSet(all)
  <2> DEFINE f == [p \in there |-> of(p)]
             U == {f[p] : p \in there}
  <2>1. IsFiniteSet(U)
    <3> HIDE DEF f, there
    <3> QED
      BY <1>1, ImageFinite
  <2>2. \A T \in U : IsFiniteSet(T)
    <3> HIDE DEF of, there
    <3> QED
      BY <1>2
  <2>3. U = {of(p) : p \in there}
    <3> HIDE DEF of, there
    <3> QED
      OBVIOUS
  <2> HIDE DEF U
  <2>4. IsFiniteSet(UNION U)
    BY <2>1, <2>2, FS_UNION
  <2> HIDE DEF of, there
  <2> QED
    BY <2>3, <2>4
<1> HIDE DEF of, there
<1>4. \A x \in all : \E p \in there : x \in of(p)
  OBVIOUS
<1>5. all \subseteq Piece
  BY <1>2, <1>4
<1>6. Distinct(all)
  <2> SUFFICES ASSUME NEW x \in all, NEW y \in all, Store!SameKey(x, y) PROVE x = y
    BY DEF Distinct
  <2> HIDE DEF all
  <2>1. PICK p \in there, q \in there : x \in of(p) /\ y \in of(q)
    BY <1>4
  <2>2. p = q /\ x.chunk = y.chunk
    BY <1>2, <2>1 DEF Store!SameKey
  <2> QED
    BY <1>2, <2>1, <2>2
<1>7. S \in SUBSET Piece /\ IsFiniteSet(S) /\ Distinct(S)
  <2> HIDE DEF all
  <2>1. S \in SUBSET all
    OBVIOUS
  <2> HIDE DEF S
  <2>2. IsFiniteSet(S)
    BY <1>3, <2>1, FS_Subset
  <2> QED
    BY <1>5, <1>6, <2>1, <2>2 DEF Distinct
<1>8. Store!Collected(failed) = Store!InOrder(S)
  BY DEF Store!Collected, of, there
<1> HIDE DEF S, all
<1> QED
  BY <1>1, <1>7, <1>8, InOrderHolds

\* Loading gives the rows, if they are all of the model.
LEMMA LoadHolds ==
  ASSUME Store!StoreAssumption, TableKeyed(rows), NEW m
  PROVE  /\ Store!Load(m) # <<>> => /\ \A r \in rows : r.model = m
                                /\ Store!Load(m) \in Seq(Piece) /\ Keyed(Store!Load(m))
                                /\ Held(Store!Load(m)) = Of(rows, m)
         /\ Store!Load(m) = <<>> => rows = {} \/ \E r \in rows : r.model # m
<1> DEFINE S == {Store!Ex(r) : r \in rows}
<1>1. BasesOrdered
  BY BasesAre
<1>2. S \in SUBSET Piece /\ IsFiniteSet(S) /\ Distinct(S)
  <2>1. S \in SUBSET Piece
    BY DEF TableKeyed, IsRow
  <2>2. IsFiniteSet(S)
    <3> DEFINE f == [r \in rows |-> Store!Ex(r)]
    <3>1. S = {f[r] : r \in rows}
      OBVIOUS
    <3> HIDE DEF f, S
    <3> QED
      BY <3>1, ImageFinite DEF TableKeyed
  <2>3. Distinct(S)
    <3>1. \A r, s \in rows : Store!SameKey(Store!Ex(r), Store!Ex(s)) => Store!SameKey(r, s)
      BY DEF Store!SameKey, Store!Ex
    <3> QED
      BY <3>1 DEF Distinct, TableKeyed
  <2> QED
    BY <2>1, <2>2, <2>3
<1>3. Store!Load(m) = IF \E r \in rows : r.model # m THEN <<>> ELSE Store!InOrder(S)
  BY DEF Store!Load
<1>4. S = {} => rows = {}
  OBVIOUS
<1>5. (\A r \in rows : r.model = m) => Of(rows, m) = S
  BY DEF Of
<1> HIDE DEF S
<1>6. Store!InOrder(S) \in Seq(Piece) /\ Held(Store!InOrder(S)) = S /\ Keyed(Store!InOrder(S))
  BY <1>1, <1>2, InOrderHolds
<1>7. Store!InOrder(S) = <<>> => S = {}
  <2>1. Held(<<>>) = {}
    BY DEF Held
  <2> QED
    BY <1>6, <2>1
<1>8. CASE \E r \in rows : r.model # m
  BY <1>3, <1>8
<1>9. CASE ~\E r \in rows : r.model # m
  BY <1>3, <1>4, <1>5, <1>6, <1>7, <1>9
<1> QED
  BY <1>8, <1>9

\* While the server is up, memory is of the table's examples; while it is down, empty.
StoreInv ==
  /\ dir \in [Paths -> 0..MaxChanges] /\ changes \in Nat /\ todo \subseteq Paths
  /\ TableKeyed(rows) /\ (watcher = "down" => examples = <<>>)
  /\ watcher # "down" => Agreeing(rows, examples, model, mixed)

\* A directory of first versions beside an empty table.
LEMMA StoreInits == Store!StoreAssumption /\ Store!RagInit => StoreInv
<1> SUFFICES ASSUME Store!StoreAssumption, Store!RagInit PROVE StoreInv
  OBVIOUS
<1>1. changes \in Nat
  <2>1. changes = Cardinality(Paths)
    BY StoreCounts DEF Store!RagInit
  <2> QED
    BY <2>1, BasesAre, FS_CardinalityType
<1>2. dir \in [Paths -> 0..MaxChanges]
  <2>1. /\ dir \in [Paths -> 0..Store!Cardinality(Paths)]
        /\ \A p \in Paths : dir[p] = 0 \/ dir[p] = Base[p].order
    BY DEF Store!RagInit
  <2>2. \A p \in Paths : Base[p].order \in 1..MaxChanges /\ MaxChanges \in Nat
    BY DEF Store!StoreAssumption
  <2>3. \A p \in Paths : dir[p] \in 0..MaxChanges
    BY <2>1, <2>2
  <2> QED
    BY <2>1, <2>3
<1>3. TableKeyed(rows)
  BY FS_EmptySet DEF Store!RagInit, TableKeyed, Distinct
<1> QED
  BY <1>1, <1>2, <1>3 DEF StoreInv, Store!RagInit

\* A start loads the rows, or reads the directory anew.
LEMMA StartAgrees ==
  ASSUME Store!StoreAssumption, StoreInv, NEW m, NEW failed, Store!Start(m, failed)
  PROVE  StoreInv'
<1>1. /\ model' = m /\ UNCHANGED <<dir, changes, todo>> /\ watcher' = "idle"
      /\ mixed' = ((\E r \in rows : r.model = m) /\ \E r \in rows : r.model # m)
      /\ \/ Store!Load(m) # <<>> /\ examples' = Store!Load(m) /\ rows' = rows
         \/ /\ Store!Load(m) = <<>> /\ examples' = Store!Put(<<>>, Store!Collected(failed))
            /\ rows' = Store!Upsert(rows, Store!Collected(failed), m)
  BY Zenon DEF Store!Start
<1>2. ~mixed' => ~((\E r \in rows : r.model = m) /\ \E r \in rows : r.model # m)
  BY <1>1, Zenon
<1>3. TableKeyed(rows) /\ dir \in [Paths -> 0..MaxChanges]
  BY DEF StoreInv
<1>4. CASE Store!Load(m) # <<>> /\ examples' = Store!Load(m) /\ rows' = rows
  <2>1. /\ Store!Load(m) \in Seq(Piece) /\ Keyed(Store!Load(m)) /\ Held(Store!Load(m)) = Of(rows, m)
    BY <1>3, <1>4, LoadHolds
  <2> QED
    BY <1>1, <1>3, <1>4, <2>1 DEF StoreInv, Agreeing
<1>5. CASE /\ Store!Load(m) = <<>> /\ examples' = Store!Put(<<>>, Store!Collected(failed))
           /\ rows' = Store!Upsert(rows, Store!Collected(failed), m)
  <2> DEFINE coll == Store!Collected(failed)
  <2>1. coll \in Seq(Piece) /\ Keyed(coll)
    BY <1>3, CollectedHolds
  <2>2. TableKeyed(rows') /\ Of(rows', m) = Spared(Of(rows, m), Held(coll)) \cup Held(coll)
    BY <1>3, <1>5, <2>1, UpsertHolds
  <2>3. <<>> \in Seq(Piece) /\ Keyed(<<>>) /\ Held(<<>>) = {}
    BY DEF Keyed, Held
  <2> HIDE DEF coll
  <2>4. /\ examples' \in Seq(Piece) /\ Keyed(examples')
        /\ Held(examples') = Spared(Held(<<>>), Held(coll)) \cup Held(coll)
    BY <1>5, <2>1, <2>3, PutHolds DEF coll
  <2>5. Held(examples') = Held(coll)
    BY <2>3, <2>4 DEF Spared
  <2>6. ASSUME ~mixed' PROVE Of(rows', m) \subseteq Held(examples')
    <3>1. rows = {} \/ \E r \in rows : r.model # m
      BY <1>3, <1>5, LoadHolds
    <3>2. Of(rows, m) = {}
      BY <1>2, <2>6, <3>1 DEF Of
    <3> QED
      BY <2>2, <2>5, <3>2 DEF Spared
  <2>7. Held(examples') \subseteq Of(rows', m)
    BY <2>2, <2>5
  <2>8. Agreeing(rows', examples', model', mixed')
    BY <1>1, <2>2, <2>4, <2>6, <2>7 DEF Agreeing
  <2> QED
    BY <1>1, <2>2, <2>8 DEF StoreInv
<1> QED
  BY <1>1, <1>4, <1>5

\* The end of a server leaves the table, whose blobs Close writes.
LEMMA StopAgrees ==
  ASSUME StoreInv, Store!Close \/ Store!Crash
  PROVE  StoreInv'
<1>1. /\ UNCHANGED <<dir, changes>> /\ todo' = {} /\ watcher' = "down" /\ examples' = <<>>
      /\ rows' = rows \/ rows' = {[r EXCEPT !.blob = TRUE] : r \in rows}
  BY DEF Store!Close, Store!Crash, Store!Gone
<1>2. ASSUME rows' = {[r EXCEPT !.blob = TRUE] : r \in rows} PROVE TableKeyed(rows')
  <2> DEFINE f == [r \in rows |-> [r EXCEPT !.blob = TRUE]]
  <2>1. rows' = {f[r] : r \in rows}
    BY <1>2
  <2>2. \A r \in rows : f[r].file = r.file /\ f[r].chunk = r.chunk /\ Store!Ex(f[r]) = Store!Ex(r)
                       /\ IsRow(f[r])
    <3> SUFFICES ASSUME NEW r \in rows
                 PROVE  f[r].file = r.file /\ f[r].chunk = r.chunk /\ Store!Ex(f[r]) = Store!Ex(r)
                        /\ IsRow(f[r])
      OBVIOUS
    <3>1. /\ r = [file |-> r.file, chunk |-> r.chunk, v |-> r.v, model |-> r.model, blob |-> r.blob]
          /\ Store!Ex(r) \in Piece
      BY DEF StoreInv, TableKeyed, IsRow
    <3>2. f[r] = [file |-> r.file, chunk |-> r.chunk, v |-> r.v, model |-> r.model, blob |-> TRUE]
      BY <3>1
    <3> HIDE DEF f
    <3> QED
      BY <3>1, <3>2 DEF Store!Ex, IsRow
  <2> HIDE DEF f
  <2>3. IsFiniteSet(rows')
    BY <2>1, ImageFinite DEF StoreInv, TableKeyed
  <2>4. Distinct(rows')
    <3> SUFFICES ASSUME NEW r \in rows, NEW s \in rows, Store!SameKey(f[r], f[s]) PROVE f[r] = f[s]
      BY <2>1 DEF Distinct
    <3>1. Store!SameKey(r, s)
      BY <2>2 DEF Store!SameKey
    <3> QED
      BY <3>1 DEF StoreInv, TableKeyed, Distinct
  <2> QED
    BY <2>1, <2>2, <2>3, <2>4 DEF StoreInv, TableKeyed
<1> QED
  BY <1>1, <1>2 DEF StoreInv

\* Storing a file anew.
LEMMA ReindexAgrees ==
  ASSUME Store!StoreAssumption, StoreInv, watcher # "down", NEW gone, NEW p \in Paths,
         NEW n \in 0..Chunks[dir[p]], Store!Reindex(gone, p, n)
  PROVE  Agreeing(rows', examples', model, mixed)
<1> DEFINE left == {r \in rows : r.file \notin gone}
           news == SubSeq(Store!Pieces(p, dir[p]), 1, n)
<1>1. /\ rows' = Store!Upsert(left, news, model)
      /\ examples' = Store!Put(Store!Kept(examples, gone), news)
  BY DEF Store!Reindex
<1>2. dir[p] \in 0..MaxChanges
  BY DEF StoreInv
<1>3. news \in Seq(Piece) /\ Keyed(news)
  BY <1>2, FirstPieces
<1>4. Agreeing(left, Store!Kept(examples, gone), model, mixed)
  BY RemoveAgrees DEF StoreInv
<1> HIDE DEF left, news
<1> QED
  BY <1>1, <1>3, <1>4, UpsertAgrees

\* Removing a file.
LEMMA RemoveFileAgrees ==
  ASSUME StoreInv, watcher # "down", NEW p, Store!RemoveFile(p)
  PROVE  Agreeing(rows', examples', model, mixed)
<1>1. Agreeing({r \in rows : r.file \notin {p}}, Store!Kept(examples, {p}), model, mixed)
  BY RemoveAgrees DEF StoreInv
<1>2. {r \in rows : r.file \notin {p}} = {r \in rows : r.file # p}
  OBVIOUS
<1> QED
  BY <1>1, <1>2 DEF Store!RemoveFile

\* The passes of the watcher.
LEMMA SweepAgrees ==
  ASSUME Store!StoreAssumption, StoreInv, Store!Sweep
  PROVE  StoreInv'
<1> DEFINE p == Store!First(todo)
<1>1. /\ watcher = "sweep" /\ watcher' = watcher /\ UNCHANGED <<dir, model, mixed, changes>>
      /\ todo' \subseteq todo
      /\ \/ Store!SweepRemove(p)
         \/ \E q \in Store!Matches(p) : Store!SweepMove(p, q) \/ Store!SweepFallback(p, q)
  BY DEF Store!Sweep
<1>2. \A q \in Store!Matches(p) : q \in Paths
  BY DEF Store!Matches
<1>3. Agreeing(rows, examples, model, mixed) /\ watcher # "down"
  BY <1>1 DEF StoreInv
<1> HIDE DEF p
<1>4. ASSUME Agreeing(rows', examples', model, mixed) PROVE StoreInv'
  BY <1>1, <1>4 DEF StoreInv, Agreeing
<1>5. ASSUME Store!SweepRemove(p) PROVE StoreInv'
  <2>1. UNCHANGED <<rows, examples>> \/ Store!RemoveFile(p)
    BY <1>5 DEF Store!SweepRemove
  <2> QED
    BY <1>3, <1>4, <2>1, RemoveFileAgrees
<1>6. ASSUME NEW q \in Paths, Store!SweepMove(p, q) PROVE StoreInv'
  <2>1. ~Store!Collides(p, q) /\ Store!MoveFile(p, q)
    BY <1>6 DEF Store!SweepMove
  <2>2. Free(rows, p, q)
    BY <2>1 DEF Store!Collides, Free
  <2>3. Agreeing({IF r.file = p THEN [r EXCEPT !.file = q] ELSE r : r \in rows},
                 [i \in 1..Len(examples) |->
                    IF examples[i].file = p THEN [examples[i] EXCEPT !.file = q] ELSE examples[i]],
                 model, mixed)
    BY <1>3, <2>2, MoveAgrees
  <2> QED
    BY <1>4, <2>1, <2>3 DEF Store!MoveFile
<1>7. ASSUME NEW q \in Paths, Store!SweepFallback(p, q) PROVE StoreInv'
  <2>1. Store!RemoveFile(p) \/ \E n \in 0..Chunks[dir[q]] : Store!Reindex({p, q}, q, n)
    BY <1>7 DEF Store!SweepFallback
  <2> QED
    BY <1>3, <1>4, <2>1, RemoveFileAgrees, ReindexAgrees
<1> QED
  BY <1>1, <1>2, <1>5, <1>6, <1>7

\* Storing what is new or changed.
LEMMA IndexFileAgrees ==
  ASSUME Store!StoreAssumption, StoreInv, Store!indexFile
  PROVE  StoreInv'
<1>1. /\ watcher = "index" /\ watcher' = watcher /\ UNCHANGED <<dir, model, mixed, changes>>
      /\ todo' \subseteq todo
      /\ \/ UNCHANGED <<rows, examples>>
         \/ \E p \in todo : \E n \in 0..Chunks[dir[p]] : Store!Reindex({p}, p, n)
  BY DEF Store!indexFile
<1>2. todo \subseteq Paths /\ Agreeing(rows, examples, model, mixed) /\ watcher # "down"
  BY <1>1 DEF StoreInv
<1>3. Agreeing(rows', examples', model, mixed)
  BY <1>1, <1>2, ReindexAgrees
<1> QED
  BY <1>1, <1>3 DEF StoreInv, Agreeing

\* What is left changes neither the table nor memory.
LEMMA RestAgrees ==
  ASSUME Store!StoreAssumption, StoreInv,
         \/ Store!scanOnce \/ Store!SweepEnds \/ Store!ScanEnds \/ Store!maybeRebuildIndex \/ UNCHANGED Store!ragVars
         \/ \E p, q \in Paths : Store!Write(p) \/ Store!Delete(p) \/ Store!Rename(p, q)
  PROVE  StoreInv'
<1>1. ASSUME Store!scanOnce \/ Store!SweepEnds \/ Store!ScanEnds \/ Store!maybeRebuildIndex \/ UNCHANGED Store!ragVars
      PROVE  StoreInv'
  <2>1. /\ UNCHANGED <<rows, examples, model, mixed, dir, changes>>
        /\ todo' = todo \/ todo' \subseteq Paths
        /\ watcher' = "down" <=> watcher = "down"
    BY <1>1 DEF Store!scanOnce, Store!SweepEnds, Store!ScanEnds, Store!maybeRebuildIndex, Store!ragVars,
                Store!storeVars, Store!watchVars
  <2> QED
    BY <2>1 DEF StoreInv
<1>2. ASSUME NEW p \in Paths, NEW q \in Paths, Store!Write(p) \/ Store!Delete(p) \/ Store!Rename(p, q)
      PROVE  StoreInv'
  <2>1. /\ UNCHANGED <<rows, examples, model, mixed, todo, watcher>>
        /\ changes < MaxChanges /\ changes' = changes + 1
        /\ \/ dir' = [dir EXCEPT ![p] = changes + 1]
           \/ dir' = [dir EXCEPT ![p] = 0]
           \/ dir' = [dir EXCEPT ![p] = 0, ![q] = dir[p]]
    BY <1>2 DEF Store!Write, Store!Delete, Store!Rename, Store!ChangeDir, Store!storeVars, Store!watchVars
  <2>2. /\ changes \in Nat /\ MaxChanges \in Nat /\ dir \in [Paths -> 0..MaxChanges]
    BY BasesAre DEF StoreInv
  <2>3. changes + 1 \in 0..MaxChanges /\ 0 \in 0..MaxChanges /\ dir[p] \in 0..MaxChanges
    BY <2>1, <2>2
  <2>4. dir' \in [Paths -> 0..MaxChanges]
    BY <2>1, <2>2, <2>3
  <2> QED
    BY <2>1, <2>2, <2>4 DEF StoreInv
<1> QED
  BY <1>1, <1>2

\* Every step of the server, its watcher and the users of the directory.
LEMMA StoreSteps == Store!StoreAssumption /\ StoreInv /\ [Store!RagNext]_(Store!ragVars) => StoreInv'
<1> SUFFICES ASSUME Store!StoreAssumption, StoreInv, [Store!RagNext]_(Store!ragVars) PROVE StoreInv'
  OBVIOUS
<1> QED
  BY StartAgrees, StopAgrees, SweepAgrees, IndexFileAgrees, RestAgrees, Zenon DEF Store!RagNext

\* What the invariant says of the sets it says of the sequence.
LEMMA StoreInvAgrees == StoreInv => Store!StoreAgrees
<1> SUFFICES ASSUME StoreInv, watcher # "down"
             PROVE  /\ Store!ToSet(examples) \subseteq Of(rows, model)
                    /\ ~mixed => Of(rows, model) \subseteq Store!ToSet(examples)
                    /\ Store!Cardinality(Store!ToSet(examples)) = Len(examples)
  BY DEF Store!StoreAgrees, Of
<1>1. Agreeing(rows, examples, model, mixed)
  BY DEF StoreInv
<1>2. examples \in Seq(Piece) /\ Keyed(examples) /\ Store!ToSet(examples) = Held(examples)
  BY <1>1, HeldIs DEF Agreeing
<1>3. Cardinality(Held(examples)) = Len(examples)
  <2> DEFINE n == Len(examples)
  <2>1. n \in Nat /\ \A i, j \in 1..n : examples[i] = examples[j] => i = j
    BY <1>2 DEF Keyed, Store!SameKey
  <2> DEFINE f == [i \in 1..n |-> examples[i]]
  <2>2. f \in Surjection(1..n, Held(examples)) /\ f \in Injection(1..n, Held(examples))
    BY <2>1 DEF Surjection, Injection, IsInjective, Held
  <2>3. IsFiniteSet(1..n) /\ Cardinality(1..n) = n
    <3> HIDE DEF n
    <3>1. IsFiniteSet(1..n) /\ Cardinality(1..n) = IF 1 > n THEN 0 ELSE n - 1 + 1
      BY <2>1, FS_Interval
    <3> QED
      BY <2>1, <3>1
  <2> HIDE DEF f, n
  <2>4. Cardinality(Held(examples)) = Cardinality(1..n)
    BY <2>2, <2>3, FS_Surjection
  <2> QED
    BY <2>3, <2>4 DEF n
<1> QED
  BY <1>1, <1>2, <1>3, StoreCounts DEF Agreeing

\* While a server is up, every example in memory is a row of the table under the embedder
\* that runs, and once, and memory lacks no row of it except those a start passed over
\* because there were rows of another: whatever the watcher stores, moves and removes,
\* whichever chunks fail to embed and wherever a crash falls, for any files, chunks and
\* embedders (rag/sqlite.go:386-727, rag/watcher.go:275-530).
THEOREM StoreTableAgrees == Store!RagSpec => []Store!StoreAgrees
<1>1. Store!RagInit => StoreInv
  BY RagAssumption, StoreInits
<1>2. StoreInv /\ [Store!RagNext]_(Store!ragVars) => StoreInv'
  BY RagAssumption, StoreSteps
<1> QED
  BY <1>1, <1>2, StoreInvAgrees, PTL DEF Store!RagSpec

\* What happens elsewhere leaves the store alone.
LEMMA StoreApart == [MCNext]_allVars => [Store!RagNext]_(Store!ragVars)
<1> SUFFICES ASSUME [MCNext]_allVars PROVE Store!RagNext \/ UNCHANGED storeVars
  BY DEF storeVars, Store!ragVars, Store!storeVars, Store!watchVars
<1> QED
  BY DEF MCNext, allVars, storeVars

\* Rows, examples and index agree, in every store: for any files, chunks, embedders and
\* changes, through failures, crashes and restarts (rag/sqlite.go, rag/rag.go, rag/watcher.go).
THEOREM StoreIsSound == MCSpec => []StoreSound
<1>1. MCInit => Store!RagInit
  BY DEF MCInit
<1>2. MCSpec => Store!RagSpec
  BY <1>1, StoreApart, PTL DEF MCSpec, Store!RagSpec
<1>3. Store!StoreAgrees /\ Store!IndexFaithful => StoreSound
  BY DEF StoreSound, Store!StoreSound
<1> QED
  BY <1>2, <1>3, StoreTableAgrees, StoreIndexFaithful, PTL

-----------------------------------------------------------------------------
(* Retrievals beside a changing store.                                     *)

Examples == [file : Files \cup {""}, v : Versions \cup {0}]
Stages == {"idle", "embed", "rebuild", "look", "score", "label", "quote", "done", "panicked"}

\* Every change drops the index, and the part of the array in use holds versions.
ArrayTypes ==
  /\ array \in [1..Room -> Examples] /\ length \in 0..Room
  /\ \A i \in 1..length : array[i].v \in Versions
  /\ indexed \in {0, length} /\ updates \in Nat

\* No two examples are of one file.
FilesApart == \A i, j \in 1..length : array[i].file = array[j].file => i = j

ReaderTypes ==
  /\ how \in [Readers -> {"single", "topk", "hybrid"}] /\ at \in [Readers -> Stages]
  /\ found \in [Readers -> Nat] /\ view \in [Readers -> Nat] /\ idx \in [Readers -> Nat]
  /\ hit = [r \in Readers |-> hit[r]] /\ given = [r \in Readers |-> given[r]]
  /\ since \in [Readers -> Nat \X Nat] /\ \A r \in Readers : since[r][1] <= updates

\* Nothing changed since the retrieval began.
Calm(r) == since[r][1] = updates

\* The position i is what a retrieval should come upon.
Proper(r, i) ==
  /\ i \in 1..length /\ Read!Score(i) > Least
  /\ how[r] = "single" => \A j \in 1..length : Read!Score(j) <= Read!Score(i)

\* What it leaves in the prompt: one example, or none when there is none.
Settled(r) ==
  \/ given[r] = <<>> /\ (how[r] = "single" => \A j \in 1..length : Read!Score(j) <= Least)
  \/ \E i \in 1..length : Proper(r, i) /\ given[r] = <<array[i]>>

\* What top-k leaves there: the best of the examples above the threshold, each once.
Topmost(g) ==
  /\ \A n \in DOMAIN g : \E i \in Read!Above : g[n] = array[i]
  /\ Read!IsInjective(g)
  /\ Len(g) = Read!Min({Read!Cardinality(Read!Above), Wanted})
  /\ \A i \in Read!Above : \A n \in DOMAIN g :
       g[n] = array[i] \/ Similarity[g[n].v] >= Read!Score(i) \/ \E m \in 1..(n - 1) : g[m] = array[i]

\* What a retrieval has in hand at each of its stages.
Progress(r) ==
  /\ at[r] \in {"idle", "embed", "rebuild", "look", "score", "label"} => given[r] = <<>>
  /\ at[r] \in {"embed", "rebuild", "look"} => view[r] = 0 /\ (Calm(r) => found[r] = length)
  /\ at[r] = "idle" => view[r] = 0
  /\ at[r] = "score" /\ Calm(r) => view[r] = length /\ idx[r] \in {0, length}
  /\ at[r] \in {"label", "quote"} =>
       how[r] # "topk" /\ (Calm(r) => view[r] = length /\ Proper(r, hit[r][1]))
  /\ at[r] = "quote" =>
       \E f : given[r] = <<[file |-> f, v |-> 0]>> /\ (Calm(r) => f = array[hit[r][1]].file)
  /\ at[r] = "done" /\ how[r] # "topk" =>
       Len(given[r]) <= 1 /\ (Calm(r) /\ view[r] # 0 => Settled(r))
  /\ at[r] = "done" /\ how[r] = "topk" =>
       Len(given[r]) <= Wanted /\ (Calm(r) /\ view[r] # 0 => Topmost(given[r]))

ReadInv == ArrayTypes /\ FilesApart /\ ReaderTypes /\ \A r \in Readers : Progress(r)

\* A store before any retrieval.
LEMMA ReadInit == Read!ReadAssumption /\ Read!RetrievalInit => ReadInv
<1> SUFFICES ASSUME Read!ReadAssumption, Read!RetrievalInit PROVE ReadInv
  OBVIOUS
<1>1. PICK n \in 0..Room : \E f \in [1..n -> Files], v \in [1..n -> Versions] :
        /\ Read!IsInjective(f) /\ length = n
        /\ array = [i \in 1..Room |-> IF i <= n THEN [file |-> f[i], v |-> v[i]] ELSE Read!Nothing]
  BY DEF Read!RetrievalInit
<1>2. PICK f \in [1..n -> Files], v \in [1..n -> Versions] :
        /\ Read!IsInjective(f) /\ length = n
        /\ array = [i \in 1..Room |-> IF i <= n THEN [file |-> f[i], v |-> v[i]] ELSE Read!Nothing]
  BY <1>1
<1>3. array \in [1..Room -> Examples] /\ length \in 0..Room
      /\ \A i \in 1..length : array[i].v \in Versions
  <2>1. /\ Read!Nothing \in Examples /\ Room \in Nat
        /\ \A i \in 1..n : /\ [file |-> f[i], v |-> v[i]] \in Examples
                           /\ [file |-> f[i], v |-> v[i]].v \in Versions
    BY DEF Read!Nothing, Examples, Read!ReadAssumption
  <2>2. \A i \in 1..Room : array[i] = IF i <= n THEN [file |-> f[i], v |-> v[i]] ELSE Read!Nothing
    BY <1>2, Zenon
  <2>3. ASSUME NEW i \in 1..Room
        PROVE  array[i] \in Examples /\ (i <= n => array[i].v \in Versions)
    <3>1. CASE i <= n
      <4>1. i \in 1..n /\ array[i] = [file |-> f[i], v |-> v[i]]
        BY <2>2, <3>1
      <4> QED
        BY <2>1, <4>1
    <3>2. CASE ~(i <= n)
      BY <2>1, <2>2, <3>2, Zenon
    <3> QED
      BY <3>1, <3>2
  <2>4. array = [i \in 1..Room |-> array[i]]
    BY <1>2, Zenon
  <2> QED
    BY <1>2, <2>1, <2>3, <2>4
<1>4. indexed \in {0, length} /\ updates \in Nat
  BY DEF Read!RetrievalInit
<1>7. FilesApart
  <2>1. ASSUME NEW i \in 1..n PROVE array[i].file = f[i]
    <3>1. i \in 1..Room /\ i <= n
      BY DEF Read!ReadAssumption
    <3>2. array[i] = [file |-> f[i], v |-> v[i]]
      BY <1>2, <3>1, Zenon
    <3> QED
      BY <3>2
  <2>2. \A i, j \in 1..n : f[i] = f[j] => i = j
    BY <1>2 DEF Read!IsInjective
  <2> QED
    BY <1>2, <2>1, <2>2 DEF FilesApart
<1>5. ReaderTypes
  BY DEF Read!RetrievalInit, ReaderTypes, Stages
<1>6. \A r \in Readers : at[r] = "idle" /\ given[r] = <<>> /\ view[r] = 0
  BY DEF Read!RetrievalInit
<1> QED
  BY <1>3, <1>4, <1>5, <1>6, <1>7 DEF ReadInv, ArrayTypes, Progress

\* A score depends on the array only, and what is in use has one.
LEMMA ScoreTyped ==
  ASSUME Read!ReadAssumption, ArrayTypes, NEW i \in 1..length
  PROVE  i \in 1..Room /\ Read!Score(i) = Similarity[array[i].v] /\ Read!Score(i) \in Int
<1>1. i \in 1..Room /\ array[i].v \in Versions /\ array[i].v # 0
  BY DEF Read!ReadAssumption, ArrayTypes
<1>2. Read!Score(i) = Similarity[array[i].v]
  BY <1>1, Zenon DEF Read!Score
<1> QED
  BY <1>1, <1>2 DEF Read!ReadAssumption

\* So scores stay while the array does.
LEMMA ScoreSame == ASSUME UNCHANGED array PROVE \A i : Read!Score(i)' = Read!Score(i)
BY DEF Read!Score

\* A step that leaves a reader and the store alone leaves it where it was.
LEMMA ReaderSame ==
  ASSUME NEW r \in Readers, Progress(r), UNCHANGED <<array, length, updates, how>>,
         at'[r] = at[r], found'[r] = found[r], view'[r] = view[r], idx'[r] = idx[r],
         hit'[r] = hit[r], since'[r] = since[r], given'[r] = given[r]
  PROVE  Progress(r)'
<1>1. Calm(r)' <=> Calm(r)
  BY DEF Calm
<1>2. \A i : Proper(r, i)' <=> Proper(r, i)
  BY ScoreSame DEF Proper
<1>3. Settled(r)' <=> Settled(r)
  <2>1. \A i : Read!Score(i)' = Read!Score(i)
    BY ScoreSame
  <2> QED
    BY <1>2, <2>1 DEF Settled
<1>4. Topmost(given[r])' <=> Topmost(given[r])
  <2>1. \A i : Read!Score(i)' = Read!Score(i)
    BY ScoreSame
  <2>2. Read!Above' = Read!Above
    BY <2>1 DEF Read!Above
  <2> QED
    BY <2>1, <2>2 DEF Topmost
<1> QED
  BY <1>1, <1>2, <1>3, <1>4 DEF Progress

\* Where nothing is calm, little has to be kept.
LEMMA ReaderDisturbed ==
  ASSUME NEW r \in Readers, Progress(r), UNCHANGED Read!readVars, ~Calm(r)'
  PROVE  Progress(r)'
<1>1. at'[r] = at[r] /\ given'[r] = given[r] /\ view'[r] = view[r] /\ how'[r] = how[r]
  BY DEF Read!readVars
<1> QED
  BY <1>1 DEF Progress

\* A set of positions has a first one.
LEMMA FirstOf ==
  ASSUME NEW T \in SUBSET Nat, T # {}
  PROVE  Read!Min(T) \in T /\ \A y \in T : Read!Min(T) <= y
<1>1. PICK x \in T : \A y \in T : ~ (<<y, x>> \in OpToRel(<, Nat))
  BY WFMin, NatLessThanWellFounded
<1>2. \A y \in T : ~ (y < x)
  BY <1>1 DEF OpToRel
<1>3. \A y \in T : x <= y
  BY <1>2
<1> QED
  BY <1>3, Zenon DEF Read!Min

\* The greater of two numbers.
LEMMA GreaterOf ==
  ASSUME NEW a \in Nat, NEW b \in Nat
  PROVE  Read!Max({a, b}) \in {a, b} /\ Read!Max({a, b}) >= a /\ Read!Max({a, b}) >= b
<1>1. \E x \in {a, b} : \A y \in {a, b} : x >= y
  OBVIOUS
<1>2. /\ Read!Max({a, b}) \in {a, b}
      /\ \A y \in {a, b} : Read!Max({a, b}) >= y
  BY <1>1, Zenon DEF Read!Max
<1> QED
  BY <1>2

\* A change of the watcher keeps the array typed.
LEMMA ChangeTypes ==
  ASSUME Read!ReadAssumption, ArrayTypes, Read!Watcher
  PROVE  ArrayTypes' /\ updates' = updates + 1 /\ UNCHANGED Read!readVars
<1>1. PICK f \in Files : \/ \E v \in Versions : Read!upsertExample(f, v)
                        \/ Read!removeExample(f) \/ \E g \in Files : Read!moveExample(f, g)
  BY DEF Read!Watcher
<1>2. Read!Change /\ indexed' = 0
  BY <1>1, Zenon DEF Read!upsertExample, Read!removeExample, Read!moveExample
<1>3. updates' = updates + 1 /\ updates' \in Nat /\ UNCHANGED Read!readVars
  BY <1>2 DEF Read!Change, ArrayTypes
<1> USE DEF ArrayTypes
<1>4. ASSUME NEW v \in Versions, Read!upsertExample(f, v) PROVE ArrayTypes'
  <2> DEFINE same == {i \in 1..length : array[i].file = f}
             place == IF same = {} THEN length + 1 ELSE Read!Min(same)
  <2>1. /\ place <= Room /\ array' = [array EXCEPT ![place] = [file |-> f, v |-> v]]
        /\ length' = Read!Max({length, place})
    BY <1>4, Zenon DEF Read!upsertExample
  <2>2. place \in 1..length + 1
    <3>1. CASE same = {}
      BY <3>1
    <3>2. CASE same # {}
      <4> HIDE DEF same
      <4>1. same \in SUBSET (1..length) /\ same \in SUBSET Nat
        BY DEF same
      <4>2. Read!Min(same) \in same
        BY <3>2, <4>1, FirstOf
      <4>3. place = Read!Min(same)
        BY <3>2, Zenon
      <4>4. place \in 1..length
        BY <4>1, <4>2, <4>3, Zenon
      <4> QED
        BY <4>4
    <3> QED
      BY <3>1, <3>2
  <2> HIDE DEF place
  <2>3. length' \in 0..Room /\ length' <= length + 1 /\ (length' = length + 1 => place = length + 1)
    BY <2>1, <2>2, GreaterOf DEF Read!ReadAssumption
  <2>4. array' \in [1..Room -> Examples]
    BY <2>1, <2>2 DEF Examples
  <2>5. ASSUME NEW i \in 1..length' PROVE array'[i].v \in Versions
    <3>1. CASE i = place
      BY <2>1, <2>3, <3>1 DEF Read!ReadAssumption
    <3>2. CASE i # place
      <4>1. Room \in Nat
        BY DEF Read!ReadAssumption
      <4>2. i \in 1..length
        BY <2>2, <2>3, <3>2, <4>1
      <4>3. array'[i] = array[i]
        BY <2>1, <2>2, <2>3, <3>2, <4>1, <4>2
      <4> QED
        BY <4>2, <4>3
    <3> QED
      BY <3>1, <3>2
  <2> QED
    BY <1>2, <1>3, <2>3, <2>4, <2>5
<1>5. ASSUME Read!removeExample(f) PROVE ArrayTypes'
  <2>1. PICK p \in 1..length :
          array' = [i \in 1..Room |-> IF i \in p..(length - 1) THEN array[i + 1] ELSE array[i]]
    BY <1>5, Zenon DEF Read!removeExample
  <2>2. length' = length - 1 /\ length' \in 0..Room
    BY <1>5, <2>1 DEF Read!removeExample, Read!ReadAssumption
  <2>3. \A i \in 1..Room : i \in p..(length - 1) => i + 1 \in 1..Room
    BY DEF Read!ReadAssumption
  <2>4. array' \in [1..Room -> Examples]
    BY <2>1, <2>3
  <2>5. \A i \in 1..length' : array'[i].v \in Versions
    BY <2>1, <2>2 DEF Read!ReadAssumption
  <2> QED
    BY <1>2, <1>3, <2>2, <2>4, <2>5
<1>6. ASSUME NEW g \in Files, Read!moveExample(f, g) PROVE ArrayTypes'
  <2>1. /\ array' = [i \in 1..Room |-> IF i <= length /\ array[i].file = f
                                       THEN [array[i] EXCEPT !.file = g] ELSE array[i]]
        /\ length' = length
    BY <1>6 DEF Read!moveExample
  <2>2. \A x \in Examples : [x EXCEPT !.file = g] \in Examples /\ [x EXCEPT !.file = g].v = x.v
    BY DEF Examples
  <2>3. \A i \in 1..Room : array'[i] \in Examples /\ array'[i].v = array[i].v
    BY <2>1, <2>2
  <2>4. array' = [i \in 1..Room |-> array'[i]]
    BY <2>1, Zenon
  <2>5. array' \in [1..Room -> Examples]
    BY <2>3, <2>4
  <2>6. \A i \in 1..length : i \in 1..Room
    BY DEF Read!ReadAssumption
  <2> QED
    BY <1>2, <1>3, <2>1, <2>3, <2>5, <2>6
<1> QED
  BY <1>1, <1>3, <1>4, <1>5, <1>6

\* And no two examples of one file.
LEMMA ChangeApart ==
  ASSUME Read!ReadAssumption, ArrayTypes, FilesApart, Read!Watcher
  PROVE  FilesApart'
<1>1. PICK f \in Files : \/ \E v \in Versions : Read!upsertExample(f, v)
                        \/ Read!removeExample(f) \/ \E g \in Files : Read!moveExample(f, g)
  BY DEF Read!Watcher
<1>2. /\ array \in [1..Room -> Examples] /\ length \in 0..Room /\ Room \in Nat /\ length \in Nat
      /\ \A i, j \in 1..length : array[i].file = array[j].file => i = j
  BY DEF ArrayTypes, FilesApart, Read!ReadAssumption
<1>3. ASSUME NEW v \in Versions, Read!upsertExample(f, v) PROVE FilesApart'
  <2> DEFINE same == {i \in 1..length : array[i].file = f}
             place == IF same = {} THEN length + 1 ELSE Read!Min(same)
  <2>1. /\ place <= Room /\ array' = [array EXCEPT ![place] = [file |-> f, v |-> v]]
        /\ length' = Read!Max({length, place})
    BY <1>3, Zenon DEF Read!upsertExample
  <2>2. CASE same = {}
    <3>1. place = length + 1
      BY <2>2
    <3>2. length' = length + 1
      BY <1>2, <2>1, <3>1, GreaterOf
    <3>3. \A i \in 1..length : array[i].file # f /\ array'[i] = array[i]
      BY <1>2, <2>1, <2>2, <3>1
    <3>4. array'[length + 1] = [file |-> f, v |-> v]
      BY <1>2, <2>1, <3>1
    <3>5. array'[length + 1].file = f
      BY <3>4
    <3> QED
      BY <1>2, <3>2, <3>3, <3>5 DEF FilesApart
  <2>3. CASE same # {}
    <3> HIDE DEF same
    <3>1. same \in SUBSET (1..length) /\ same \in SUBSET Nat
      BY <1>2 DEF same
    <3>2. place \in same
      BY <2>3, <3>1, FirstOf
    <3> HIDE DEF place
    <3>3. place \in 1..length /\ array[place].file = f
      BY <3>2 DEF same
    <3>4. length' = length
      BY <1>2, <2>1, <3>3, GreaterOf
    <3>5. array'[place] = [file |-> f, v |-> v]
      BY <1>2, <2>1, <3>3
    <3>6. array'[place].file = array[place].file
      BY <3>3, <3>5
    <3>7. \A i \in 1..length : array'[i].file = array[i].file
      BY <1>2, <2>1, <3>3, <3>6
    <3> QED
      BY <1>2, <3>4, <3>7 DEF FilesApart
  <2> QED
    BY <2>2, <2>3
<1>4. ASSUME Read!removeExample(f) PROVE FilesApart'
  <2>1. PICK p \in 1..length :
          array' = [i \in 1..Room |-> IF i \in p..(length - 1) THEN array[i + 1] ELSE array[i]]
    BY <1>4, Zenon DEF Read!removeExample
  <2>2. length' = length - 1
    BY <1>4, Zenon DEF Read!removeExample
  <2> DEFINE from(i) == IF i \in p..(length - 1) THEN i + 1 ELSE i
  <2>3. \A i \in 1..length' : from(i) \in 1..length /\ array'[i] = array[from(i)]
    BY <1>2, <2>1, <2>2
  <2>4. \A i, j \in 1..length' : from(i) = from(j) => i = j
    BY <1>2, <2>2
  <2> HIDE DEF from
  <2> QED
    BY <1>2, <2>3, <2>4 DEF FilesApart
<1>5. ASSUME NEW g \in Files, Read!moveExample(f, g) PROVE FilesApart'
  <2>1. /\ array' = [i \in 1..Room |-> IF i <= length /\ array[i].file = f
                                       THEN [array[i] EXCEPT !.file = g] ELSE array[i]]
        /\ length' = length /\ \A i \in 1..length : array[i].file # g
    BY <1>5 DEF Read!moveExample
  <2>2. \A x \in Examples : [x EXCEPT !.file = g].file = g
    BY DEF Examples
  <2>3. \A i \in 1..length : array'[i].file = IF array[i].file = f THEN g ELSE array[i].file
    BY <1>2, <2>1, <2>2
  <2> QED
    BY <1>2, <2>1, <2>3 DEF FilesApart
<1> QED
  BY <1>1, <1>3, <1>4, <1>5

\* A change of the watcher disturbs every retrieval under way.
LEMMA WatcherKeeps ==
  ASSUME Read!ReadAssumption, ReadInv, Read!Watcher
  PROVE  ReadInv'
<1>1. ArrayTypes' /\ updates' = updates + 1 /\ UNCHANGED Read!readVars
  BY ChangeTypes DEF ReadInv
<1>2. ReaderTypes' /\ \A r \in Readers : ~Calm(r)'
  BY <1>1 DEF ReadInv, ReaderTypes, ArrayTypes, Read!readVars, Calm
<1>3. \A r \in Readers : Progress(r)'
  BY <1>1, <1>2, ReaderDisturbed DEF ReadInv
<1>4. FilesApart'
  BY ChangeApart DEF ReadInv
<1> QED
  BY <1>1, <1>2, <1>3, <1>4 DEF ReadInv

\* A step of one reader: the others and what the theorem does not speak of are as before.
Alone(r) ==
  /\ UNCHANGED <<array, length, updates, how>>
  /\ \A q \in Readers \ {r} :
       /\ at'[q] = at[q] /\ found'[q] = found[q] /\ view'[q] = view[q] /\ idx'[q] = idx[q]
       /\ hit'[q] = hit[q] /\ since'[q] = since[q] /\ given'[q] = given[q]

\* So a step of one reader need only be looked at for that reader.
LEMMA ReaderKeeps ==
  ASSUME NEW r \in Readers, ReadInv, Alone(r), ArrayTypes', ReaderTypes', Progress(r)'
  PROVE  ReadInv'
<1>1. \A q \in Readers \ {r} : Progress(q)'
  BY ReaderSame DEF ReadInv, Alone
<1>2. FilesApart'
  BY DEF ReadInv, Alone, FilesApart
<1> QED
  BY <1>1, <1>2 DEF ReadInv

\* The stages before the scores.
LEMMA BeginKeeps ==
  ASSUME Read!ReadAssumption, ReadInv, NEW r \in Readers, Read!Begin(r)
  PROVE  ReadInv'
<1> USE DEF ReadInv, ArrayTypes, ReaderTypes, Stages
<1>1. Alone(r)
  BY DEF Read!Begin, Read!Goto, Alone
<1>2. ArrayTypes' /\ ReaderTypes'
  BY DEF Read!Begin, Read!Goto, Read!ReadAssumption
<1>3. Progress(r)'
  <2>1. /\ at[r] = "idle" /\ at'[r] \in {"embed", "done"} /\ UNCHANGED <<length, updates, given, view>>
        /\ found'[r] = length /\ (at'[r] = "done" => length = 0)
    BY DEF Read!Begin, Read!Goto
  <2>2. given[r] = <<>> /\ Len(given[r]) = 0 /\ view[r] = 0 /\ Wanted \in Nat
    BY <2>1 DEF Progress, Read!ReadAssumption
  <2> QED
    BY <2>1, <2>2 DEF Progress, Calm
<1> QED
  BY <1>1, <1>2, <1>3, ReaderKeeps

\* The embedding, the rebuilt index and the look at both.
LEMMA LookKeeps ==
  ASSUME Read!ReadAssumption, ReadInv, NEW r \in Readers, Read!Embed(r) \/ Read!Rebuild(r) \/ Read!Look(r)
  PROVE  ReadInv'
<1> USE DEF ReadInv, ArrayTypes, ReaderTypes, Stages
<1>1. Alone(r)
  BY DEF Read!Embed, Read!Rebuild, Read!Look, Read!Goto, Alone
<1>2. ASSUME Read!Embed(r) PROVE ArrayTypes' /\ ReaderTypes' /\ Progress(r)'
  <2>1. ArrayTypes' /\ ReaderTypes'
    BY <1>2 DEF Read!Embed, Read!Goto
  <2>2. /\ at[r] = "embed" /\ at'[r] \in {"rebuild", "done"}
        /\ UNCHANGED <<given, view, found, length, updates, since>>
    BY <1>2 DEF Read!Embed, Read!Goto
  <2>3. given[r] = <<>> /\ Len(given[r]) = 0 /\ view[r] = 0 /\ (Calm(r) => found[r] = length)
        /\ Wanted \in Nat
    BY <2>2 DEF Progress, Read!ReadAssumption
  <2> QED
    BY <2>1, <2>2, <2>3 DEF Progress, Calm
<1>3. ASSUME Read!Rebuild(r) PROVE ArrayTypes' /\ ReaderTypes' /\ Progress(r)'
  BY <1>3 DEF Read!Rebuild, Read!Goto, Progress, Calm
<1>4. ASSUME Read!Look(r) PROVE ArrayTypes' /\ ReaderTypes' /\ Progress(r)'
  BY <1>4 DEF Read!Look, Read!Goto, Progress, Calm
<1> QED
  BY <1>1, <1>2, <1>3, <1>4, ReaderKeeps

\* A retrieval with the whole array before it scores every example there is.
LEMMA CandidatesAll ==
  ASSUME Read!ReadAssumption, ArrayTypes, NEW r \in Readers, view[r] = length, idx[r] \in {0, length}
  PROVE  Read!Candidates(r) = 1..length
<1>1. length \in Nat
  BY DEF ArrayTypes, Read!ReadAssumption
<1>2. Read!Min({length, length}) = length
  <2>1. {length, length} \in SUBSET Nat /\ {length, length} # {}
    BY <1>1
  <2> QED
    BY <2>1, FirstOf
<1>3. CASE idx[r] = 0
  BY <1>3, Zenon DEF Read!Candidates
<1>4. CASE idx[r] = length
  BY <1>2, <1>3, <1>4, Zenon DEF Read!Candidates
<1> QED
  BY <1>3, <1>4

\* The instance counts as the theorems about finite sets do.
LEMMA SameCount == \A X : Read!Cardinality(X) = Cardinality(X)
  BY Zenon DEF Read!Cardinality, Cardinality

\* Counting what is better numbers positions by descending similarity.
LEMMA SortedBest ==
  ASSUME NEW I \in SUBSET Nat, IsFiniteSet(I), \A i \in I : Read!Score(i) \in Int
  PROVE  \E place : LET s == Read!BySimilarity(I)
                        n == Cardinality(I)
                    IN /\ n \in Nat /\ s = [k \in 1..n |-> s[k]] /\ place = [i \in I |-> place[i]]
                       /\ \A k \in 1..n : s[k] \in I /\ place[s[k]] = k
                       /\ \A i \in I : place[i] \in 1..n /\ s[place[i]] = i
                       /\ \A i, j \in I : Read!Better(i, j) => place[i] < place[j]
<1> DEFINE n == Cardinality(I)
           Rl == {p \in I \X I : Read!Better(p[1], p[2])}
           t == Read!BySimilarity(I)
           nth(k) == CHOOSE i \in I : Read!Cardinality({j \in I : Read!Better(j, i)}) = k - 1
           place == [i \in I |-> Cardinality(Before(Rl, I, i)) + 1]
<1>1. \A i, j \in I : <<i, j>> \in Rl <=> Read!Better(i, j)
  OBVIOUS
<1>2. Orders(Rl, I)
  <2>1. \A i \in I : ~Read!Better(i, i)
    BY DEF Read!Better
  <2>2. ASSUME NEW i \in I, NEW j \in I, NEW k \in I, Read!Better(i, j), Read!Better(j, k)
        PROVE  Read!Better(i, k)
    <3> DEFINE a == Read!Score(i)
               b == Read!Score(j)
               c == Read!Score(k)
    <3>1. /\ a \in Int /\ b \in Int /\ c \in Int /\ i \in Nat /\ j \in Nat /\ k \in Nat
          /\ a > b \/ (a = b /\ i < j)
          /\ b > c \/ (b = c /\ j < k)
      BY <2>2 DEF Read!Better
    <3> HIDE DEF a, b, c
    <3>2. a > c \/ (a = c /\ i < k)
      BY <3>1
    <3> QED
      BY <3>2 DEF a, c, Read!Better
  <2>3. ASSUME NEW i \in I, NEW j \in I, i # j PROVE Read!Better(i, j) \/ Read!Better(j, i)
    <3> DEFINE a == Read!Score(i)
               b == Read!Score(j)
    <3>1. a \in Int /\ b \in Int /\ i \in Nat /\ j \in Nat
      OBVIOUS
    <3> HIDE DEF a, b
    <3>2. a > b \/ (a = b /\ i < j) \/ b > a \/ (b = a /\ j < i)
      BY <2>3, <3>1
    <3> QED
      BY <3>2 DEF a, b, Read!Better
  <2> HIDE DEF Rl
  <2> QED
    BY <1>1, <2>1, <2>2, <2>3 DEF Orders
<1>3. ASSUME NEW k PROVE Nth(Rl, I, k) = nth(k)
  <2>1. \A i \in I : {j \in I : Read!Better(j, i)} = Before(Rl, I, i)
    <3> HIDE DEF Rl
    <3> QED
      BY <1>1 DEF Before
  <2>2. \A i \in I : Cardinality(Before(Rl, I, i)) = k - 1
                       <=> Read!Cardinality({j \in I : Read!Better(j, i)}) = k - 1
    BY <2>1, SameCount
  <2> HIDE DEF Rl
  <2> QED
    BY <2>2 DEF Nth
<1>4. t = [k \in 1..n |-> Nth(Rl, I, k)]
  <2>1. t = [k \in 1..n |-> nth(k)]
    BY SameCount DEF Read!BySimilarity
  <2> HIDE DEF t, n, Rl, nth
  <2> QED
    BY <1>3, <2>1
<1>5. /\ n \in Nat
      /\ \A k \in 1..n : Nth(Rl, I, k) \in I /\ Cardinality(Before(Rl, I, Nth(Rl, I, k))) = k - 1
      /\ \A i \in I : \E k \in 1..n : Nth(Rl, I, k) = i
      /\ \A i, j \in I : <<i, j>> \in Rl =>
           /\ Cardinality(Before(Rl, I, i)) \in Nat /\ Cardinality(Before(Rl, I, j)) \in Nat
           /\ Cardinality(Before(Rl, I, i)) < Cardinality(Before(Rl, I, j))
  <2> HIDE DEF Rl
  <2> QED
    BY <1>2, Numbered
<1>6. \A i \in I : place[i] = Cardinality(Before(Rl, I, i)) + 1
  OBVIOUS
<1>10. place = [i \in I |-> place[i]]
  OBVIOUS
<1> HIDE DEF Rl, t, n, place
<1>7. \A k \in 1..n : t[k] \in I /\ place[t[k]] = k
  <2> SUFFICES ASSUME NEW k \in 1..n PROVE t[k] \in I /\ place[t[k]] = k
    OBVIOUS
  <2>1. t[k] \in I /\ Cardinality(Before(Rl, I, t[k])) = k - 1
    BY <1>4, <1>5
  <2>2. place[t[k]] = (k - 1) + 1
    BY <1>6, <2>1
  <2> QED
    BY <1>5, <2>1, <2>2
<1>8. \A i \in I : place[i] \in 1..n /\ t[place[i]] = i
  <2> SUFFICES ASSUME NEW i \in I PROVE place[i] \in 1..n /\ t[place[i]] = i
    OBVIOUS
  <2>1. PICK k \in 1..n : t[k] = i
    BY <1>4, <1>5
  <2> QED
    BY <1>7, <2>1
<1>9. ASSUME NEW i \in I, NEW j \in I, Read!Better(i, j) PROVE place[i] < place[j]
  <2> DEFINE a == Cardinality(Before(Rl, I, i))
             b == Cardinality(Before(Rl, I, j))
  <2>1. a \in Nat /\ b \in Nat /\ a < b
    BY <1>1, <1>5, <1>9
  <2>2. place[i] = a + 1 /\ place[j] = b + 1
    BY <1>6
  <2> HIDE DEF a, b
  <2> QED
    BY <2>1, <2>2
<1>11. t = [k \in 1..n |-> t[k]]
  BY <1>4
<1> QED
  BY <1>5, <1>7, <1>8, <1>9, <1>10, <1>11 DEF t, n

\* What top-k takes of them.
LEMMA TopKHolds ==
  ASSUME Read!ReadAssumption, ArrayTypes, FilesApart, ReaderTypes, NEW r \in Readers
  PROVE  LET g == [n \in DOMAIN Read!TopK(r) |-> array[Read!TopK(r)[n]]]
         IN  Len(g) <= Wanted /\ (Read!Candidates(r) = 1..length => Topmost(g))
<1> DEFINE I == {i \in Read!Candidates(r) : Read!Score(i) > Least}
           s == Read!BySimilarity(I)
           n == Cardinality(I)
           m == Read!Min({Wanted, Len(s)})
           g == [k \in DOMAIN Read!TopK(r) |-> array[Read!TopK(r)[k]]]
<1>1. Read!TopK(r) = SubSeq(s, 1, m)
  BY DEF Read!TopK
<1>2. I \in SUBSET Nat /\ IsFiniteSet(I) /\ n \in Nat
  <2>1. /\ view[r] \in Nat /\ idx[r] \in Nat /\ length \in Nat
    BY DEF ReaderTypes, ArrayTypes, Read!ReadAssumption
  <2>2. Read!Min({idx[r], view[r]}) \in Nat
    <3>1. {idx[r], view[r]} \in SUBSET Nat /\ {idx[r], view[r]} # {}
      BY <2>1
    <3> QED
      BY <3>1, FirstOf
  <2>3. PICK u \in Nat : Read!Candidates(r) = 1..u
    BY <2>1, <2>2, Zenon DEF Read!Candidates
  <2>4. IsFiniteSet(1..u) /\ 1..u \subseteq Nat
    BY FS_Interval
  <2>5. I \in SUBSET (1..u)
    BY <2>3
  <2> HIDE DEF I
  <2>6. IsFiniteSet(I)
    BY <2>4, <2>5, FS_Subset
  <2> QED
    BY <2>4, <2>5, <2>6, FS_CardinalityType
<1>3. s = [k \in 1..n |-> s[k]]
  <2> DEFINE nth(k) == CHOOSE i \in I : Read!Cardinality({j \in I : Read!Better(j, i)}) = k - 1
  <2>1. s = [k \in 1..n |-> nth(k)]
    <3> HIDE DEF I
    <3> QED
      BY SameCount DEF Read!BySimilarity
  <2> HIDE DEF s, n, nth
  <2> QED
    BY <2>1
<1> HIDE DEF s, n
<1>4. s \in Seq({s[k] : k \in 1..n}) /\ Len(s) = n
  BY <1>2, <1>3
<1>5. m \in Nat /\ m <= Wanted /\ m <= n /\ m = Read!Min({n, Wanted})
  <2>1. {Wanted, n} \in SUBSET Nat /\ {Wanted, n} # {} /\ {Wanted, n} = {n, Wanted}
    BY <1>2 DEF Read!ReadAssumption
  <2>2. Read!Min({Wanted, n}) \in {Wanted, n} /\ \A y \in {Wanted, n} : Read!Min({Wanted, n}) <= y
    BY <2>1, FirstOf
  <2>3. m = Read!Min({Wanted, n})
    BY <1>4
  <2> HIDE DEF m
  <2> QED
    BY <2>1, <2>2, <2>3
<1> HIDE DEF m
<1>6. /\ Read!TopK(r) \in Seq({s[k] : k \in 1..n}) /\ Len(Read!TopK(r)) = m
      /\ \A k \in 1..m : Read!TopK(r)[k] = s[k]
  <2> DEFINE T == {s[k] : k \in 1..n}
  <2> HIDE DEF T
  <2>1. s \in Seq(T) /\ Len(s) = n /\ m \in Nat /\ m <= Len(s)
    BY <1>4, <1>5 DEF T
  <2>2. /\ SubSeq(s, 1, m) \in Seq(T) /\ Len(SubSeq(s, 1, m)) = m
        /\ \A k \in 1..m : SubSeq(s, 1, m)[k] = s[k]
    BY <2>1
  <2> QED
    BY <1>1, <2>2 DEF T
<1>7. DOMAIN Read!TopK(r) = 1..m
  BY <1>6
<1>8. g = [k \in 1..m |-> array[s[k]]]
  BY <1>6, <1>7
<1> HIDE DEF g
<1>9. Len(g) = m /\ DOMAIN g = 1..m /\ \A k \in 1..m : g[k] = array[s[k]]
  BY <1>5, <1>8
<1>10. ASSUME Read!Candidates(r) = 1..length PROVE Topmost(g)
  <2>1. I = Read!Above
    BY <1>10 DEF Read!Above
  <2>2. \A i \in I : i \in 1..length /\ Read!Score(i) \in Int /\ Read!Score(i) = Similarity[array[i].v]
    BY <1>10, ScoreTyped
  <2> HIDE DEF I
  <2>3. PICK place : /\ \A k \in 1..n : s[k] \in I /\ place[s[k]] = k
                     /\ \A i \in I : place[i] \in 1..n /\ s[place[i]] = i
                     /\ \A i, j \in I : Read!Better(i, j) => place[i] < place[j]
    BY <1>2, <2>2, SortedBest DEF s, n
  <2>4. \A k \in 1..m : k \in 1..n /\ s[k] \in I /\ g[k] = array[s[k]]
    <3> SUFFICES ASSUME NEW k \in 1..m PROVE k \in 1..n /\ s[k] \in I /\ g[k] = array[s[k]]
      OBVIOUS
    <3>1. k \in 1..n
      BY <1>2, <1>5
    <3> QED
      BY <3>1, <1>9, <2>3
  <2>5. ASSUME NEW k \in 1..m, NEW l \in 1..m, g[k] = g[l] PROVE k = l
    <3>1. array[s[k]].file = array[s[l]].file /\ s[k] \in 1..length /\ s[l] \in 1..length
      BY <2>2, <2>4, <2>5
    <3>2. s[k] = s[l]
      BY <3>1 DEF FilesApart
    <3> QED
      BY <2>3, <2>4, <3>2
  <2>6. Len(g) = Read!Min({Read!Cardinality(Read!Above), Wanted})
    BY <1>5, <1>9, <2>1, SameCount DEF n
  <2>7. ASSUME NEW i \in I, NEW k \in 1..m
        PROVE  g[k] = array[i] \/ Similarity[g[k].v] >= Read!Score(i)
               \/ \E l \in 1..(k - 1) : g[l] = array[i]
    <3> DEFINE j == s[k]
    <3>1. j \in I /\ place[j] = k /\ g[k] = array[j] /\ Similarity[g[k].v] = Read!Score(j)
          /\ Read!Score(i) \in Int /\ Read!Score(j) \in Int
      BY <2>2, <2>3, <2>4
    <3>2. place[i] \in 1..n /\ s[place[i]] = i /\ k \in 1..n
      BY <2>3, <2>4
    <3> HIDE DEF j
    <3>3. CASE Read!Score(i) > Read!Score(j)
      <4>1. place[i] < k
        BY <2>3, <3>1, <3>3 DEF Read!Better
      <4>2. place[i] \in 1..(k - 1) /\ place[i] \in 1..m
        BY <1>2, <1>5, <3>2, <4>1
      <4>3. g[place[i]] = array[i]
        BY <2>4, <3>2, <4>2
      <4> QED
        BY <4>2, <4>3
    <3>4. CASE ~(Read!Score(i) > Read!Score(j))
      BY <3>1, <3>4
    <3> QED
      BY <3>3, <3>4
  <2>8. Read!IsInjective(g)
    BY <1>9, <2>5 DEF Read!IsInjective
  <2>9. \A k \in DOMAIN g : \E i \in Read!Above : g[k] = array[i]
    BY <1>9, <2>1, <2>4
  <2> QED
    BY <1>9, <2>1, <2>6, <2>7, <2>8, <2>9 DEF Topmost
<1>11. Len(g) <= Wanted
  BY <1>5, <1>9
<1> QED
  BY <1>10, <1>11 DEF g

\* The scores: a position in hand, or nothing to be found.
LEMMA ScoredKeeps ==
  ASSUME Read!ReadAssumption, ReadInv, NEW r \in Readers, Read!Scored(r)
  PROVE  ReadInv'
<1>1. /\ UNCHANGED <<array, length, indexed, updates, how, found, view, idx>>
      /\ at[r] = "score" /\ at'[r] \in {"label", "done"}
      /\ at' = [at EXCEPT ![r] = at'[r]]
      /\ since' = [since EXCEPT ![r] = <<@[1], updates>>]
  BY DEF Read!Scored, Read!Goto, ReadInv, ReaderTypes
<1>2. \/ how[r] = "topk" /\ at'[r] = "done" /\ hit' = [hit EXCEPT ![r] = hit'[r]]
         /\ given' = [given EXCEPT ![r] = given'[r]]
         /\ given'[r] = [n \in DOMAIN Read!TopK(r) |-> array[Read!TopK(r)[n]]]
      \/ /\ how[r] # "topk" /\ UNCHANGED given
         /\ \E i \in (IF how[r] = "hybrid" THEN Read!HybridBest(r) ELSE Read!Best(r)) :
              \/ Read!Score(i) > Least /\ hit' = [hit EXCEPT ![r] = <<i>>] /\ at'[r] = "label"
              \/ ~(Read!Score(i) > Least) /\ UNCHANGED hit /\ at'[r] = "done"
      \/ how[r] # "topk" /\ Read!Candidates(r) = {} /\ UNCHANGED <<hit, given>> /\ at'[r] = "done"
  BY DEF Read!Scored, Read!Goto, ReadInv, ReaderTypes
<1>3. Alone(r) /\ ArrayTypes' /\ ReaderTypes' /\ (Calm(r)' <=> Calm(r))
  <2>1. Alone(r)
    BY <1>1, <1>2 DEF ReadInv, ReaderTypes, Alone
  <2>2. ArrayTypes'
    BY <1>1 DEF ReadInv, ArrayTypes
  <2>3. /\ since'[r][1] = since[r][1] /\ since' \in [Readers -> Nat \X Nat]
        /\ \A q \in Readers : since'[q][1] <= updates'
    BY <1>1 DEF ReadInv, ReaderTypes, ArrayTypes
  <2>4. at' \in [Readers -> Stages] /\ hit' = [q \in Readers |-> hit'[q]]
        /\ given' = [q \in Readers |-> given'[q]]
    BY <1>1, <1>2 DEF ReadInv, ReaderTypes, Stages
  <2> QED
    BY <1>1, <2>1, <2>2, <2>3, <2>4 DEF ReadInv, ReaderTypes, Calm
<1>4. \A i : Read!Score(i)' = Read!Score(i)
  BY <1>1, ScoreSame
<1>5. given[r] = <<>> /\ Len(given[r]) = 0
      /\ (Calm(r) => view[r] = length /\ Read!Candidates(r) = 1..length)
  <2>1. given[r] = <<>> /\ (Calm(r) => view[r] = length /\ idx[r] \in {0, length})
    BY <1>1 DEF ReadInv, Progress
  <2> QED
    BY <2>1, CandidatesAll DEF ReadInv
<1>6. ASSUME NEW i \in (IF how[r] = "hybrid" THEN Read!HybridBest(r) ELSE Read!Best(r)), Calm(r)
      PROVE  /\ i \in 1..length /\ Read!Score(i) \in Int
             /\ how[r] = "single" => \A j \in 1..length : Read!Score(j) \in Int /\ Read!Score(j) <= Read!Score(i)
  <2>1. Read!Candidates(r) = 1..length
    BY <1>5, <1>6
  <2>2. i \in 1..length
    BY <1>6, <2>1 DEF Read!HybridBest, Read!Best
  <2>3. \A j \in 1..length : Read!Score(j) \in Int
    BY ScoreTyped DEF ReadInv
  <2>4. ASSUME how[r] = "single", NEW j \in 1..length
        PROVE  Read!Score(j) < Read!Score(i) \/ Read!Score(j) = Read!Score(i)
    BY <1>6, <2>1, <2>4, Zenon DEF Read!Best
  <2> QED
    BY <2>2, <2>3, <2>4
<1>7. how'[r] = how[r] /\ length' = length /\ view'[r] = view[r]
  BY <1>1
<1>8. ASSUME how[r] = "topk", at'[r] = "done",
             given'[r] = [n \in DOMAIN Read!TopK(r) |-> array[Read!TopK(r)[n]]]
      PROVE  Progress(r)'
  <2> DEFINE g == [n \in DOMAIN Read!TopK(r) |-> array[Read!TopK(r)[n]]]
  <2>1. Len(g) <= Wanted /\ (Read!Candidates(r) = 1..length => Topmost(g))
    BY TopKHolds DEF ReadInv
  <2>2. given'[r] = g
    BY <1>8
  <2> HIDE DEF g
  <2>3. Read!Above' = Read!Above
    BY <1>1, <1>4 DEF Read!Above
  <2>4. Topmost(g) => Topmost(given[r])'
    BY <1>1, <1>4, <2>2, <2>3 DEF Topmost
  <2> QED
    BY <1>3, <1>5, <1>7, <1>8, <2>1, <2>2, <2>4 DEF Progress
<1>9. ASSUME NEW i \in (IF how[r] = "hybrid" THEN Read!HybridBest(r) ELSE Read!Best(r)),
             how[r] # "topk", UNCHANGED given, Read!Score(i) > Least,
             hit' = [hit EXCEPT ![r] = <<i>>], at'[r] = "label"
      PROVE  Progress(r)'
  <2>1. hit'[r][1] = i
    BY <1>9 DEF ReadInv, ReaderTypes
  <2>2. Calm(r) => Proper(r, i)'
    BY <1>4, <1>6, <1>7, <1>9 DEF Proper
  <2>3. Calm(r) => Proper(r, hit[r][1])'
    BY <2>1, <2>2 DEF Proper
  <2> QED
    BY <1>3, <1>5, <1>7, <1>9, <2>3 DEF Progress
<1>10. ASSUME how[r] # "topk", UNCHANGED given, at'[r] = "done",
              Calm(r) /\ how[r] = "single" => \A j \in 1..length : Read!Score(j) <= Least
       PROVE  Progress(r)'
  <2>1. Calm(r) => Settled(r)'
    BY <1>4, <1>5, <1>7, <1>10 DEF Settled
  <2> QED
    BY <1>3, <1>5, <1>7, <1>10, <2>1 DEF Progress
<1>11. ASSUME NEW i \in (IF how[r] = "hybrid" THEN Read!HybridBest(r) ELSE Read!Best(r)),
              Calm(r) /\ how[r] = "single", ~(Read!Score(i) > Least)
       PROVE  \A j \in 1..length : Read!Score(j) <= Least
  BY <1>6, <1>11 DEF Read!ReadAssumption
<1>12. ASSUME how[r] # "topk", UNCHANGED given,
              NEW i \in (IF how[r] = "hybrid" THEN Read!HybridBest(r) ELSE Read!Best(r)),
              \/ Read!Score(i) > Least /\ hit' = [hit EXCEPT ![r] = <<i>>] /\ at'[r] = "label"
              \/ ~(Read!Score(i) > Least) /\ UNCHANGED hit /\ at'[r] = "done"
       PROVE  Progress(r)'
  BY <1>9, <1>10, <1>11, <1>12, Zenon
<1>13. ASSUME how[r] # "topk", Read!Candidates(r) = {}, UNCHANGED given, at'[r] = "done"
       PROVE  Progress(r)'
  <2>1. Calm(r) => \A j \in 1..length : Read!Score(j) <= Least
    BY <1>5, <1>13
  <2> QED
    BY <1>10, <1>13, <2>1, Zenon
<1>14. Progress(r)'
  BY <1>2, <1>8, <1>12, <1>13, Zenon
<1> QED
  BY <1>3, <1>14, ReaderKeeps

\* The handler reads the example through a pointer: the file first, then the content.
LEMMA QuoteKeeps ==
  ASSUME Read!ReadAssumption, ReadInv, NEW r \in Readers, Read!Label(r) \/ Read!Quote(r) \/ Read!Panic(r)
  PROVE  ReadInv'
<1>1. Alone(r) /\ UNCHANGED <<indexed, found, view, idx, hit, since>>
  BY DEF Read!Label, Read!Quote, Read!Panic, Read!Goto, Alone, ReadInv, ReaderTypes
<1>2. ArrayTypes' /\ (Calm(r)' <=> Calm(r)) /\ (\A i : Read!Score(i)' = Read!Score(i))
  BY <1>1, ScoreSame DEF ReadInv, ArrayTypes, Alone, Calm
<1>3. ReaderTypes'
  BY <1>1 DEF Read!Label, Read!Quote, Read!Panic, Read!Goto, Alone, ReadInv, ReaderTypes, Stages
<1>4. Progress(r) /\ \A i : Proper(r, i)' <=> Proper(r, i)
  BY <1>1, <1>2 DEF ReadInv, Proper, Alone
<1>5. ASSUME Read!Label(r) PROVE Progress(r)'
  <2>1. /\ at[r] = "label" /\ at'[r] = "quote"
        /\ given'[r] = <<[file |-> array[hit[r][1]].file, v |-> 0]>>
    BY <1>5 DEF Read!Label, Read!Goto, ReadInv, ReaderTypes
  <2>2. how[r] # "topk" /\ (Calm(r) => view[r] = length /\ Proper(r, hit[r][1]))
    BY <1>4, <2>1 DEF Progress
  <2>3. /\ how'[r] = how[r] /\ view'[r] = view[r] /\ length' = length /\ hit'[r][1] = hit[r][1]
        /\ array' = array
    BY <1>1 DEF Alone
  <2>4. Calm(r)' => view'[r] = length' /\ Proper(r, hit[r][1])'
    BY <1>2, <1>4, <2>2, <2>3
  <2> QED
    BY <1>2, <2>1, <2>2, <2>3, <2>4 DEF Progress
<1>6. ASSUME Read!Quote(r) PROVE Progress(r)'
  <2>1. /\ at[r] = "quote" /\ at'[r] = "done"
        /\ given'[r] = [given[r] EXCEPT ![1].v = array[hit[r][1]].v]
    BY <1>6 DEF Read!Quote, Read!Goto, ReadInv, ReaderTypes
  <2>2. PICK f : given[r] = <<[file |-> f, v |-> 0]>> /\ (Calm(r) => f = array[hit[r][1]].file)
    BY <1>4, <2>1 DEF Progress
  <2>3. given'[r] = <<[file |-> f, v |-> array[hit[r][1]].v]>>
    BY <2>1, <2>2
  <2>4. how[r] # "topk" /\ (Calm(r) => Proper(r, hit[r][1]))
    BY <1>4, <2>1 DEF Progress
  <2>5. Calm(r) => given'[r] = <<array[hit[r][1]]>>
    <3>1. SUFFICES ASSUME Calm(r) PROVE given'[r] = <<array[hit[r][1]]>>
      OBVIOUS
    <3>2. hit[r][1] \in 1..Room
      BY <2>4, <3>1, ScoreTyped DEF Proper, ReadInv
    <3>3. array[hit[r][1]] \in Examples
      BY <3>2 DEF ReadInv, ArrayTypes
    <3> QED
      BY <2>2, <2>3, <3>1, <3>3 DEF Examples
  <2>6. Calm(r)' => Settled(r)'
    BY <1>1, <1>2, <1>4, <2>4, <2>5 DEF Settled, Proper, Alone
  <2>7. Len(given'[r]) <= 1
    BY <2>3
  <2>8. at'[r] = "done" /\ how'[r] # "topk"
    BY <1>1, <2>1, <2>4 DEF Alone
  <2> QED
    BY <2>6, <2>7, <2>8 DEF Progress
<1>7. ASSUME Read!Panic(r) PROVE Progress(r)'
  BY <1>7 DEF Read!Panic, Read!Goto, ReadInv, ReaderTypes, Progress
<1> QED
  BY <1>1, <1>2, <1>3, <1>5, <1>6, <1>7, ReaderKeeps

\* Every step of a retrieval or of the watcher.
LEMMA ReadStep == Read!ReadAssumption /\ ReadInv /\ [Read!RetrievalNext]_(Read!retrievalVars) => ReadInv'
<1> SUFFICES ASSUME Read!ReadAssumption, ReadInv, [Read!RetrievalNext]_(Read!retrievalVars)
             PROVE  ReadInv'
  OBVIOUS
<1>1. ASSUME NEW r \in Readers, Read!Reading(r) PROVE ReadInv'
  BY <1>1, BeginKeeps, LookKeeps, ScoredKeeps, QuoteKeeps, Zenon DEF Read!Reading
<1>2. ASSUME Read!Watcher PROVE ReadInv'
  BY <1>2, WatcherKeeps
<1>3. ASSUME UNCHANGED Read!retrievalVars PROVE ReadInv'
  <2>1. /\ UNCHANGED <<array, length, indexed, updates, how, at, found, view, idx, hit, since, given>>
    BY <1>3, Zenon DEF Read!retrievalVars, Read!readVars
  <2>2. ArrayTypes' /\ ReaderTypes'
    BY <2>1 DEF ReadInv, ArrayTypes, ReaderTypes
  <2>3. \A r \in Readers : Progress(r)'
    BY <2>1, ReaderSame DEF ReadInv
  <2>4. FilesApart'
    BY <2>1 DEF ReadInv, FilesApart
  <2> QED
    BY <2>2, <2>3, <2>4 DEF ReadInv
<1> QED
  BY <1>1, <1>2, <1>3, Zenon DEF Read!RetrievalNext

\* Of a number and one, the smaller.
LEMMA MinOfOne ==
  ASSUME NEW n \in Nat
  PROVE  Read!Min({n, 1}) = IF n = 0 THEN 0 ELSE 1
<1>1. {n, 1} \in SUBSET Nat /\ {n, 1} # {}
  OBVIOUS
<1>2. Read!Min({n, 1}) \in {n, 1} /\ \A y \in {n, 1} : Read!Min({n, 1}) <= y
  BY <1>1, FirstOf
<1> QED
  BY <1>2

\* What a retrieval settled on is what there is to be found.
LEMMA SettledExact ==
  ASSUME Read!ReadAssumption, ReadInv, NEW r \in Readers, how[r] # "topk", Read!Ended(r)
  PROVE  Read!Exact(r)
<1>1. Len(given[r]) <= 1 /\ (Calm(r) => Settled(r))
  BY DEF ReadInv, Progress, Read!Ended
<1>2. Read!Above \subseteq 1..length /\ IsFiniteSet(Read!Above) /\ Cardinality(Read!Above) \in Nat
  <2>1. Read!Above \subseteq 1..length
    BY DEF Read!Above
  <2>2. IsFiniteSet(1..length)
    BY FS_Interval DEF ReadInv, ArrayTypes, Read!ReadAssumption
  <2>3. IsFiniteSet(Read!Above)
    BY <2>1, <2>2, FS_Subset
  <2> QED
    BY <2>1, <2>3, FS_CardinalityType
<1>3. ASSUME Calm(r), NEW i \in 1..length, Proper(r, i), given[r] = <<array[i]>>
      PROVE  Read!Exact(r)
  <2>1. i \in Read!Above
    BY <1>3 DEF Read!Above, Proper
  <2>2. Read!Score(i) = Similarity[array[i].v] /\ \A j \in Read!Above : Read!Score(j) \in Int
    BY <1>2, <1>3, ScoreTyped DEF ReadInv
  <2>3. Cardinality(Read!Above) # 0
    BY <1>2, <2>1, FS_EmptySet
  <2>4. Read!Min({Read!Cardinality(Read!Above), 1}) = 1
    BY <1>2, <2>3, SameCount, MinOfOne
  <2>5. DOMAIN given[r] = {1} /\ given[r][1] = array[i] /\ Len(given[r]) = 1
    BY <1>3
  <2>6. Read!IsInjective(given[r])
    BY <2>5 DEF Read!IsInjective
  <2>7. ASSUME how[r] = "single", NEW j \in Read!Above, NEW n \in DOMAIN given[r]
        PROVE  Similarity[given[r][n].v] >= Read!Score(j)
    <3>1. Read!Score(j) <= Read!Score(i) /\ Read!Score(j) \in Int /\ Read!Score(i) \in Int
      BY <1>2, <1>3, <2>1, <2>2, <2>7 DEF Proper
    <3>2. Similarity[given[r][n].v] = Read!Score(i)
      BY <2>2, <2>5
    <3> QED
      BY <3>1, <3>2
  <2>8. how[r] \in {"single", "hybrid"}
    BY DEF ReadInv, ReaderTypes
  <2>9. \A n \in DOMAIN given[r] : \E j \in Read!Above : given[r][n] = array[j]
    BY <2>1, <2>5
  <2>10. CASE how[r] = "hybrid"
    BY <2>5, <2>6, <2>9, <2>10 DEF Read!Exact
  <2>11. CASE how[r] = "single"
    <3>1. Len(given[r]) = Read!Min({Read!Cardinality(Read!Above), 1})
      BY <2>4, <2>5
    <3>2. \A j \in Read!Above : \A n \in DOMAIN given[r] : Similarity[given[r][n].v] >= Read!Score(j)
      BY <2>7, <2>11
    <3>3. Len(given[r]) <= 1 /\ how[r] # "topk" /\ how[r] # "hybrid"
      BY <2>5, <2>11
    <3> QED
      BY <3>1, <3>2, <3>3, <2>6, <2>9, Zenon DEF Read!Exact
  <2> QED
    BY <2>8, <2>10, <2>11
<1>4. ASSUME Calm(r), given[r] = <<>>, how[r] = "single" => \A j \in 1..length : Read!Score(j) <= Least
      PROVE  Read!Exact(r)
  <2>1. ASSUME how[r] = "single" PROVE Read!Above = {}
    BY <1>2, <1>4, <2>1, ScoreTyped DEF Read!Above, ReadInv, Read!ReadAssumption
  <2>2. ASSUME how[r] = "single" PROVE Read!Min({Read!Cardinality(Read!Above), 1}) = 0
    BY <2>1, <2>2, SameCount, FS_EmptySet, MinOfOne
  <2>3. how[r] \in {"single", "hybrid"}
    BY DEF ReadInv, ReaderTypes
  <2> QED
    BY <1>1, <1>4, <2>2, <2>3 DEF Read!Exact, Read!IsInjective, Calm
<1>5. CASE ~Calm(r)
  BY <1>1, <1>5 DEF Read!Exact, Calm
<1> QED
  BY <1>1, <1>3, <1>4, <1>5 DEF Settled

\* And so is what top-k gives.
LEMMA TopmostExact ==
  ASSUME ReadInv, NEW r \in Readers, how[r] = "topk", Read!Ended(r)
  PROVE  Read!Exact(r)
<1>1. Len(given[r]) <= Wanted /\ (Calm(r) => Topmost(given[r]))
  BY DEF ReadInv, Progress, Read!Ended
<1>2. CASE ~Calm(r)
  BY <1>1, <1>2 DEF Read!Exact, Calm
<1>3. CASE Calm(r)
  <2>1. Topmost(given[r]) /\ how[r] # "hybrid"
    BY <1>1, <1>3
  <2> QED
    BY <1>1, <2>1, Zenon DEF Read!Exact, Topmost
<1> QED
  BY <1>2, <1>3

\* A retrieval during which nothing changed gives what the whole store has to offer, be it
\* through the index, as far as the index finds what is nearest, or not: Retrieve the most
\* similar example above the threshold if there is one, RetrieveTopK the k most similar,
\* each once and none passed over for a less similar one, retrieveHybrid one above the
\* threshold or none.  One that is overtaken gives no more than it was asked for.  It holds
\* for any readers, files, similarities, thresholds, k and capacity, however the watcher
\* replaces, moves and removes examples in the array the readers point into
\* (rag/rag.go:1179-1404, 1391-1483).
THEOREM RetrievalsExact == MCSpec => []RetrievalExact
<1>1. MCInit => ReadInv
  BY RagAssumption, ReadInit DEF MCInit
<1>2. ReadInv /\ [MCNext]_allVars => ReadInv'
  <2> SUFFICES ASSUME ReadInv, [MCNext]_allVars
               PROVE  Read!RetrievalNext \/ UNCHANGED readVars
    BY RagAssumption, ReadStep DEF readVars, Read!retrievalVars, Read!readVars
  <2> QED
    BY DEF MCNext, allVars, readVars
<1>3. ReadInv => RetrievalExact
  BY RagAssumption, SettledExact, TopmostExact DEF RetrievalExact, Read!RetrievalExact
<1> QED
  BY <1>1, <1>2, <1>3, PTL DEF MCSpec
=============================================================================
