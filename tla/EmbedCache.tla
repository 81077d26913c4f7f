------------------------------ MODULE EmbedCache ------------------------------
(* EmbedCache (internal/rag/rag.go): an LRU of embeddings with a TTL and a   *)
(* slot per text being loaded, on which later callers of the text wait.      *)
(*                                                                           *)
(* The vector of a text is the text itself, "none" the empty vector.  An     *)
(* element of the list is indexed when the index map points at it.           *)
EXTENDS Naturals, Sequences, FiniteSets, SequencesExt

CONSTANTS
  Callers,      \* requests, one call each; a slot is named by the caller that made it
  Keys,         \* texts
  BatchOf,      \* the texts of an EmbedBatch call, in order
  MaxEntries,
  MaxExpiries   \* bound on the passing of the TTL

VARIABLES
  lru,      \* sequence of [key, fresh, indexed], most recently used first
  loading,  \* text -> the caller whose slot is registered, or "none"
  slot,     \* caller -> its slot's channel: "open", "sent", "failed", "closed"
  cpc,      \* caller -> "idle", "wait", "load", "direct", "batch", "done"
  asks,     \* caller -> what it asked for: a sequence of texts
  waits,    \* caller -> the slot it waits on
  missing,  \* caller -> positions of the batch that were not cached
  got,      \* caller -> the vectors it was given, or <<"error">>
  expiries

cacheVars == <<lru, loading, slot, cpc, asks, waits, missing, got, expiries>>

At(k) == {i \in 1..Len(lru) : lru[i].key = k /\ lru[i].indexed}
Fresh(k) == \E i \in At(k) : lru[i].fresh
Drop(l, S) == SelectSeq(l, LAMBDA e : ~(e.key \in S /\ e.indexed))
ToFront(l, k) ==
  SelectSeq(l, LAMBDA e : e.key = k /\ e.indexed) \o Drop(l, {k})

\* PushFront, point the index at the new element, evict at the back.
Insert(l, k) ==
  LET orphan(e) == IF e.key = k THEN [e EXCEPT !.indexed = FALSE] ELSE e
      pushed == <<[key |-> k, fresh |-> TRUE, indexed |-> TRUE]>> \o [i \in 1..Len(l) |-> orphan(l[i])]
      last == pushed[Len(pushed)].key
  IN IF Len(pushed) <= MaxEntries THEN pushed
     ELSE [i \in 1..Len(pushed) - 1 |->
             IF pushed[i].key = last THEN [pushed[i] EXCEPT !.indexed = FALSE] ELSE pushed[i]]

CacheInit ==
  /\ lru = <<>> /\ loading = [k \in Keys |-> "none"] /\ slot = [c \in Callers |-> "open"]
  /\ cpc = [c \in Callers |-> "idle"] /\ asks = [c \in Callers |-> <<>>]
  /\ waits = [c \in Callers |-> "none"] /\ missing = [c \in Callers |-> {}]
  /\ got = [c \in Callers |-> <<>>] /\ expiries = 0

Done(c, answer) == cpc' = [cpc EXCEPT ![c] = "done"] /\ got' = [got EXCEPT ![c] = answer]

\* Embed up to its first release of the lock: hit, wait on a slot, or make one.
Embed(c, k) ==
  /\ cpc[c] = "idle" /\ asks' = [asks EXCEPT ![c] = <<k>>]
  /\ \/ Fresh(k) /\ lru' = ToFront(lru, k) /\ Done(c, <<k>>) /\ UNCHANGED <<loading, waits>>
     \/ ~Fresh(k) /\ loading[k] # "none" /\ lru' = Drop(lru, {k})
        /\ waits' = [waits EXCEPT ![c] = loading[k]]
        /\ cpc' = [cpc EXCEPT ![c] = "wait"] /\ UNCHANGED <<loading, got>>
     \/ ~Fresh(k) /\ loading[k] = "none" /\ lru' = Drop(lru, {k})
        /\ loading' = [loading EXCEPT ![k] = c]
        /\ cpc' = [cpc EXCEPT ![c] = "load"] /\ UNCHANGED <<waits, got>>
  /\ UNCHANGED <<slot, missing, expiries>>

\* The channel holds one result; a receive from the closed channel gives the
\* zero value: an empty vector and no error.
Receive(c) ==
  /\ cpc[c] = "wait" /\ slot[waits[c]] # "open"
  /\ slot' = [slot EXCEPT ![waits[c]] = "closed"]
  /\ Done(c, CASE slot[waits[c]] = "sent" -> asks[c]
               [] slot[waits[c]] = "failed" -> <<"error">>
               [] slot[waits[c]] = "closed" -> <<"none">>)
  /\ UNCHANGED <<lru, loading, asks, waits, missing, expiries>>

\* The wait timeout, or the caller's context: whatever slot is registered goes.
StopWaiting(c) ==
  /\ cpc[c] = "wait" /\ loading' = [loading EXCEPT ![asks[c][1]] = "none"]
  /\ \/ cpc' = [cpc EXCEPT ![c] = "direct"] /\ UNCHANGED got
     \/ Done(c, <<"error">>)
  /\ UNCHANGED <<lru, slot, asks, waits, missing, expiries>>

\* The inner embedder answers a caller that gave up on its slot.
Direct(c) ==
  /\ cpc[c] = "direct" /\ \E answer \in {asks[c], <<"error">>} : Done(c, answer)
  /\ UNCHANGED <<lru, loading, slot, asks, waits, missing, expiries>>

BugLoaded(c) ==
  /\ cpc[c] = "load"
  /\ LET k == asks[c][1]
     IN /\ loading' = [loading EXCEPT ![k] = "none"]
        /\ \/ Done(c, <<"error">>) /\ UNCHANGED <<slot, lru>>
           \/ /\ slot' = [slot EXCEPT ![c] = "sent"] /\ Done(c, <<k>>)
              /\ lru' = IF Fresh(k) THEN ToFront(lru, k) ELSE Insert(Drop(lru, {k}), k)
  /\ UNCHANGED <<asks, waits, missing, expiries>>

\* The rest of Embed for the caller that owns a slot, after the inner embedder.
Loaded(c) ==
  /\ cpc[c] = "load"
  /\ LET k == asks[c][1]
     IN /\ loading' = [loading EXCEPT ![k] = "none"]
        /\ \/ slot' = [slot EXCEPT ![c] = "failed"] /\ Done(c, <<"error">>) /\ UNCHANGED lru
           \/ /\ slot' = [slot EXCEPT ![c] = "sent"] /\ Done(c, <<k>>)
              /\ lru' = IF Fresh(k) THEN ToFront(lru, k) ELSE Insert(Drop(lru, {k}), k)
  /\ UNCHANGED <<asks, waits, missing, expiries>>

\* EmbedBatch up to its call of the inner embedder.
EmbedBatch(c) ==
  /\ cpc[c] = "idle" /\ asks' = [asks EXCEPT ![c] = BatchOf]
  /\ LET uncached == {i \in 1..Len(BatchOf) : ~Fresh(BatchOf[i])}
         hits == {BatchOf[i] : i \in 1..Len(BatchOf)} \ {BatchOf[i] : i \in uncached}
     IN /\ missing' = [missing EXCEPT ![c] = uncached]
        /\ lru' = Drop(FoldLeft(LAMBDA l, k : IF k \in hits THEN ToFront(l, k) ELSE l, lru, BatchOf),
                       {BatchOf[i] : i \in uncached})
        /\ IF uncached = {} THEN Done(c, BatchOf) ELSE cpc' = [cpc EXCEPT ![c] = "batch"] /\ UNCHANGED got
  /\ UNCHANGED <<loading, slot, waits, expiries>>

\* The fetched vectors go to their positions; each is pushed, cached by now or not.
Batched(c) ==
  /\ cpc[c] = "batch"
  /\ \/ Done(c, <<"error">>) /\ UNCHANGED lru
     \/ /\ Done(c, asks[c])
        /\ lru' = FoldLeft(Insert, lru, SelectSeq(asks[c], LAMBDA k : \E i \in missing[c] : asks[c][i] = k))
  /\ missing' = [missing EXCEPT ![c] = {}] /\ UNCHANGED <<loading, slot, asks, waits, expiries>>

\* The TTL of everything cached passes.
Expire ==
  /\ expiries < MaxExpiries /\ expiries' = expiries + 1
  /\ lru' = [i \in 1..Len(lru) |-> [lru[i] EXCEPT !.fresh = FALSE]]
  /\ UNCHANGED <<loading, slot, cpc, asks, waits, missing, got>>

Inner(c) == Direct(c) \/ Loaded(c) \/ Batched(c)

CacheNext ==
  \/ \E c \in Callers : \/ \E k \in Keys : Embed(c, k)
                        \/ EmbedBatch(c) \/ Receive(c) \/ StopWaiting(c) \/ Inner(c)
  \/ Expire

CacheSpec == CacheInit /\ [][CacheNext]_cacheVars

-----------------------------------------------------------------------------
\* The cache never outgrows its bound, and one element at most answers for a text.
Bounded == Len(lru) <= MaxEntries /\ \A k \in Keys : Cardinality(At(k)) <= 1

\* A registered slot is one whose loader is still at work on that text: a caller that
\* starts to wait has somebody to wait for, however many gave up before it.
Loaders ==
  \A k \in Keys : loading[k] # "none" => cpc[loading[k]] = "load" /\ asks[loading[k]] = <<k>>

\* A waiter's slot was made for its text, and while nothing came through it its loader
\* is at work, although a timeout may have taken the slot out of the map.
Waiters ==
  \A c \in Callers : cpc[c] = "wait" =>
    asks[waits[c]] = asks[c] /\ (slot[waits[c]] = "open" => cpc[waits[c]] = "load")

\* What a caller gets is the vectors of the texts it asked for, in their
\* places, or an error; only a waiter may be given an empty vector instead.
Answers ==
  \A c \in Callers : cpc[c] = "done" =>
    got[c] \in {asks[c], <<"error">>} \/ (waits[c] # "none" /\ got[c] = <<"none">>)

\* The cache, its slots and what it hands out, whatever fails, expires or times out.
CacheSound == Bounded /\ Loaders /\ Waiters /\ Answers

\* The comment at the load says the result is broadcast to any other waiters:
\* nobody is given an empty vector as if it were the embedding.
\* The code does not keep this: one waiter receives the result, the others
\* read the zero value of the closed channel.
WaitersServed == \A c \in Callers : got[c] # <<"none">>

\* Nobody waits for ever on a slot, even one whose load failed or that was
\* dropped from the map by another waiter's timeout.
WaitersReturn == <>[](\A c \in Callers : cpc[c] # "wait")
=============================================================================
