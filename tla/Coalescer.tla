----------------------------- MODULE Coalescer -----------------------------
(***************************************************************************)
(* The request coalescer of the provider cascade                           *)
(* (src/internal/upstream/coalesce.go): a short TTL cache with an LRU cap  *)
(* in front of golang.org/x/sync/singleflight.                             *)
(*                                                                         *)
(* What c.mu protects is one action.  The cache is looked up before the    *)
(* flight is joined, and the flight is over only after its result has been *)
(* stored, so several callers interleave between the three.  Every call    *)
(* is for one cascade step (an endpoint); its flight key is KeyOf.         *)
(***************************************************************************)
EXTENDS Integers, FiniteSets, Sequences, Functions

CONSTANTS
  Callers,     \* goroutines in fetchCascadeStep
  Endpoints,   \* the cascade steps, each with its own URL and key
  Keys,        \* flight keys
  KeyOf,       \* FlightKey: the model and the body, not the URL
  Leavers,     \* callers whose client may disconnect
  TTL,         \* NEXUS_COALESCE_TTL, 0 leaves only the flights
  MaxEntries,  \* NEXUS_COALESCE_MAX_ENTRIES, 0 disables the cap
  MaxTime,     \* bound on the clock
  MaxCalls     \* bound on the calls of Do

ASSUME CoalescerAssumption ==
  /\ KeyOf \in [Endpoints -> Keys]
  /\ Leavers \subseteq Callers
  /\ TTL \in Nat /\ MaxEntries \in Nat /\ MaxTime \in Nat /\ MaxCalls \in Nat

VARIABLES
  now,      \* the clock
  cache,    \* Coalescer.cache: a partial function from keys to entries
  order,    \* Coalescer.order, oldest first
  leader,   \* singleflight: the caller that runs each key's flight, if any
  pc,       \* where each caller stands in Do
  target,   \* the endpoint each caller asks for
  result,   \* what Do returned to it, or its flight has in hand
  gone,     \* callers whose client has disconnected
  calls     \* calls of Do so far

vars == <<now, cache, order, leader, pc, target, result, gone, calls>>

Positions == {"idle", "lookup", "join", "fetch", "store", "land", "waiting"}

\* An upstream reply: who gave it, when it was stored, how it ended.
None    == [from |-> "none", at |-> 0, outcome |-> "none"]
Replies == [from : Endpoints, at : 0..MaxTime, outcome : {"ok", "failed", "cancelled"}]
Entries == [reply : Replies, expiry : 0..(MaxTime + TTL)]

Key(c) == KeyOf[target[c]]

Fresh(k) == k \in DOMAIN cache /\ now < cache[k].expiry

Init ==
  /\ now = 0 /\ calls = 0
  /\ cache = [k \in {} |-> None] /\ order = <<>>
  /\ leader = [k \in Keys |-> {}]
  /\ pc = [c \in Callers |-> "idle"]
  /\ target \in [Callers -> Endpoints]
  /\ result = [c \in Callers |-> None]
  /\ gone = {}

Goto(c, here, there) == pc[c] = here /\ pc' = [pc EXCEPT ![c] = there]

-----------------------------------------------------------------------------
Call(c, e) ==
  /\ calls < MaxCalls /\ calls' = calls + 1
  /\ Goto(c, "idle", "lookup")
  /\ target' = [target EXCEPT ![c] = e]
  /\ result' = [result EXCEPT ![c] = None]
  /\ UNCHANGED <<now, cache, order, leader, gone>>

\* Step 1 of Do: the TTL cache, under c.mu.
Lookup(c) ==
  /\ \/ /\ Fresh(Key(c))
        /\ Goto(c, "lookup", "idle")
        /\ result' = [result EXCEPT ![c] = cache[Key(c)].reply]
     \/ /\ ~Fresh(Key(c))
        /\ Goto(c, "lookup", "join")
        /\ UNCHANGED result
  /\ UNCHANGED <<now, cache, order, leader, target, gone, calls>>

\* Everybody leads a flight of their own.
BugJoin(c) ==
  /\ Goto(c, "join", "fetch")
  /\ leader' = [leader EXCEPT ![Key(c)] = {c}]
  /\ UNCHANGED <<now, cache, order, target, result, gone, calls>>

\* Step 2: lead the flight of the key, or wait for whoever does.
Join(c) ==
  /\ Goto(c, "join", IF leader[Key(c)] = {} THEN "fetch" ELSE "waiting")
  /\ leader' = [leader EXCEPT ![Key(c)] = IF @ = {} THEN {c} ELSE @]
  /\ UNCHANGED <<now, cache, order, target, result, gone, calls>>

\* fn: the upstream exchange, on the context of the leader's own client.
Fetch(c) ==
  /\ Goto(c, "fetch", "store")
  /\ \E outcome \in IF c \in gone THEN {"cancelled"} ELSE {"ok", "failed"} :
       result' = [result EXCEPT ![c] =
                    [from |-> target[c], at |-> now, outcome |-> outcome]]
  /\ UNCHANGED <<now, cache, order, leader, target, gone, calls>>

-----------------------------------------------------------------------------
\* evictExpiredLocked: walks order once; an expired entry goes with the first
\* mention of its key, later mentions of it stay.
ExpiredIn(o, n) == {i \in 1..Len(o) : /\ o[i] \in DOMAIN cache
                                      /\ n >= cache[o[i]].expiry
                                      /\ \A j \in 1..(i - 1) : o[j] # o[i]}

\* What is left of a sequence without some of its indices, in order.
DropIndices(o, gaps) ==
  LET kept   == (1..Len(o)) \ gaps
      Nth(n) == CHOOSE i \in kept : Cardinality({j \in kept : j <= i}) = n
  IN  [n \in 1..Cardinality(kept) |-> o[Nth(n)]]

\* evictExpiredLocked, then evictOldestLocked when the cap is reached: what is
\* left of the cache and of order.
AfterEviction ==
  LET expired == ExpiredIn(order, now)
      live    == DropIndices(order, expired)
      left    == Restrict(cache, DOMAIN cache \ {order[i] : i \in expired})
  IN  IF MaxEntries > 0 /\ Cardinality(DOMAIN left) >= MaxEntries /\ live # <<>>
      THEN [cache |-> Restrict(left, DOMAIN left \ {Head(live)}), order |-> Tail(live)]
      ELSE [cache |-> left, order |-> live]

WithEntry(entries, k, entry) ==
  [x \in DOMAIN entries \cup {k} |-> IF x = k THEN entry ELSE entries[x]]

\* The leader's critical section: evict, store the reply (an error, too) and
\* mention its key, whether or not it is mentioned already.
Store(c) ==
  /\ Goto(c, "store", "land")
  /\ result' = [result EXCEPT ![c].at = now]
  /\ cache' = WithEntry(AfterEviction.cache, Key(c),
                        [reply |-> result'[c], expiry |-> now + TTL])
  /\ order' = Append(AfterEviction.order, Key(c))
  /\ UNCHANGED <<now, leader, target, gone, calls>>

Waiting(k) == {c \in Callers : pc[c] = "waiting" /\ Key(c) = k}

\* The flight ends without waking the callers that wait for it.
BugLand(c) ==
  /\ Goto(c, "land", "idle")
  /\ leader' = [leader EXCEPT ![Key(c)] = {}]
  /\ UNCHANGED <<now, cache, order, target, result, gone, calls>>

\* singleflight ends the flight: every caller that waits for it gets the same.
Land(c) ==
  /\ pc[c] = "land"
  /\ leader' = [leader EXCEPT ![Key(c)] = {}]
  /\ LET crew == Waiting(Key(c)) \cup {c}
     IN  /\ pc' = [d \in Callers |-> IF d \in crew THEN "idle" ELSE pc[d]]
         /\ result' = [d \in Callers |-> IF d \in crew THEN result[c] ELSE result[d]]
  /\ UNCHANGED <<now, cache, order, target, gone, calls>>

\* The environment: time passes, a client disconnects.
Tick ==
  /\ now < MaxTime /\ now' = now + 1
  /\ UNCHANGED <<cache, order, leader, pc, target, result, gone, calls>>

Leave(c) ==
  /\ c \in Leavers \ gone
  /\ gone' = gone \cup {c}
  /\ UNCHANGED <<now, cache, order, leader, pc, target, result, calls>>

\* A caller inside Do.
Do(c) == Lookup(c) \/ Join(c) \/ Fetch(c) \/ Store(c) \/ Land(c)

Next ==
  \/ \E c \in Callers : Do(c) \/ Leave(c) \/ \E e \in Endpoints : Call(c, e)
  \/ Tick

Spec == Init /\ [][Next]_vars

\* Goroutines run on and the exchange inside a flight ends (it has a timeout).
FairSpec == Spec /\ \A c \in Callers : WF_vars(Do(c))
-----------------------------------------------------------------------------
TypeOK ==
  /\ now \in 0..MaxTime /\ calls \in 0..MaxCalls
  /\ DOMAIN cache \subseteq Keys /\ \A k \in DOMAIN cache : cache[k] \in Entries
  /\ order \in Seq(Keys)
  /\ leader \in [Keys -> SUBSET Callers]
  /\ pc \in [Callers -> Positions]
  /\ target \in [Callers -> Endpoints]
  /\ result \in [Callers -> Replies \cup {None}]
  /\ gone \subseteq Leavers

\* A reply is shared while its flight is in the air and for TTL after it was
\* stored, never later, whoever stored, evicted or stored again in between.
SharedInWindow ==
  [][\A c \in Callers : (pc[c] # "idle" /\ pc'[c] = "idle" /\ c \notin leader[Key(c)])
        => \/ now < result'[c].at + TTL
           \/ leader[Key(c)] # {}]_vars

\* Eviction can reach whatever is cached: every cached key is mentioned in order,
\* whichever callers raced for it.
OrderCovers == DOMAIN cache \subseteq Range(order)

\* At most one exchange per key is in the air, and its waiters have a leader to
\* wake them.
OneFlight ==
  /\ \A c, d \in Callers :
       (pc[c] \in {"fetch", "store", "land"} /\ pc[d] \in {"fetch", "store", "land"}
          /\ Key(c) = Key(d)) => c = d
  /\ \A c \in Callers : pc[c] = "waiting" => leader[Key(c)] # {}

\* "An LRU cap bounds memory usage".
\* The code does not keep this: a key may be in the order twice.
CacheBounded == MaxEntries > 0 => Cardinality(DOMAIN cache) <= MaxEntries

\* "deduplicates identical concurrent non-streaming cascade requests": what a
\* caller gets comes from the step it asked for, so that falling back to the next
\* step really reaches another provider, as long as the steps have keys of their
\* own (the key names the model and the body, not the URL).
OwnEndpoint ==
  \A c \in Callers : (pc[c] = "idle" /\ result[c] # None) => result[c].from = target[c]

\* Everybody who calls Do gets out of it.
DoReturns == \A c \in Callers : (pc[c] # "idle") ~> (pc[c] = "idle")
=============================================================================
