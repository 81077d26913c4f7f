-------------------------- MODULE Upstream_proofs --------------------------
(***************************************************************************)
(* Proofs about the exchanges with the providers that requests share: the  *)
(* flights and the cache of the coalescer, and the fusion panel with its   *)
(* arbiter cache, for any number of callers, keys, panels and entries.     *)
(***************************************************************************)
EXTENDS MCUpstream, FiniteSetTheorems, SequenceTheorems, TLAPS

-----------------------------------------------------------------------------
(* The coalescer. *)

Flying == {"fetch", "store", "land"}

\* Who leads a flight is on it, alone, and who waits waits for somebody.
FlightsLed ==
  /\ \A k \in Keys : \A c \in leader[k] : pc[c] \in Flying /\ Key(c) = k
  /\ \A c \in Callers : pc[c] \in Flying => leader[Key(c)] = {c}
  /\ \A c \in Callers : pc[c] = "waiting" => leader[Key(c)] # {}

\* A reply is of an endpoint with the key it is kept, carried or returned under, and
\* lives for TTL from when it was stored.
RepliesKeyed ==
  /\ \A k \in DOMAIN cache : /\ KeyOf[cache[k].reply.from] = k
                             /\ cache[k].expiry = cache[k].reply.at + TTL
  /\ \A c \in Callers : pc[c] \in {"store", "land"} =>
       result[c] \in Replies /\ KeyOf[result[c].from] = Key(c)
  /\ \A c \in Callers : (pc[c] = "idle" /\ result[c] # None) => KeyOf[result[c].from] = Key(c)

CoalescerInv == TypeOK /\ FlightsLed /\ RepliesKeyed /\ OrderCovers

\* A reply is not what a caller has before it has one.
LEMMA NoneIsNone == None \notin Replies
  BY DEF None, Replies

\* Nobody is in Do and nothing is cached.
LEMMA CoalescerStarts == Init => CoalescerInv
  <1> SUFFICES ASSUME Init PROVE CoalescerInv
    OBVIOUS
  <1>1. DOMAIN cache = {} /\ order = <<>>
    BY DEF Init
  <1>2. TypeOK
    BY <1>1, CoalescerAssumption DEF Init, TypeOK, Positions
  <1>3. FlightsLed
    BY DEF Init, FlightsLed, Flying
  <1>4. RepliesKeyed
    BY <1>1 DEF Init, RepliesKeyed
  <1>5. OrderCovers
    BY <1>1 DEF OrderCovers
  <1> QED BY <1>2, <1>3, <1>4, <1>5 DEF CoalescerInv

\* What is left when some indices are dropped mentions every element at another index,
\* and nothing else.
LEMMA DropKeepsOthers ==
  ASSUME NEW S, NEW o \in Seq(S), NEW gaps
  PROVE  /\ DropIndices(o, gaps) \in Seq(S)
         /\ \A i \in (1..Len(o)) \ gaps :
              \E n \in 1..Len(DropIndices(o, gaps)) : DropIndices(o, gaps)[n] = o[i]
  <1> DEFINE kept == (1..Len(o)) \ gaps
             Upto(i) == {j \in kept : j <= i}
             Nth(n) == CHOOSE i \in kept : Cardinality(Upto(i)) = n
             N == Cardinality(kept)
             rank == [i \in kept |-> Cardinality(Upto(i))]
  <1>1. IsFiniteSet(kept) /\ N \in Nat /\ kept \subseteq Nat
    <2>1. Len(o) \in Nat
      OBVIOUS
    <2>2. IsFiniteSet(1..Len(o))
      BY <2>1, FS_Interval
    <2>3. IsFiniteSet(kept)
      BY <2>2, FS_Difference
    <2> QED BY <2>1, <2>3, FS_CardinalityType
  <1>2. \A i \in kept : IsFiniteSet(Upto(i)) /\ Cardinality(Upto(i)) \in 1..N
    <2> TAKE i \in kept
    <2>1. Upto(i) \in SUBSET kept /\ i \in Upto(i)
      BY <1>1
    <2>2. IsFiniteSet(Upto(i)) /\ Cardinality(Upto(i)) <= N
      BY <1>1, <2>1, FS_Subset
    <2>3. Cardinality(Upto(i)) \in Nat /\ Cardinality(Upto(i)) # 0
      BY <2>1, <2>2, FS_CardinalityType, FS_EmptySet
    <2> QED BY <1>1, <2>2, <2>3
  <1>3. ASSUME NEW i \in kept, NEW j \in kept, Cardinality(Upto(i)) = Cardinality(Upto(j)), i < j
        PROVE  FALSE
    <2>1. Upto(i) \in SUBSET Upto(j)
      BY <1>1, <1>3
    <2>2. Upto(i) = Upto(j)
      BY <1>2, <1>3, <2>1, FS_Subset
    <2>3. j \in Upto(j) /\ j \notin Upto(i)
      BY <1>1, <1>3
    <2> QED BY <2>2, <2>3
  <1>4. \A i, j \in kept : Cardinality(Upto(i)) = Cardinality(Upto(j)) => i = j
    <2> SUFFICES ASSUME NEW i \in kept, NEW j \in kept,
                        Cardinality(Upto(i)) = Cardinality(Upto(j)), i # j
                 PROVE  FALSE
      OBVIOUS
    <2>1. i < j \/ j < i
      BY <1>1
    <2> QED BY <1>3, <2>1
  <1> HIDE DEF kept, Upto, N
  <1>5. \A i \in kept : Nth(Cardinality(Upto(i))) = i
    <2> TAKE i \in kept
    <2>1. \E x \in kept : Cardinality(Upto(x)) = Cardinality(Upto(i))
      OBVIOUS
    <2>2. /\ Nth(Cardinality(Upto(i))) \in kept
          /\ Cardinality(Upto(Nth(Cardinality(Upto(i))))) = Cardinality(Upto(i))
      BY <2>1
    <2> QED BY <1>4, <2>2
  <1>6. \A n \in 1..N : Nth(n) \in kept
    <2>1. rank \in Injection(kept, 1..N)
      BY <1>2, <1>4 DEF Injection, IsInjective
    <2>2. IsFiniteSet(1..N) /\ Cardinality(1..N) = N
      BY <1>1, FS_Interval
    <2>3. rank \in Surjection(kept, 1..N)
      BY <2>1, <2>2, FS_Injection DEF N
    <2>4. \A n \in 1..N : \E i \in kept : rank[i] = n
      BY <2>3 DEF Surjection
    <2>5. \A n \in 1..N : \E i \in kept : Cardinality(Upto(i)) = n
      BY <2>4
    <2> QED BY <2>5
  <1>7. DropIndices(o, gaps) = [n \in 1..N |-> o[Nth(n)]]
    BY DEF DropIndices, kept, Upto, N
  <1>8. \A n \in 1..N : o[Nth(n)] \in S
    <2> HIDE DEF Nth
    <2>1. \A i \in kept : o[i] \in S
      BY ElementOfSeq DEF kept
    <2> QED BY <1>6, <2>1
  <1>9. DropIndices(o, gaps) \in Seq(S) /\ Len(DropIndices(o, gaps)) = N
    BY <1>1, <1>7, <1>8, IsASeq
  <1>10. \A i \in kept : \E n \in 1..N : DropIndices(o, gaps)[n] = o[i]
    BY <1>2, <1>5, <1>7
  <1> QED BY <1>9, <1>10 DEF kept

\* What eviction leaves: entries that were there, each of them mentioned in what is left
\* of the order.
LEMMA EvictionKeeps ==
  ASSUME TypeOK, OrderCovers
  PROVE  /\ DOMAIN AfterEviction.cache \subseteq DOMAIN cache
         /\ \A k \in DOMAIN AfterEviction.cache : AfterEviction.cache[k] = cache[k]
         /\ AfterEviction.order \in Seq(Keys)
         /\ \A k \in DOMAIN AfterEviction.cache :
              \E n \in 1..Len(AfterEviction.order) : AfterEviction.order[n] = k
  <1> DEFINE expired == ExpiredIn(order, now)
             live == DropIndices(order, expired)
             rest == Restrict(cache, DOMAIN cache \ {order[i] : i \in expired})
             full == MaxEntries > 0 /\ Cardinality(DOMAIN rest) >= MaxEntries /\ live # <<>>
  <1>1. /\ live \in Seq(Keys)
        /\ \A i \in (1..Len(order)) \ expired : \E n \in 1..Len(live) : live[n] = order[i]
    BY DropKeepsOthers DEF TypeOK
  <1>2. /\ DOMAIN rest = DOMAIN cache \ {order[i] : i \in expired}
        /\ \A k \in DOMAIN rest : rest[k] = cache[k]
    BY DEF Restrict
  <1>3. \A k \in DOMAIN cache : \E i \in 1..Len(order) : order[i] = k
    BY DEF OrderCovers, Range, TypeOK
  <1>4. AfterEviction = IF full
                        THEN [cache |-> Restrict(rest, DOMAIN rest \ {Head(live)}),
                              order |-> Tail(live)]
                        ELSE [cache |-> rest, order |-> live]
    BY DEF AfterEviction
  <1> HIDE DEF expired, live, rest
  <1>5. \A k \in DOMAIN rest : \E n \in 1..Len(live) : live[n] = k
    <2> TAKE k \in DOMAIN rest
    <2>1. PICK i \in 1..Len(order) : order[i] = k
      BY <1>2, <1>3
    <2>2. i \notin expired
      BY <1>2, <2>1
    <2> QED BY <1>1, <2>1, <2>2
  <1>6. CASE ~full
    BY <1>1, <1>2, <1>4, <1>5, <1>6
  <1>7. CASE full
    <2> DEFINE trimmed == Restrict(rest, DOMAIN rest \ {Head(live)})
    <2>1. AfterEviction.cache = trimmed /\ AfterEviction.order = Tail(live)
      BY <1>4, <1>7
    <2>2. DOMAIN trimmed = DOMAIN rest \ {Head(live)} /\ \A k \in DOMAIN trimmed : trimmed[k] = rest[k]
      BY DEF Restrict
    <2>3. /\ Tail(live) \in Seq(Keys) /\ Len(Tail(live)) = Len(live) - 1 /\ Len(live) \in Nat
          /\ \A n \in 1..Len(Tail(live)) : Tail(live)[n] = live[n + 1]
          /\ Head(live) = live[1]
      BY <1>1, <1>7, HeadTailProperties
    <2> HIDE DEF trimmed, full
    <2>4. ASSUME NEW k \in DOMAIN trimmed
          PROVE  \E n \in 1..Len(Tail(live)) : Tail(live)[n] = k
      <3>1. k \in DOMAIN rest /\ k # live[1]
        BY <2>2, <2>3
      <3>2. PICK n \in 1..Len(live) : live[n] = k
        BY <1>5, <3>1
      <3>3. n # 1
        BY <3>1, <3>2
      <3>4. n - 1 \in 1..Len(Tail(live)) /\ (n - 1) + 1 = n
        BY <2>3, <3>3
      <3> QED BY <2>3, <3>2, <3>4
    <2> QED BY <1>2, <2>1, <2>2, <2>3, <2>4
  <1> QED BY <1>6, <1>7

\* The calls of Do, and the steps that do not touch the cache.
LEMMA CallsKeep ==
  ASSUME CoalescerInv, NEW c \in Callers,
         \/ Leave(c) \/ Lookup(c) \/ Fetch(c)
         \/ \E e \in Endpoints : Call(c, e)
  PROVE  CoalescerInv'
  <1> USE CoalescerAssumption DEF CoalescerInv
  <1>0. /\ now \in 0..MaxTime /\ \A d \in Callers : target[d] \in Endpoints /\ Key(d) \in Keys
        /\ pc \in [Callers -> Positions] /\ result \in [Callers -> Replies \cup {None}]
    BY DEF TypeOK, Key
  <1>1. CASE Leave(c)
    <2>1. TypeOK'
      BY <1>1 DEF Leave, TypeOK
    <2>2. FlightsLed'
      BY <1>1 DEF Leave, FlightsLed, Key
    <2>3. RepliesKeyed'
      BY <1>1 DEF Leave, RepliesKeyed, Key
    <2>4. OrderCovers'
      BY <1>1 DEF Leave, OrderCovers
    <2> QED BY <2>1, <2>2, <2>3, <2>4
  <1>2. CASE Fresh(Key(c)) /\ Lookup(c)
    <2>1. /\ pc[c] = "lookup" /\ pc' = [pc EXCEPT ![c] = "idle"]
          /\ result' = [result EXCEPT ![c] = cache[Key(c)].reply]
          /\ Key(c) \in DOMAIN cache
          /\ UNCHANGED <<now, cache, order, leader, target, gone, calls>>
      BY <1>2 DEF Lookup, Goto, Fresh
    <2>2. cache[Key(c)].reply \in Replies
      BY <2>1 DEF TypeOK, Entries
    <2>3. TypeOK'
      <3>1. pc' \in [Callers -> Positions]
        BY <1>0, <2>1 DEF Positions
      <3>2. result' \in [Callers -> Replies \cup {None}]
        BY <1>0, <2>1, <2>2
      <3> QED BY <2>1, <3>1, <3>2 DEF TypeOK
    <2>4. FlightsLed'
      BY <1>0, <2>1 DEF FlightsLed, Key, Flying
    <2>5. RepliesKeyed'
      BY <1>0, <2>1, <2>2 DEF RepliesKeyed, Key
    <2>6. OrderCovers'
      BY <2>1 DEF OrderCovers
    <2> QED BY <2>3, <2>4, <2>5, <2>6
  <1>3. CASE ~Fresh(Key(c)) /\ Lookup(c)
    <2>1. /\ pc[c] = "lookup" /\ pc' = [pc EXCEPT ![c] = "join"]
          /\ UNCHANGED <<now, cache, order, leader, target, result, gone, calls>>
      BY <1>3 DEF Lookup, Goto
    <2>2. TypeOK'
      BY <2>1 DEF TypeOK, Positions
    <2>3. FlightsLed'
      BY <1>0, <2>1 DEF FlightsLed, Key, Flying
    <2>4. RepliesKeyed'
      BY <1>0, <2>1 DEF RepliesKeyed, Key
    <2>5. OrderCovers'
      BY <2>1 DEF OrderCovers
    <2> QED BY <2>2, <2>3, <2>4, <2>5
  <1>4. CASE Fetch(c)
    <2>1. PICK ending \in {"ok", "failed", "cancelled"} :
            result' = [result EXCEPT ![c] = [from |-> target[c], at |-> now, outcome |-> ending]]
      BY <1>4 DEF Fetch
    <2> DEFINE reply == [from |-> target[c], at |-> now, outcome |-> ending]
    <2>2. reply \in Replies /\ KeyOf[reply.from] = Key(c)
      BY <1>0 DEF Replies, Key
    <2>3. /\ pc[c] = "fetch" /\ pc' = [pc EXCEPT ![c] = "store"]
          /\ UNCHANGED <<now, cache, order, leader, target, gone, calls>>
      BY <1>4 DEF Fetch, Goto
    <2>4. result' = [result EXCEPT ![c] = reply]
      BY <2>1
    <2> HIDE DEF reply
    <2>5. TypeOK'
      <3>1. pc' \in [Callers -> Positions]
        BY <1>0, <2>3 DEF Positions
      <3>2. result' \in [Callers -> Replies \cup {None}]
        BY <1>0, <2>4, <2>2
      <3> QED BY <2>3, <3>1, <3>2 DEF TypeOK
    <2>6. FlightsLed'
      BY <1>0, <2>3 DEF FlightsLed, Key, Flying
    <2>7. RepliesKeyed'
      BY <1>0, <2>2, <2>3, <2>4 DEF RepliesKeyed, Key
    <2>8. OrderCovers'
      BY <2>3 DEF OrderCovers
    <2> QED BY <2>5, <2>6, <2>7, <2>8
  <1>5. ASSUME NEW e \in Endpoints, Call(c, e) PROVE CoalescerInv'
    <2>1. /\ pc[c] = "idle" /\ pc' = [pc EXCEPT ![c] = "lookup"]
          /\ target' = [target EXCEPT ![c] = e] /\ result' = [result EXCEPT ![c] = None]
          /\ calls < MaxCalls /\ calls' = calls + 1
          /\ UNCHANGED <<now, cache, order, leader, gone>>
      BY <1>5 DEF Call, Goto
    <2>2. TypeOK'
      <3>1. pc' \in [Callers -> Positions]
        BY <1>0, <2>1 DEF Positions
      <3>2. result' \in [Callers -> Replies \cup {None}] /\ target' \in [Callers -> Endpoints]
        BY <1>0, <2>1 DEF TypeOK
      <3>3. calls' \in 0..MaxCalls
        BY <2>1 DEF TypeOK
      <3> QED BY <2>1, <3>1, <3>2, <3>3 DEF TypeOK
    <2>3. \A d \in Callers : d # c => Key(d)' = Key(d) /\ pc'[d] = pc[d] /\ result'[d] = result[d]
      BY <1>0, <2>1 DEF Key, TypeOK
    <2>4. \A k \in Keys : leader[k] \subseteq Callers /\ c \notin leader[k]
      BY <2>1 DEF FlightsLed, Flying, TypeOK
    <2>5. pc'[c] = "lookup"
      BY <1>0, <2>1
    <2>6. FlightsLed'
      BY <2>1, <2>3, <2>4, <2>5 DEF FlightsLed, Flying
    <2>7. RepliesKeyed'
      BY <2>1, <2>3, <2>5 DEF RepliesKeyed
    <2>8. OrderCovers'
      BY <2>1 DEF OrderCovers
    <2> QED BY <2>2, <2>6, <2>7, <2>8
  <1> QED BY <1>1, <1>2, <1>3, <1>4, <1>5

\* A caller leads the flight of its key, or waits for whoever does.
LEMMA JoinKeeps ==
  ASSUME CoalescerInv, NEW c \in Callers, Join(c)
  PROVE  CoalescerInv'
  <1> USE CoalescerAssumption DEF CoalescerInv
  <1>1. /\ \A d \in Callers : Key(d) \in Keys /\ Key(d)' = Key(d)
        /\ pc \in [Callers -> Positions] /\ leader \in [Keys -> SUBSET Callers]
        /\ UNCHANGED <<now, cache, order, target, result, gone, calls>>
    BY DEF TypeOK, Key, Join
  <1>2. pc[c] = "join" /\ \A k \in Keys : c \notin leader[k]
    BY DEF Join, Goto, FlightsLed, Flying
  <1>3. CASE leader[Key(c)] = {}
    <2>1. pc' = [pc EXCEPT ![c] = "fetch"] /\ leader' = [leader EXCEPT ![Key(c)] = {c}]
      BY <1>3 DEF Join, Goto
    <2>2. TypeOK'
      <3>1. pc' \in [Callers -> Positions]
        BY <1>1, <2>1 DEF Positions
      <3>2. leader' \in [Keys -> SUBSET Callers]
        BY <1>1, <2>1
      <3> QED BY <1>1, <3>1, <3>2 DEF TypeOK
    <2>3. FlightsLed'
      <3>1. \A k \in Keys : leader'[k] = IF k = Key(c) THEN {c} ELSE leader[k]
        BY <1>1, <2>1
      <3>2. \A d \in Callers : pc'[d] = IF d = c THEN "fetch" ELSE pc[d]
        BY <1>1, <2>1
      <3>3. \A d \in Callers : pc[d] \in Flying => Key(d) # Key(c)
        BY <1>3 DEF FlightsLed
      <3> QED BY <1>1, <1>2, <1>3, <3>1, <3>2, <3>3 DEF FlightsLed, Flying, TypeOK
    <2>4. RepliesKeyed'
      BY <1>1, <1>2, <2>1 DEF RepliesKeyed
    <2> QED BY <1>1, <2>2, <2>3, <2>4 DEF OrderCovers
  <1>4. CASE leader[Key(c)] # {}
    <2>1. pc' = [pc EXCEPT ![c] = "waiting"] /\ leader' = leader
      BY <1>1, <1>4 DEF Join, Goto
    <2>2. TypeOK'
      BY <1>1, <2>1 DEF TypeOK, Positions
    <2>3. FlightsLed'
      BY <1>1, <1>2, <1>4, <2>1 DEF FlightsLed, Flying
    <2>4. RepliesKeyed'
      BY <1>1, <1>2, <2>1 DEF RepliesKeyed
    <2> QED BY <1>1, <2>2, <2>3, <2>4 DEF OrderCovers
  <1> QED BY <1>3, <1>4

\* The critical section of the leader.
LEMMA StoreKeeps ==
  ASSUME CoalescerInv, NEW c \in Callers, Store(c)
  PROVE  CoalescerInv'
  <1> USE CoalescerAssumption DEF CoalescerInv
  <1> DEFINE E == AfterEviction
             reply == [result[c] EXCEPT !.at = now]
             entry == [reply |-> reply, expiry |-> now + TTL]
  <1>1. /\ DOMAIN E.cache \subseteq DOMAIN cache
        /\ \A k \in DOMAIN E.cache : E.cache[k] = cache[k]
        /\ E.order \in Seq(Keys)
        /\ \A k \in DOMAIN E.cache : \E n \in 1..Len(E.order) : E.order[n] = k
    BY EvictionKeeps
  <1>2. /\ pc[c] = "store" /\ pc' = [pc EXCEPT ![c] = "land"]
        /\ result' = [result EXCEPT ![c] = reply]
        /\ UNCHANGED <<now, leader, target, gone, calls>>
    BY DEF Store, Goto
  <1>3. /\ \A d \in Callers : Key(d) \in Keys /\ Key(d)' = Key(d)
        /\ pc \in [Callers -> Positions] /\ result \in [Callers -> Replies \cup {None}]
        /\ now \in 0..MaxTime
    BY <1>2 DEF TypeOK, Key
  <1>4. /\ reply \in Replies /\ KeyOf[reply.from] = Key(c) /\ reply.at = now
    <2>1. result[c] \in Replies /\ KeyOf[result[c].from] = Key(c)
      BY <1>2 DEF RepliesKeyed
    <2> QED BY <1>3, <2>1 DEF Replies
  <1>5. result'[c] = reply
    BY <1>2, <1>3
  <1>6. /\ cache' = WithEntry(E.cache, Key(c), entry)
        /\ order' = Append(E.order, Key(c))
    BY <1>5 DEF Store
  <1> HIDE DEF E, reply
  <1>7. entry \in Entries /\ entry.reply = reply /\ entry.expiry = now + TTL
    BY <1>3, <1>4 DEF Entries
  <1> HIDE DEF entry
  <1>8. /\ DOMAIN cache' = DOMAIN E.cache \cup {Key(c)}
        /\ \A k \in DOMAIN cache' : cache'[k] = IF k = Key(c) THEN entry ELSE cache[k]
    BY <1>1, <1>6 DEF WithEntry
  <1>9. /\ order' \in Seq(Keys) /\ Len(order') = Len(E.order) + 1 /\ Len(E.order) \in Nat
        /\ order'[Len(E.order) + 1] = Key(c)
        /\ \A n \in 1..Len(E.order) : order'[n] = E.order[n]
    BY <1>1, <1>3, <1>6, AppendProperties
  <1>10. TypeOK'
    <2>1. DOMAIN cache' \subseteq Keys /\ \A k \in DOMAIN cache' : cache'[k] \in Entries
      BY <1>1, <1>3, <1>7, <1>8 DEF TypeOK
    <2>2. pc' \in [Callers -> Positions]
      BY <1>2, <1>3 DEF Positions
    <2>3. result' \in [Callers -> Replies \cup {None}]
      BY <1>2, <1>3, <1>4
    <2>4. Entries' = Entries
      BY DEF Entries, Replies
    <2> QED BY <1>2, <1>9, <2>1, <2>2, <2>3, <2>4 DEF TypeOK
  <1>11. FlightsLed'
    BY <1>2, <1>3 DEF FlightsLed, Flying, TypeOK
  <1>12. RepliesKeyed'
    <2>1. \A k \in DOMAIN cache' : /\ KeyOf[cache'[k].reply.from] = k
                                   /\ cache'[k].expiry = cache'[k].reply.at + TTL
      BY <1>1, <1>4, <1>7, <1>8 DEF RepliesKeyed
    <2>2. \A d \in Callers : /\ pc'[d] = IF d = c THEN "land" ELSE pc[d]
                             /\ result'[d] = IF d = c THEN reply ELSE result[d]
      BY <1>2, <1>3
    <2> QED BY <1>3, <1>4, <2>1, <2>2 DEF RepliesKeyed
  <1>13. OrderCovers'
    <2> SUFFICES ASSUME NEW k \in DOMAIN cache' PROVE \E n \in 1..Len(order') : order'[n] = k
      BY <1>9 DEF OrderCovers, Range
    <2>1. CASE k = Key(c)
      BY <1>9, <2>1
    <2>2. CASE k \in DOMAIN E.cache
      <3>1. PICK n \in 1..Len(E.order) : E.order[n] = k
        BY <1>1, <2>2
      <3>2. n \in 1..Len(order')
        BY <1>9, <3>1
      <3> QED BY <1>9, <3>1, <3>2
    <2> QED BY <1>8, <2>1, <2>2
  <1> QED BY <1>10, <1>11, <1>12, <1>13

\* The flight ends.
LEMMA LandKeeps ==
  ASSUME CoalescerInv, NEW c \in Callers, Land(c)
  PROVE  CoalescerInv'
  <1> USE CoalescerAssumption DEF CoalescerInv
  <1> DEFINE crew == Waiting(Key(c)) \cup {c}
  <1>1. /\ pc[c] = "land" /\ leader' = [leader EXCEPT ![Key(c)] = {}]
        /\ pc' = [d \in Callers |-> IF d \in crew THEN "idle" ELSE pc[d]]
        /\ result' = [d \in Callers |-> IF d \in crew THEN result[c] ELSE result[d]]
        /\ UNCHANGED <<now, cache, order, target, gone, calls>>
    BY DEF Land
  <1>2. /\ \A d \in Callers : Key(d) \in Keys /\ Key(d)' = Key(d)
        /\ pc \in [Callers -> Positions] /\ leader \in [Keys -> SUBSET Callers]
        /\ result \in [Callers -> Replies \cup {None}]
    BY <1>1 DEF TypeOK, Key
  <1>3. /\ result[c] \in Replies /\ KeyOf[result[c].from] = Key(c) /\ leader[Key(c)] = {c}
    BY <1>1 DEF RepliesKeyed, FlightsLed, Flying
  <1>4. \A d \in Callers : d \in crew <=> (d = c \/ (pc[d] = "waiting" /\ Key(d) = Key(c)))
    BY DEF Waiting
  <1> HIDE DEF crew
  <1>5. \A d \in Callers : /\ pc'[d] = IF d \in crew THEN "idle" ELSE pc[d]
                           /\ result'[d] = IF d \in crew THEN result[c] ELSE result[d]
    BY <1>1
  <1>6. TypeOK'
    <2>1. pc' \in [Callers -> Positions]
      BY <1>1, <1>2 DEF Positions
    <2>2. result' \in [Callers -> Replies \cup {None}]
      BY <1>1, <1>2
    <2>3. leader' \in [Keys -> SUBSET Callers]
      BY <1>1, <1>2
    <2> QED BY <1>1, <2>1, <2>2, <2>3 DEF TypeOK
  <1>7. FlightsLed'
    <2>1. \A k \in Keys : leader'[k] = IF k = Key(c) THEN {} ELSE leader[k]
      BY <1>1, <1>2
    <2>2. \A d \in Callers : (pc[d] \in Flying /\ Key(d) = Key(c)) => d = c
      BY <1>3 DEF FlightsLed
    <2>3. \A k \in Keys : \A d \in leader'[k] : pc'[d] \in Flying /\ Key(d)' = k
      <3> TAKE k \in Keys
      <3> TAKE d \in leader'[k]
      <3>1. k # Key(c) /\ d \in leader[k] /\ d \in Callers
        BY <1>2, <2>1
      <3>2. pc[d] \in Flying /\ Key(d) = k
        BY <3>1 DEF FlightsLed
      <3>3. d \notin crew
        BY <1>4, <3>1, <3>2 DEF Flying
      <3> QED BY <1>2, <1>5, <3>1, <3>2, <3>3
    <2>4. \A d \in Callers : pc'[d] \in Flying => leader'[Key(d)'] = {d}
      BY <1>2, <1>4, <1>5, <2>1, <2>2 DEF FlightsLed, Flying
    <2>5. \A d \in Callers : pc'[d] = "waiting" => leader'[Key(d)'] # {}
      BY <1>2, <1>4, <1>5, <2>1 DEF FlightsLed
    <2> QED BY <2>3, <2>4, <2>5 DEF FlightsLed
  <1>8. RepliesKeyed'
    <2>1. \A d \in Callers : pc'[d] \in {"store", "land"} =>
            result'[d] \in Replies /\ KeyOf[result'[d].from] = Key(d)'
      BY <1>2, <1>5 DEF RepliesKeyed
    <2>2. \A d \in Callers : (pc'[d] = "idle" /\ result'[d] # None) => KeyOf[result'[d].from] = Key(d)'
      BY <1>2, <1>3, <1>4, <1>5 DEF RepliesKeyed
    <2> QED BY <1>1, <2>1, <2>2 DEF RepliesKeyed, Replies, None
  <1>9. OrderCovers'
    BY <1>1 DEF OrderCovers
  <1> QED BY <1>6, <1>7, <1>8, <1>9

\* Every step keeps the invariant.
LEMMA CoalescerStep ==
  ASSUME CoalescerInv, Next
  PROVE  CoalescerInv'
  <1>1. CASE Tick
    <2>1. TypeOK'
      BY <1>1, CoalescerAssumption DEF Tick, TypeOK, CoalescerInv
    <2>2. FlightsLed' /\ RepliesKeyed' /\ OrderCovers'
      BY <1>1 DEF Tick, FlightsLed, RepliesKeyed, OrderCovers, Key, CoalescerInv
    <2> QED BY <2>1, <2>2 DEF CoalescerInv
  <1> QED BY <1>1, CallsKeep, JoinKeeps, StoreKeeps, LandKeeps DEF Next, Do

\* A stuttering step keeps the invariant.
LEMMA CoalescerSame ==
  ASSUME CoalescerInv, UNCHANGED vars
  PROVE  CoalescerInv'
  BY DEF vars, CoalescerInv, TypeOK, FlightsLed, RepliesKeyed, OrderCovers, Key

\* The endpoints of a cascade have keys of their own: they differ in model or body.
KeysDiffer == \A d, e \in Endpoints : KeyOf[d] = KeyOf[e] => d = e

\* For any callers, endpoints, keys, TTL and cap: at most one exchange per key is in the
\* air and who waits for it will be woken; what a caller gets was said by an endpoint
\* with the key it asked for; and eviction can reach whatever is cached
\* (internal/upstream/coalesce.go:96-163).  No assumption on the keys is made here.
THEOREM CoalescerSound ==
  UpstreamSpec =>
    [](/\ OneFlight /\ OrderCovers
       /\ \A c \in Callers : (pc[c] = "idle" /\ result[c] # None) => KeyOf[result[c].from] = Key(c))
  <1> DEFINE SameKey ==
        \A c \in Callers : (pc[c] = "idle" /\ result[c] # None) => KeyOf[result[c].from] = Key(c)
  <1>1. UpstreamInit => CoalescerInv
    BY CoalescerStarts DEF UpstreamInit
  <1>2. CoalescerInv /\ [UpstreamNext]_<<focus, vars, panelVars>> => CoalescerInv'
    BY CoalescerStep, CoalescerSame DEF UpstreamNext
  <1>3. CoalescerInv => OneFlight /\ OrderCovers /\ SameKey
    <2> SUFFICES ASSUME CoalescerInv PROVE OneFlight /\ OrderCovers /\ SameKey
      OBVIOUS
    <2>1. OneFlight
      BY DEF CoalescerInv, FlightsLed, OneFlight, Flying
    <2> QED BY <2>1 DEF CoalescerInv, RepliesKeyed
  <1> QED BY <1>1, <1>2, <1>3, PTL DEF UpstreamSpec

\* As the run has it, where no two endpoints share a key: what a caller gets comes from
\* the very endpoint it asked for, so falling back to the next step of the cascade
\* reaches another provider.
THEOREM CoalescerFlightsSound ==
  ASSUME KeysDiffer
  PROVE  UpstreamSpec => []FlightsSound
  <1>1. UpstreamInit => CoalescerInv
    BY CoalescerStarts DEF UpstreamInit
  <1>2. CoalescerInv /\ [UpstreamNext]_<<focus, vars, panelVars>> => CoalescerInv'
    BY CoalescerStep, CoalescerSame DEF UpstreamNext
  <1>3. CoalescerInv => FlightsSound
    <2> SUFFICES ASSUME CoalescerInv PROVE FlightsSound
      OBVIOUS
    <2>1. OneFlight
      BY DEF CoalescerInv, FlightsLed, OneFlight, Flying
    <2>2. OwnEndpoint
      <3> SUFFICES ASSUME NEW c \in Callers, pc[c] = "idle", result[c] # None
                   PROVE  result[c].from = target[c]
        BY DEF OwnEndpoint
      <3>1. result[c].from \in Endpoints /\ target[c] \in Endpoints
        BY DEF CoalescerInv, TypeOK, Replies
      <3>2. KeyOf[result[c].from] = KeyOf[target[c]]
        BY DEF CoalescerInv, RepliesKeyed, Key
      <3> QED BY <3>1, <3>2, KeysDiffer DEF KeysDiffer
    <2> QED BY <2>1, <2>2 DEF CoalescerInv, FlightsSound
  <1> QED BY <1>1, <1>2, <1>3, PTL DEF UpstreamSpec

\* A step that gives a caller the reply of another gives it one that was stored less than
\* TTL ago, or the one of the flight it waited for.
LEMMA SharedStep ==
  ASSUME CoalescerInv, Next, NEW c \in Callers,
         pc[c] # "idle", pc'[c] = "idle", c \notin leader[Key(c)]
  PROVE  now < result'[c].at + TTL \/ leader[Key(c)] # {}
  <1>1. pc \in [Callers -> Positions] /\ result \in [Callers -> Replies \cup {None}]
    BY DEF CoalescerInv, TypeOK
  <1>2. ASSUME NEW d \in Callers, Lookup(d) PROVE now < result'[c].at + TTL
    <2>1. d = c
      BY <1>1, <1>2 DEF Lookup, Goto
    <2>2. Fresh(Key(c)) /\ result' = [result EXCEPT ![c] = cache[Key(c)].reply]
      BY <1>1, <1>2, <2>1 DEF Lookup, Goto
    <2>3. result'[c] = cache[Key(c)].reply /\ Key(c) \in DOMAIN cache /\ now < cache[Key(c)].expiry
      BY <1>1, <2>2 DEF Fresh
    <2> QED BY <2>3 DEF CoalescerInv, RepliesKeyed
  <1>3. ASSUME NEW d \in Callers, Land(d) PROVE leader[Key(c)] # {}
    <2>1. pc[d] = "land" /\ (c = d \/ (pc[c] = "waiting" /\ Key(c) = Key(d)))
      BY <1>3 DEF Land, Waiting
    <2> QED BY <2>1 DEF CoalescerInv, FlightsLed, Flying
  <1>4. ASSUME NEW d \in Callers, Join(d) \/ Fetch(d) \/ Store(d) \/ Leave(d) PROVE FALSE
    BY <1>1, <1>4 DEF Join, Fetch, Store, Leave, Goto
  <1>5. ASSUME NEW d \in Callers, NEW e \in Endpoints, Call(d, e) PROVE FALSE
    BY <1>1, <1>5 DEF Call, Goto
  <1>6. CASE Tick
    BY <1>6 DEF Tick
  <1> QED BY <1>2, <1>3, <1>4, <1>5, <1>6 DEF Next, Do

-----------------------------------------------------------------------------
(* The arbiter cache. *)

\* Every key in the order once.
Distinct(o) == \A i, j \in 1..Len(o) : o[i] = o[j] => i = j

Named(o) == {o[i] : i \in 1..Len(o)}

ArbiterInv ==
  /\ IsFiniteSet(DOMAIN items) /\ DOMAIN items \subseteq SUBSET Texts
  /\ Cardinality(DOMAIN items) <= ArbiterEntries
  /\ lru \in Seq(SUBSET Texts) /\ Distinct(lru) /\ Named(lru) = DOMAIN items
  /\ \A k \in DOMAIN items : items[k].of = k

\* The panel counts like everybody else.
LEMMA SameCount == \A S : F!Cardinality(S) = Cardinality(S)
  BY Zenon DEF F!Cardinality, Cardinality

\* A table with the first numbers for its keys is a sequence.
LEMMA TableIsSeq ==
  ASSUME NEW n \in Nat, NEW S, NEW f \in [1..n -> S]
  PROVE  f \in Seq(S) /\ Len(f) = n
  OBVIOUS

\* A key that is touched comes last, and the others stay.
LEMMA TouchKeeps ==
  ASSUME NEW S, NEW o \in Seq(S), Distinct(o), NEW k \in S
  PROVE  /\ F!touch(o, k) \in Seq(S)
         /\ Distinct(F!touch(o, k))
         /\ Named(F!touch(o, k)) = Named(o) \cup {k}
  <1> DEFINE mentions == {i \in 1..Len(o) : o[i] = k}
             first == CHOOSE i \in mentions : \A j \in mentions : i <= j
             other == [i \in 1..(Len(o) - 1) |-> IF i < first THEN o[i] ELSE o[i + 1]]
  <1>0. Len(o) \in Nat /\ \A i \in 1..Len(o) : o[i] \in S
    BY ElementOfSeq
  <1>1. F!touch(o, k) = IF mentions = {} THEN Append(o, k) ELSE Append(other, k)
    BY DEF F!touch
  <1>2. ASSUME NEW rest \in Seq(S), Distinct(rest), k \notin Named(rest),
               Named(rest) \cup {k} = Named(o) \cup {k}, F!touch(o, k) = Append(rest, k)
        PROVE  /\ F!touch(o, k) \in Seq(S) /\ Distinct(F!touch(o, k))
               /\ Named(F!touch(o, k)) = Named(o) \cup {k}
    <2> DEFINE t == Append(rest, k)
    <2>1. /\ t \in Seq(S) /\ Len(t) = Len(rest) + 1 /\ Len(rest) \in Nat
          /\ \A i \in 1..Len(rest) : t[i] = rest[i]
          /\ t[Len(rest) + 1] = k
      BY AppendProperties
    <2> HIDE DEF t
    <2>2. \A i \in 1..Len(t) : i \in 1..Len(rest) \/ i = Len(rest) + 1
      BY <2>1
    <2>3. Distinct(t)
      BY <1>2, <2>1, <2>2 DEF Distinct, Named
    <2>4. Named(t) = Named(rest) \cup {k}
      <3>1. Named(t) \subseteq Named(rest) \cup {k}
        BY <2>1, <2>2 DEF Named
      <3>2. \A i \in 1..Len(rest) : i \in 1..Len(t)
        BY <2>1
      <3>3. Len(rest) + 1 \in 1..Len(t)
        BY <2>1
      <3> QED BY <2>1, <3>1, <3>2, <3>3 DEF Named
    <2> QED BY <1>2, <2>1, <2>3, <2>4 DEF t
  <1>3. CASE mentions = {}
    <2>1. k \notin Named(o)
      BY <1>3 DEF Named
    <2> QED BY <1>1, <1>2, <1>3, <2>1
  <1>4. CASE mentions # {}
    <2>1. PICK p \in 1..Len(o) : o[p] = k
      BY <1>4
    <2>2. mentions = {p}
      BY <2>1 DEF Distinct
    <2>3. first = p
      BY <1>0, <2>2
    <2>4. other = [i \in 1..(Len(o) - 1) |-> IF i < p THEN o[i] ELSE o[i + 1]]
      BY <2>3
    <2>5. F!touch(o, k) = Append(other, k)
      BY <1>1, <1>4
    <2> HIDE DEF mentions, first, other
    <2>6. /\ \A i \in 1..(Len(o) - 1) : other[i] = IF i < p THEN o[i] ELSE o[i + 1]
          /\ Len(o) - 1 \in Nat
      BY <1>0, <2>1, <2>4
    <2>7. other \in Seq(S) /\ Len(other) = Len(o) - 1
      <3>1. \A i \in 1..(Len(o) - 1) : other[i] \in S
        BY <1>0, <2>6
      <3>2. other \in [1..(Len(o) - 1) -> S]
        BY <2>4, <3>1
      <3> QED BY <2>6, <3>2
    <2>8. Distinct(other)
      <3> DEFINE G(i) == IF i < p THEN i ELSE i + 1
      <3>1. \A i \in 1..Len(other) : G(i) \in 1..Len(o) /\ other[i] = o[G(i)]
        BY <1>0, <2>1, <2>6, <2>7
      <3>2. \A i, j \in 1..Len(other) : G(i) = G(j) => i = j
        BY <1>0, <2>1, <2>7
      <3> HIDE DEF G
      <3> QED BY <3>1, <3>2 DEF Distinct
    <2>9. k \notin Named(other)
      BY <1>0, <2>1, <2>6, <2>7 DEF Distinct, Named
    <2>10. Named(other) \cup {k} = Named(o) \cup {k}
      <3>1. \A i \in 1..Len(other) : other[i] \in Named(o)
        BY <1>0, <2>6, <2>7 DEF Named
      <3>2. \A i \in 1..Len(o) : i # p => o[i] \in Named(other)
        <4> TAKE i \in 1..Len(o)
        <4> HAVE i # p
        <4>1. CASE i < p
          <5>1. i \in 1..Len(other) /\ other[i] = o[i]
            BY <1>0, <2>1, <2>6, <2>7, <4>1
          <5> QED BY <5>1 DEF Named
        <4>2. CASE i > p
          <5>1. i - 1 \in 1..Len(other) /\ other[i - 1] = o[i]
            BY <1>0, <2>1, <2>6, <2>7, <4>2
          <5> QED BY <5>1 DEF Named
        <4> QED BY <1>0, <4>1, <4>2
      <3> QED BY <2>1, <3>1, <3>2 DEF Named
    <2> QED BY <1>2, <2>5, <2>7, <2>8, <2>9, <2>10
  <1> QED BY <1>3, <1>4

\* A new cache, or one with what an earlier run of the proxy left.
LEMMA ArbiterStarts == F!PanelInit => ArbiterInv
  <1> SUFFICES ASSUME F!PanelInit PROVE ArbiterInv
    OBVIOUS
  <1>1. ASSUME NEW w, F!Warm(w)
        PROVE  /\ DOMAIN items = w \/ DOMAIN items = {}
               /\ \A k \in DOMAIN items : items[k].of = k
               /\ lru \in [1..Cardinality(DOMAIN items) -> DOMAIN items]
    <2>1. items = [k \in IF ArbiterTTL > 0 THEN w ELSE {} |-> [of |-> k, at |-> 0]]
      BY <1>1 DEF F!Warm
    <2>2. lru \in [1..Cardinality(DOMAIN items) -> DOMAIN items]
      BY <1>1, SameCount DEF F!Warm
    <2> QED BY <2>1, <2>2
  <1>2. F!Warm({}) \/ \E k : k \in SUBSET Texts /\ F!Warm({k})
    <2>1. CASE \E a, b \in Texts : F!Warm({{a, b}})
      <3>1. PICK a \in Texts, b \in Texts : F!Warm({{a, b}})
        BY <2>1
      <3>2. {a, b} \in SUBSET Texts
        OBVIOUS
      <3> QED BY <3>1, <3>2, Zenon
    <2> QED BY <2>1 DEF F!PanelInit
  <1>3. \A k \in DOMAIN items : items[k].of = k
    BY <1>1, <1>2
  <1>4. lru \in [1..Cardinality(DOMAIN items) -> DOMAIN items]
    BY <1>1, <1>2
  <1>6. DOMAIN items = {} \/ \E k : k \in SUBSET Texts /\ DOMAIN items = {k}
    BY <1>1, <1>2
  <1>7. CASE DOMAIN items = {}
    <2>1. IsFiniteSet(DOMAIN items) /\ Cardinality(DOMAIN items) = 0
      BY <1>7, FS_EmptySet
    <2>2. lru = <<>>
      BY <1>4, <2>1
    <2>3. Distinct(lru) /\ Named(lru) = {} /\ lru \in Seq(SUBSET Texts)
      BY <2>2 DEF Distinct, Named
    <2> QED BY <1>3, <1>7, <2>1, <2>3, UpstreamAssumption DEF ArbiterInv
  <1>8. ASSUME NEW k, k \in SUBSET Texts, DOMAIN items = {k} PROVE ArbiterInv
    <2>1. IsFiniteSet(DOMAIN items) /\ Cardinality(DOMAIN items) = 1
      <3>1. IsFiniteSet({k}) /\ Cardinality({k}) = 1
        BY FS_Singleton
      <3> QED BY <1>8, <3>1
    <2>2. lru \in [1..1 -> {k}]
      BY <1>4, <1>8, <2>1
    <2>3. lru \in Seq(SUBSET Texts) /\ Len(lru) = 1 /\ lru[1] = k
      <3>1. lru \in Seq({k}) /\ Len(lru) = 1 /\ lru[1] = k
        <4>1. \A n \in Nat : lru \in [1..n -> {k}] => lru \in Seq({k}) /\ Len(lru) = n
          BY TableIsSeq
        <4>2. lru[1] = k
          BY <2>2
        <4> QED BY <2>2, <4>1, <4>2
      <3> QED BY <1>8, <3>1, SeqMonotonic
    <2>4. Distinct(lru) /\ Named(lru) = {k}
      BY <2>3 DEF Distinct, Named
    <2> QED BY <1>3, <1>8, <2>1, <2>3, <2>4, UpstreamAssumption DEF ArbiterInv
  <1> QED BY <1>6, <1>7, <1>8

\* A synthesis is kept.
LEMMA SetKeeps ==
  ASSUME ArbiterInv, NEW k \in SUBSET Texts, F!Set(k, k)
  PROVE  ArbiterInv'
  <1> USE UpstreamAssumption
  <1> DEFINE full == Cardinality(DOMAIN items) >= ArbiterEntries /\ lru # <<>>
             kept == IF full THEN F!Without(items, Head(lru)) ELSE items
             rest == IF full THEN Tail(lru) ELSE lru
             entry == [of |-> k, at |-> time]
  <1>1. items' = F!With(kept, k, entry) /\ lru' = F!touch(rest, k)
    BY SameCount DEF F!Set
  <1>2. /\ DOMAIN kept = IF full THEN DOMAIN items \ {Head(lru)} ELSE DOMAIN items
        /\ \A x \in DOMAIN kept : kept[x] = items[x]
    BY DEF F!Without
  <1>3. entry.of = k
    OBVIOUS
  <1> HIDE DEF entry, kept
  <1>4. /\ DOMAIN items' = DOMAIN kept \cup {k}
        /\ \A x \in DOMAIN items' : items'[x] = IF x = k THEN entry ELSE kept[x]
    BY <1>1 DEF F!With
  <1>5. Cardinality(DOMAIN items) \in Nat
    BY FS_CardinalityType DEF ArbiterInv
  <1>6. /\ rest \in Seq(SUBSET Texts) /\ Distinct(rest) /\ Named(rest) = DOMAIN kept
        /\ IsFiniteSet(DOMAIN kept) /\ Cardinality(DOMAIN kept) < ArbiterEntries
    <2>1. CASE ~full
      <3>1. Cardinality(DOMAIN items) < ArbiterEntries
        <4>1. CASE lru = <<>>
          <5>1. DOMAIN items = {}
            <6>1. Len(lru) = 0
              BY <4>1
            <6>2. Named(lru) = {}
              BY <6>1 DEF Named
            <6> QED BY <6>2 DEF ArbiterInv
          <5> QED BY <5>1, FS_EmptySet
        <4> QED BY <1>5, <2>1, <4>1
      <3> QED BY <1>2, <2>1, <3>1 DEF ArbiterInv
    <2>2. CASE full
      <3>1. /\ Tail(lru) \in Seq(SUBSET Texts) /\ Len(Tail(lru)) = Len(lru) - 1 /\ Len(lru) \in Nat
            /\ \A n \in 1..Len(Tail(lru)) : Tail(lru)[n] = lru[n + 1]
            /\ Head(lru) = lru[1] /\ Len(lru) >= 1
        BY <2>2, HeadTailProperties DEF ArbiterInv
      <3>2. Distinct(Tail(lru))
        BY <3>1 DEF ArbiterInv, Distinct
      <3>3. Named(Tail(lru)) = DOMAIN items \ {Head(lru)}
        <4>1. \A n \in 1..Len(Tail(lru)) : n + 1 \in 1..Len(lru) /\ lru[n + 1] # lru[1]
          BY <3>1 DEF ArbiterInv, Distinct
        <4>2. \A x \in DOMAIN items \ {Head(lru)} : x \in Named(Tail(lru))
          <5> TAKE x \in DOMAIN items \ {Head(lru)}
          <5>1. PICK m \in 1..Len(lru) : lru[m] = x
            BY DEF ArbiterInv, Named
          <5>2. m # 1
            BY <3>1, <5>1
          <5>3. m - 1 \in 1..Len(Tail(lru)) /\ (m - 1) + 1 = m
            BY <3>1, <5>1, <5>2
          <5>4. Tail(lru)[m - 1] = x
            BY <3>1, <5>1, <5>3
          <5> QED BY <5>3, <5>4 DEF Named
        <4> QED BY <3>1, <4>1, <4>2 DEF ArbiterInv, Named
      <3>4. Head(lru) \in DOMAIN items
        BY <3>1 DEF ArbiterInv, Named
      <3>5. /\ IsFiniteSet(DOMAIN items \ {Head(lru)})
            /\ Cardinality(DOMAIN items \ {Head(lru)}) = Cardinality(DOMAIN items) - 1
        BY <3>4, FS_RemoveElement DEF ArbiterInv
      <3>6. Cardinality(DOMAIN items) - 1 < ArbiterEntries
        BY <1>5 DEF ArbiterInv
      <3> QED BY <1>2, <2>2, <3>1, <3>2, <3>3, <3>5, <3>6
    <2> QED BY <2>1, <2>2
  <1> HIDE DEF rest
  <1>7. lru' \in Seq(SUBSET Texts) /\ Distinct(lru') /\ Named(lru') = DOMAIN items'
    <2>1. /\ F!touch(rest, k) \in Seq(SUBSET Texts) /\ Distinct(F!touch(rest, k))
          /\ Named(F!touch(rest, k)) = Named(rest) \cup {k}
      BY <1>6, TouchKeeps
    <2> QED BY <1>1, <1>4, <1>6, <2>1
  <1>8. IsFiniteSet(DOMAIN items') /\ Cardinality(DOMAIN items') <= ArbiterEntries
    <2>1. Cardinality(DOMAIN kept) \in Nat
      BY <1>6, FS_CardinalityType
    <2>2. /\ IsFiniteSet(DOMAIN kept \cup {k})
          /\ \/ Cardinality(DOMAIN kept \cup {k}) = Cardinality(DOMAIN kept)
             \/ Cardinality(DOMAIN kept \cup {k}) = Cardinality(DOMAIN kept) + 1
      BY <1>6, FS_AddElement
    <2> QED BY <1>4, <1>6, <2>1, <2>2
  <1>9. DOMAIN items' \subseteq SUBSET Texts
    BY <1>2, <1>4 DEF ArbiterInv
  <1>10. \A x \in DOMAIN items' : items'[x].of = x
    BY <1>2, <1>3, <1>4 DEF ArbiterInv
  <1> QED BY <1>7, <1>8, <1>9, <1>10 DEF ArbiterInv

\* The invariant gives what the run checks of the cache.
LEMMA ArbiterFollows == ArbiterInv => F!ArbiterCacheSound
  <1> SUFFICES ASSUME ArbiterInv PROVE F!ArbiterCacheSound
    OBVIOUS
  <1>1. Len(lru) \in Nat /\ lru \in [1..Len(lru) -> DOMAIN items]
    BY DEF ArbiterInv, Named
  <1>2. lru \in Bijection(1..Len(lru), DOMAIN items)
    BY <1>1 DEF ArbiterInv, Distinct, Named, Bijection, Injection, Surjection, IsInjective
  <1>3. Cardinality(DOMAIN items) = Len(lru)
    BY <1>1, <1>2, FS_CountingElements DEF ExistsBijection
  <1>4. {lru[i] : i \in 1..Len(lru)} = DOMAIN items /\ Cardinality(DOMAIN items) <= ArbiterEntries
    BY DEF ArbiterInv, Named
  <1> QED BY <1>3, <1>4, SameCount DEF F!ArbiterCacheSound

-----------------------------------------------------------------------------
(* The panel. *)

Stages == {"idle", "members", "arbiter", "synthesis", "done"}

\* What a member may come back with: a failed one brings no tool calls.
MemberResults ==
  {x \in [source : F!Sources, text : Texts, tools : BOOLEAN, err : BOOLEAN] : x.err => ~x.tools}

Chunks == [kind : {"member", "done", "error", "synthesis"},
           source : {"local", "frontier", "arbiter", "none"}, of : SUBSET Texts]

Outcomes == [skipped : BOOLEAN, source : {"local", "frontier", "none"},
             reason : {"none", "tool_calls", "one_member", "agreement", "cache_hit"},
             hit : BOOLEAN, err : BOOLEAN]

PanelTypes ==
  /\ stage \in [Requests -> Stages] /\ mode \in [Requests -> F!Modes]
  /\ results \in [Requests -> Seq(MemberResults)]
  /\ texts \in [Requests -> SUBSET Texts]
  /\ wire \in [Requests -> Seq(Chunks)]
  /\ outcome \in [Requests -> Outcomes]

\* What a sequence of chunks says.
Has(w, k)     == \E i \in 1..Len(w) : w[i].kind = k
MadeOf(w, ts) == \A i \in 1..Len(w) : w[i].kind = "synthesis" => w[i].of = ts
Last(w)       == w[Len(w)].kind

\* As long as nothing has been decided, at most a member has spoken.
NothingSaid(r) ==
  /\ ~Has(wire[r], "synthesis") /\ ~Has(wire[r], "error") /\ ~Has(wire[r], "done")
  /\ ~outcome[r].skipped /\ ~outcome[r].hit /\ ~outcome[r].err

\* The outcome o of a request in mode m tells the truth about what it was sent.
Truthful(w, o, m) ==
  /\ o.err <=> Has(w, "error")
  /\ ~o.err => /\ w # <<>>
               /\ m = "buffered" \/ Last(w) = "done"
               /\ Has(w, "synthesis") <=> (~o.skipped \/ o.hit)

PanelWords ==
  \A r \in Requests :
    /\ MadeOf(wire[r], texts[r])
    /\ stage[r] # "done" => NothingSaid(r)
    /\ (stage[r] = "done" /\ r \notin left) => Truthful(wire[r], outcome[r], mode[r])

PanelInv == PanelTypes /\ PanelWords /\ ArbiterInv

\* What one thing after another says.
LEMMA ConcatSays ==
  ASSUME NEW a \in Seq(Chunks), NEW b \in Seq(Chunks), NEW ts
  PROVE  /\ a \o b \in Seq(Chunks)
         /\ \A k : Has(a \o b, k) <=> (Has(a, k) \/ Has(b, k))
         /\ (MadeOf(a, ts) /\ MadeOf(b, ts)) => MadeOf(a \o b, ts)
         /\ b # <<>> => a \o b # <<>> /\ Last(a \o b) = Last(b)
  <1> DEFINE w == a \o b
  <1>1. /\ w \in Seq(Chunks) /\ Len(w) = Len(a) + Len(b) /\ Len(a) \in Nat /\ Len(b) \in Nat
        /\ \A i \in 1..(Len(a) + Len(b)) : w[i] = IF i <= Len(a) THEN a[i] ELSE b[i - Len(a)]
    BY ConcatProperties
  <1> HIDE DEF w
  <1>2. \A i \in 1..Len(a) : i \in 1..Len(w) /\ w[i] = a[i]
    BY <1>1
  <1>3. ASSUME NEW i \in 1..Len(b)
        PROVE  i + Len(a) \in 1..Len(w) /\ w[i + Len(a)] = b[i]
    <2>1. /\ i + Len(a) \in 1..(Len(a) + Len(b)) /\ ~(i + Len(a) <= Len(a))
          /\ (i + Len(a)) - Len(a) = i
      BY <1>1
    <2> QED BY <1>1, <2>1
  <1>4. \A i \in 1..Len(w) : \/ i \in 1..Len(a) /\ w[i] = a[i]
                             \/ i - Len(a) \in 1..Len(b) /\ w[i] = b[i - Len(a)]
    BY <1>1
  <1>5. ASSUME NEW k
        PROVE  Has(w, k) <=> (Has(a, k) \/ Has(b, k))
    <2>1. Has(a, k) => Has(w, k)
      BY <1>2 DEF Has
    <2>2. ASSUME Has(b, k)
          PROVE  Has(w, k)
      <3>1. PICK i \in 1..Len(b) : b[i].kind = k
        BY <2>2 DEF Has
      <3> QED BY <1>3, <3>1 DEF Has
    <2>3. ASSUME Has(w, k)
          PROVE  Has(a, k) \/ Has(b, k)
      <3>1. PICK i \in 1..Len(w) : w[i].kind = k
        BY <2>3 DEF Has
      <3>2. CASE i \in 1..Len(a) /\ w[i] = a[i]
        BY <3>1, <3>2 DEF Has
      <3>3. CASE i - Len(a) \in 1..Len(b) /\ w[i] = b[i - Len(a)]
        BY <3>1, <3>3 DEF Has
      <3> QED BY <1>4, <3>2, <3>3
    <2> QED BY <2>1, <2>2, <2>3
  <1>6. (MadeOf(a, ts) /\ MadeOf(b, ts)) => MadeOf(w, ts)
    BY <1>4 DEF MadeOf
  <1>7. b # <<>> => w # <<>> /\ Last(w) = Last(b)
    <2> HAVE b # <<>>
    <2>1. Len(b) # 0
      BY EmptySeq
    <2>2. Len(b) \in 1..Len(b) /\ Len(b) + Len(a) = Len(w) /\ Len(w) # 0
      BY <1>1, <2>1
    <2>3. w # <<>>
      BY <2>2
    <2>4. w[Len(w)] = b[Len(b)]
      BY <1>3, <2>2
    <2> QED BY <2>3, <2>4 DEF Last
  <1> QED BY <1>1, <1>5, <1>6, <1>7 DEF w

\* What one thing, two or none says.
LEMMA FewSay ==
  ASSUME NEW x \in Chunks, NEW y \in Chunks, NEW ts
  PROVE  /\ <<x>> \in Seq(Chunks) /\ <<x>> # <<>> /\ Last(<<x>>) = x.kind
         /\ \A k : Has(<<x>>, k) <=> x.kind = k
         /\ MadeOf(<<x>>, ts) <=> (x.kind = "synthesis" => x.of = ts)
         /\ <<x, y>> \in Seq(Chunks) /\ <<x, y>> # <<>> /\ Last(<<x, y>>) = y.kind
         /\ \A k : Has(<<x, y>>, k) <=> (x.kind = k \/ y.kind = k)
         /\ MadeOf(<<x, y>>, ts) <=> /\ x.kind = "synthesis" => x.of = ts
                                     /\ y.kind = "synthesis" => y.of = ts
  <1>1. /\ <<x>> \in Seq(Chunks) /\ <<x>> # <<>> /\ Last(<<x>>) = x.kind
        /\ \A k : Has(<<x>>, k) <=> x.kind = k
        /\ MadeOf(<<x>>, ts) <=> (x.kind = "synthesis" => x.of = ts)
    BY DEF Last, Has, MadeOf
  <1>2. /\ <<x, y>> \in Seq(Chunks) /\ <<x, y>> # <<>> /\ Len(<<x, y>>) = 2
        /\ <<x, y>>[1] = x /\ <<x, y>>[2] = y
    OBVIOUS
  <1> DEFINE w == <<x, y>>
  <1> HIDE DEF w
  <1>3. w[1] = x /\ w[2] = y /\ Len(w) = 2 /\ 1..Len(w) = {1, 2}
    BY <1>2 DEF w
  <1>4. /\ \A k : Has(w, k) <=> (x.kind = k \/ y.kind = k)
        /\ MadeOf(w, ts) <=> /\ x.kind = "synthesis" => x.of = ts
                             /\ y.kind = "synthesis" => y.of = ts
        /\ Last(w) = y.kind
    BY <1>3 DEF Has, MadeOf, Last
  <1> QED BY <1>1, <1>2, <1>4 DEF w

\* Silence.
LEMMA NoneSays ==
  ASSUME NEW ts
  PROVE  /\ <<>> \in Seq(Chunks) /\ MadeOf(<<>>, ts) /\ \A k : ~Has(<<>>, k)
  BY DEF MadeOf, Has

\* The kinds of chunks.
LEMMA ChunkKinds ==
  /\ \A x \in MemberResults : F!Member(x) \in Chunks /\ F!Member(x).kind = "member"
  /\ F!Done \in Chunks /\ F!Done.kind = "done"
  /\ F!Envelope \in Chunks /\ F!Envelope.kind = "error"
  /\ \A ts \in SUBSET Texts : /\ F!Synthesis(ts) \in Chunks /\ F!Synthesis(ts).kind = "synthesis"
                              /\ F!Synthesis(ts).of = ts
  <1>1. \A x \in MemberResults : F!Member(x) \in Chunks /\ F!Member(x).kind = "member"
    BY DEF F!Member, MemberResults, Chunks, F!Sources
  <1>2. /\ F!Done \in Chunks /\ F!Done.kind = "done"
        /\ F!Envelope \in Chunks /\ F!Envelope.kind = "error"
    BY DEF F!Done, F!Envelope, Chunks, F!Unnamed
  <1>3. \A ts \in SUBSET Texts : /\ F!Synthesis(ts) \in Chunks /\ F!Synthesis(ts).kind = "synthesis"
                                /\ F!Synthesis(ts).of = ts
    BY DEF F!Synthesis, Chunks
  <1> QED BY <1>1, <1>2, <1>3

\* A request that ends says what its outcome says.
LEMMA FinishKeeps ==
  ASSUME PanelTypes, PanelWords, NEW r \in Requests, stage[r] # "done",
         NEW chunks \in Seq(Chunks), NEW o \in Outcomes, F!Finish(r, chunks, o),
         UNCHANGED <<mode, left>>,
         texts' \in [Requests -> SUBSET Texts],
         \A q \in Requests : q # r => texts'[q] = texts[q],
         MadeOf(chunks, texts'[r]),
         r \notin left => Truthful(chunks, o, mode[r])
  PROVE  /\ PanelWords'
         /\ stage' \in [Requests -> Stages] /\ wire' \in [Requests -> Seq(Chunks)]
         /\ outcome' \in [Requests -> Outcomes]
  <1> DEFINE said == IF r \in left THEN wire[r] ELSE wire[r] \o chunks
  <1>1. /\ stage' = [stage EXCEPT ![r] = "done"] /\ outcome' = [outcome EXCEPT ![r] = o]
        /\ wire' = [wire EXCEPT ![r] = said]
    BY DEF F!Finish
  <1>2. wire[r] \in Seq(Chunks) /\ NothingSaid(r)
    BY DEF PanelTypes, PanelWords
  <1>3. wire[r] \o chunks \in Seq(Chunks)
    BY <1>2, ConcatSays
  <1>4. MadeOf(said, texts'[r])
    <2>1. MadeOf(wire[r], texts'[r])
      BY <1>2 DEF NothingSaid, Has, MadeOf
    <2> QED BY <1>2, <2>1, ConcatSays
  <1>5. r \notin left => Truthful(said, o, mode[r])
    <2> HAVE r \notin left
    <2>1. said = wire[r] \o chunks
      OBVIOUS
    <2>2. \A k \in {"synthesis", "error"} : Has(said, k) <=> Has(chunks, k)
      BY <1>2, <2>1, ConcatSays DEF NothingSaid
    <2>3. chunks # <<>> => said # <<>> /\ Last(said) = Last(chunks)
      BY <1>2, <2>1, ConcatSays
    <2> HIDE DEF said
    <2> QED BY <2>2, <2>3 DEF Truthful
  <1>6. said \in Seq(Chunks)
    BY <1>2, <1>3
  <1> HIDE DEF said
  <1>7. /\ stage' \in [Requests -> Stages] /\ outcome' \in [Requests -> Outcomes]
        /\ wire' \in [Requests -> Seq(Chunks)]
    BY <1>1, <1>6 DEF PanelTypes, Stages
  <1>8. \A q \in Requests : /\ stage'[q] = IF q = r THEN "done" ELSE stage[q]
                            /\ wire'[q] = IF q = r THEN said ELSE wire[q]
                            /\ outcome'[q] = IF q = r THEN o ELSE outcome[q]
    BY <1>1 DEF PanelTypes
  <1>9. PanelWords'
    <2> SUFFICES ASSUME NEW q \in Requests
                 PROVE  /\ MadeOf(wire'[q], texts'[q])
                        /\ stage'[q] # "done" => NothingSaid(q)'
                        /\ (stage'[q] = "done" /\ q \notin left') =>
                             Truthful(wire'[q], outcome'[q], mode'[q])
      BY DEF PanelWords
    <2>1. CASE q = r
      BY <1>4, <1>5, <1>8, <2>1
    <2>2. CASE q # r
      BY <1>8, <2>2 DEF PanelWords, NothingSaid
    <2> QED BY <2>1, <2>2
  <1> QED BY <1>7, <1>9

\* A client gets its first chunk, and a member says it.
Opens(q) == wire[q] = <<>> /\ wire'[q] # <<>> /\ wire'[q][1].kind = "member"

\* It is of a member that did not fail and brings the tool calls, if there are any.
OpensWell(q) ==
  \E x \in {F!First(q), F!Second(q)} :
    /\ F!Member(x) = wire'[q][1] /\ ~x.err
    /\ (F!First(q).tools \/ F!Second(q).tools) => x.tools

\* Nobody speaks for a member but the panel itself.
LEMMA FinishOpens ==
  ASSUME PanelTypes, NEW r \in Requests, NEW chunks \in Seq(Chunks), NEW o,
         F!Finish(r, chunks, o), ~Has(chunks, "member"), NEW q \in Requests, Opens(q)
  PROVE  FALSE
  <1>1. wire' = [wire EXCEPT ![r] = IF r \in left THEN wire[r] ELSE wire[r] \o chunks]
    BY DEF F!Finish
  <1>2. q = r /\ wire'[r] = wire[r] \o chunks
    BY <1>1 DEF PanelTypes, Opens
  <1>3. wire[r] \in Seq(Chunks) /\ wire'[r] \in Seq(Chunks)
    BY <1>2, ConcatSays DEF PanelTypes
  <1>4. Has(wire'[r], "member")
    <2>1. Len(wire'[r]) \in Nat \ {0}
      BY <1>2, <1>3, EmptySeq DEF Opens
    <2> QED BY <1>2, <2>1 DEF Has, Opens
  <1>5. Has(wire[r], "member")
    <2>1. Has(wire[r] \o chunks, "member") <=> (Has(wire[r], "member") \/ Has(chunks, "member"))
      BY <1>3, ConcatSays
    <2> QED BY <1>2, <1>4, <2>1
  <1> QED BY <1>2, <1>5, NoneSays DEF Opens

\* Whoever won did not fail and brings the tool calls.
LEMMA WinnerFacts ==
  ASSUME PanelTypes, NEW r \in Requests, Len(results[r]) = 2
  PROVE  /\ F!First(r) \in MemberResults /\ F!Second(r) \in MemberResults
         /\ F!Winner(r) \in {F!First(r), F!Second(r)}
         /\ ~(F!First(r).err /\ F!Second(r).err) =>
              /\ ~F!Winner(r).err
              /\ (F!First(r).tools \/ F!Second(r).tools) => F!Winner(r).tools
         /\ F!TextsOf(r) \in SUBSET Texts
  <1>1. F!First(r) \in MemberResults /\ F!Second(r) \in MemberResults
    <2>1. results[r] \in Seq(MemberResults) /\ 1 \in 1..Len(results[r]) /\ 2 \in 1..Len(results[r])
      BY DEF PanelTypes
    <2> QED BY <2>1, ElementOfSeq DEF F!First, F!Second
  <1>2. F!TextsOf(r) \in SUBSET Texts
    BY <1>1 DEF MemberResults, F!TextsOf
  <1>3. /\ F!First(r).err \in BOOLEAN /\ F!First(r).tools \in BOOLEAN
        /\ F!Second(r).err \in BOOLEAN /\ F!Second(r).tools \in BOOLEAN
        /\ (F!First(r).err => ~F!First(r).tools) /\ (F!Second(r).err => ~F!Second(r).tools)
    BY <1>1 DEF MemberResults
  <1> QED BY <1>1, <1>2, <1>3 DEF F!Winner

\* Both members are in, and the panel is progressive.
LEMMA PanelStreamingKeeps ==
  ASSUME PanelInv, NEW r \in Requests, F!PanelStreaming(r)
  PROVE  PanelInv' /\ \A q \in Requests : Opens(q) => OpensWell(q)
  <1>1. /\ stage[r] = "members" /\ Len(results[r]) = 2
        /\ results' = [results EXCEPT ![r] = <<>>]
        /\ texts' = [texts EXCEPT ![r] = F!TextsOf(r)]
        /\ UNCHANGED <<mode, left, items, lru, time, panels>>
    BY DEF F!PanelStreaming, F!Joined, F!cacheVars
  <1>2. PanelTypes /\ PanelWords /\ ArbiterInv
    BY DEF PanelInv
  <1>3. ArbiterInv'
    BY <1>1, <1>2 DEF ArbiterInv
  <1>4. results' \in [Requests -> Seq(MemberResults)]
    BY <1>1, <1>2 DEF PanelTypes
  <1>5. /\ texts' \in [Requests -> SUBSET Texts]
        /\ \A q \in Requests : q # r => texts'[q] = texts[q]
    BY <1>1, <1>2, WinnerFacts DEF PanelTypes
  <1> DEFINE w == F!Winner(r)
  <1>6. w \in MemberResults /\ w.source \in {"local", "frontier"}
    <2>1. w \in MemberResults
      BY <1>1, <1>2, WinnerFacts
    <2> QED BY <2>1 DEF MemberResults, F!Sources
  <1> HIDE DEF w
  <1>7. \A ts : /\ MadeOf(<<F!Envelope>>, ts) /\ <<F!Envelope>> \in Seq(Chunks)
                /\ Has(<<F!Envelope>>, "error") /\ ~Has(<<F!Envelope>>, "member")
    BY ChunkKinds, FewSay
  <1>8. CASE F!First(r).err /\ F!Second(r).err
    <2> DEFINE o == [F!Undecided EXCEPT !.err = TRUE]
    <2>1. F!Finish(r, <<F!Envelope>>, o)
      BY <1>8 DEF F!PanelStreaming
    <2>2. o \in Outcomes /\ o.err
      BY DEF F!Undecided, Outcomes, F!Unnamed
    <2> HIDE DEF o
    <2>3. Truthful(<<F!Envelope>>, o, mode[r])
      BY <1>7, <2>2 DEF Truthful
    <2>4. /\ PanelWords'
          /\ stage' \in [Requests -> Stages] /\ wire' \in [Requests -> Seq(Chunks)]
          /\ outcome' \in [Requests -> Outcomes]
      BY <1>1, <1>2, <1>5, <1>7, <2>1, <2>2, <2>3, FinishKeeps
    <2>5. \A q \in Requests : ~Opens(q)
      BY <1>2, <1>7, <2>1, FinishOpens
    <2> QED BY <1>1, <1>2, <1>3, <1>4, <1>5, <2>4, <2>5 DEF PanelInv, PanelTypes
  <1>9. CASE ~(F!First(r).err /\ F!Second(r).err) /\ r \in left
    <2> DEFINE o == [F!Undecided EXCEPT !.source = F!Winner(r).source]
    <2>1. F!Finish(r, <<>>, o)
      BY <1>9 DEF F!PanelStreaming
    <2>2. o \in Outcomes
      BY <1>6 DEF F!Undecided, Outcomes, F!Unnamed, w
    <2> HIDE DEF o
    <2>3. /\ PanelWords'
          /\ stage' \in [Requests -> Stages] /\ wire' \in [Requests -> Seq(Chunks)]
          /\ outcome' \in [Requests -> Outcomes]
      BY <1>1, <1>2, <1>5, <1>9, <2>1, <2>2, NoneSays, FinishKeeps
    <2>4. \A q \in Requests : ~Opens(q)
      BY <1>2, <2>1, NoneSays, FinishOpens
    <2> QED BY <1>1, <1>2, <1>3, <1>4, <1>5, <2>3, <2>4 DEF PanelInv, PanelTypes
  <1>10. CASE ~(F!First(r).err /\ F!Second(r).err) /\ r \notin left
    <2>1. PICK reason \in F!SkipReasons(r) :
            IF reason # F!Unnamed
            THEN F!Finish(r, <<F!Member(w), F!Done>>,
                   [F!Undecided EXCEPT !.skipped = TRUE, !.reason = reason, !.source = w.source])
            ELSE /\ stage' = [stage EXCEPT ![r] = "arbiter"]
                 /\ wire' = [wire EXCEPT ![r] = <<F!Member(w)>>]
                 /\ outcome' = [outcome EXCEPT ![r].source = w.source]
      BY <1>10 DEF F!PanelStreaming, w
    <2>2. reason \in {"none", "tool_calls", "one_member", "agreement"}
      BY DEF F!SkipReasons, F!Unnamed
    <2>3. /\ F!Member(w) \in Chunks /\ F!Member(w).kind = "member"
          /\ F!Done \in Chunks /\ F!Done.kind = "done"
      BY <1>6, ChunkKinds
    <2>4. wire[r] \in Seq(Chunks) /\ \A q \in Requests : q # r => wire'[q] = wire[q]
      BY <1>2, <2>1 DEF PanelTypes, F!Finish
    <2>5. ASSUME Opens(r), wire'[r][1] = F!Member(w) PROVE OpensWell(r)
      BY <1>1, <1>2, <1>10, <2>5, WinnerFacts DEF OpensWell, w
    <2>6. CASE reason # F!Unnamed
      <3> DEFINE o == [F!Undecided EXCEPT !.skipped = TRUE, !.reason = reason, !.source = w.source]
                 cs == <<F!Member(w), F!Done>>
      <3>1. F!Finish(r, cs, o)
        BY <2>1, <2>6
      <3>2. o \in Outcomes /\ ~o.err /\ o.skipped /\ ~o.hit
        BY <1>6, <2>2 DEF F!Undecided, Outcomes, F!Unnamed
      <3>3. /\ cs \in Seq(Chunks) /\ cs # <<>> /\ Last(cs) = "done"
            /\ ~Has(cs, "error") /\ ~Has(cs, "synthesis") /\ MadeOf(cs, texts'[r])
        BY <2>3, FewSay
      <3>4. cs[1] = F!Member(w)
        OBVIOUS
      <3> HIDE DEF o, cs
      <3>5. Truthful(cs, o, mode[r])
        BY <3>2, <3>3 DEF Truthful
      <3>6. /\ PanelWords'
            /\ stage' \in [Requests -> Stages] /\ wire' \in [Requests -> Seq(Chunks)]
            /\ outcome' \in [Requests -> Outcomes]
        BY <1>1, <1>2, <1>5, <3>1, <3>2, <3>3, <3>5, FinishKeeps
      <3>7. \A q \in Requests : Opens(q) => OpensWell(q)
        <4> SUFFICES ASSUME NEW q \in Requests, Opens(q) PROVE OpensWell(q)
          OBVIOUS
        <4>1. q = r
          BY <2>4 DEF Opens
        <4>2. wire'[r] = wire[r] \o cs /\ wire[r] = <<>>
          BY <1>2, <1>10, <3>1, <4>1 DEF F!Finish, PanelTypes, Opens
        <4>3. wire'[r] = cs
          BY <3>3, <4>2, ConcatEmptySeq
        <4> QED BY <2>5, <3>4, <4>1, <4>3
      <3> QED BY <1>1, <1>2, <1>3, <1>4, <1>5, <3>6, <3>7 DEF PanelInv, PanelTypes
    <2>7. CASE reason = F!Unnamed
      <3> DEFINE c == <<F!Member(w)>>
                 o == [outcome[r] EXCEPT !.source = w.source]
      <3>1. /\ stage' = [stage EXCEPT ![r] = "arbiter"] /\ wire' = [wire EXCEPT ![r] = c]
            /\ outcome' = [outcome EXCEPT ![r] = o]
        BY <2>1, <2>7
      <3>2. /\ c \in Seq(Chunks) /\ MadeOf(c, texts'[r]) /\ c[1] = F!Member(w)
            /\ ~Has(c, "error") /\ ~Has(c, "synthesis") /\ ~Has(c, "done")
        BY <2>3, FewSay
      <3>3. o \in Outcomes /\ ~o.skipped /\ ~o.hit /\ ~o.err
        BY <1>1, <1>2, <1>6 DEF PanelTypes, PanelWords, NothingSaid, Outcomes
      <3> HIDE DEF c, o
      <3>4. /\ stage' \in [Requests -> Stages] /\ wire' \in [Requests -> Seq(Chunks)]
            /\ outcome' \in [Requests -> Outcomes]
        BY <1>2, <3>1, <3>2, <3>3 DEF PanelTypes, Stages
      <3>5. \A q \in Requests : /\ stage'[q] = IF q = r THEN "arbiter" ELSE stage[q]
                                /\ wire'[q] = IF q = r THEN c ELSE wire[q]
                                /\ outcome'[q] = IF q = r THEN o ELSE outcome[q]
        BY <1>2, <3>1 DEF PanelTypes
      <3>6. PanelWords'
        <4> SUFFICES ASSUME NEW q \in Requests
                     PROVE  /\ MadeOf(wire'[q], texts'[q])
                            /\ stage'[q] # "done" => NothingSaid(q)'
                            /\ (stage'[q] = "done" /\ q \notin left') =>
                                 Truthful(wire'[q], outcome'[q], mode'[q])
          BY DEF PanelWords
        <4>1. CASE q = r
          BY <3>2, <3>3, <3>5, <4>1 DEF NothingSaid
        <4>2. CASE q # r
          BY <1>1, <1>2, <1>5, <3>5, <4>2 DEF PanelWords, NothingSaid
        <4> QED BY <4>1, <4>2
      <3>7. \A q \in Requests : Opens(q) => OpensWell(q)
        <4> SUFFICES ASSUME NEW q \in Requests, Opens(q) PROVE OpensWell(q)
          OBVIOUS
        <4>1. q = r
          BY <2>4 DEF Opens
        <4> QED BY <2>5, <3>2, <3>5, <4>1
      <3> QED BY <1>1, <1>2, <1>3, <1>4, <1>5, <3>4, <3>6, <3>7 DEF PanelInv, PanelTypes
    <2> QED BY <2>6, <2>7
  <1> QED BY <1>8, <1>9, <1>10

\* A step that leaves what was said alone.
LEMMA WordsSame ==
  ASSUME PanelTypes, PanelWords, UNCHANGED <<texts, wire, outcome, mode>>, stage' \in [Requests -> Stages],
         \A r \in Requests : (stage'[r] = "done" <=> stage[r] = "done"),
         \A r \in Requests : (stage[r] = "done" /\ r \notin left') => r \notin left
  PROVE  PanelWords'
  BY DEF PanelWords, NothingSaid

\* A synthesis from the cache, or none.
LEMMA GetKeeps ==
  ASSUME PanelInv, NEW r \in Requests, F!Get(r)
  PROVE  PanelInv' /\ \A q \in Requests : ~Opens(q)
  <1>1. /\ stage[r] = "arbiter" /\ UNCHANGED <<mode, results, texts, left, items, time, panels>>
    BY DEF F!Get
  <1>2. PanelTypes /\ PanelWords /\ ArbiterInv
    BY DEF PanelInv
  <1>3. CASE F!Usable(r)
    <2> DEFINE chunk == F!Synthesis(items[texts[r]].of)
               plain == mode[r] # "progressive"
               cs == IF mode[r] = "buffered" THEN <<chunk>> ELSE <<chunk, F!Done>>
               o == [outcome[r] EXCEPT !.hit = TRUE, !.skipped = plain, !.err = plain /\ r \in left,
                                       !.reason = IF plain THEN "cache_hit" ELSE @]
    <2>1. lru' = F!touch(lru, texts[r]) /\ F!Finish(r, cs, o)
      BY <1>3 DEF F!Get, F!cacheKey
    <2>2. texts[r] \in DOMAIN items /\ texts[r] \in SUBSET Texts /\ items[texts[r]].of = texts[r]
      BY <1>2, <1>3 DEF F!Usable, F!cacheKey, ArbiterInv, PanelTypes
    <2>3. ArbiterInv'
      <3>1. /\ lru' \in Seq(SUBSET Texts) /\ Distinct(lru')
            /\ Named(lru') = Named(lru) \cup {texts[r]}
        BY <1>2, <2>1, <2>2, TouchKeeps DEF ArbiterInv
      <3>2. Named(lru') = DOMAIN items
        BY <1>2, <2>2, <3>1 DEF ArbiterInv
      <3> QED BY <1>1, <1>2, <3>1, <3>2 DEF ArbiterInv
    <2>4. chunk \in Chunks /\ chunk.kind = "synthesis" /\ chunk.of = texts[r]
      BY <2>2, ChunkKinds
    <2>5. F!Done \in Chunks /\ F!Done.kind = "done"
      BY ChunkKinds
    <2>6. o \in Outcomes /\ o.hit /\ (r \notin left => ~o.err)
      BY <1>2 DEF PanelTypes, Outcomes
    <2> HIDE DEF chunk, o
    <2>7. /\ cs \in Seq(Chunks) /\ cs # <<>> /\ (mode[r] = "buffered" \/ Last(cs) = "done")
          /\ ~Has(cs, "error") /\ Has(cs, "synthesis") /\ ~Has(cs, "member") /\ MadeOf(cs, texts[r])
      BY <2>4, <2>5, FewSay
    <2> HIDE DEF cs
    <2>8. r \notin left => Truthful(cs, o, mode[r])
      BY <2>6, <2>7 DEF Truthful
    <2>9. /\ PanelWords'
          /\ stage' \in [Requests -> Stages] /\ wire' \in [Requests -> Seq(Chunks)]
          /\ outcome' \in [Requests -> Outcomes]
      <3>1. texts' = texts /\ texts \in [Requests -> SUBSET Texts]
        BY <1>1, <1>2 DEF PanelTypes
      <3> QED BY <1>1, <1>2, <2>1, <2>6, <2>7, <2>8, <3>1, FinishKeeps
    <2>10. \A q \in Requests : ~Opens(q)
      BY <1>2, <2>1, <2>7, FinishOpens
    <2> QED BY <1>1, <1>2, <2>3, <2>9, <2>10 DEF PanelInv, PanelTypes
  <1>4. CASE ~F!Usable(r)
    <2>1. stage' = [stage EXCEPT ![r] = "synthesis"] /\ UNCHANGED <<wire, outcome, lru>>
      BY <1>4 DEF F!Get
    <2>2. stage' \in [Requests -> Stages]
      BY <1>2, <2>1 DEF PanelTypes, Stages
    <2>3. PanelWords'
      <3>1. \A q \in Requests : (stage'[q] = "done" <=> stage[q] = "done")
        BY <1>1, <1>2, <2>1 DEF PanelTypes
      <3> QED BY <1>1, <1>2, <2>1, <2>2, <3>1, WordsSame
    <2>4. ArbiterInv'
      BY <1>1, <1>2, <2>1 DEF ArbiterInv
    <2> QED BY <1>1, <1>2, <2>1, <2>2, <2>3, <2>4 DEF PanelInv, PanelTypes, Opens
  <1> QED BY <1>3, <1>4

\* The arbiter answers a stream, is cut off, or has nobody to answer to.
LEMMA ArbiterStreamKeeps ==
  ASSUME PanelInv, NEW r \in Requests, F!ArbiterStream(r)
  PROVE  PanelInv' /\ \A q \in Requests : ~Opens(q)
  <1>1. /\ stage[r] = "synthesis" /\ mode[r] # "buffered"
        /\ UNCHANGED <<mode, results, texts, left, items, lru>>
    BY DEF F!ArbiterStream, F!cacheVars
  <1>2. PanelTypes /\ PanelWords /\ ArbiterInv
    BY DEF PanelInv
  <1>3. texts' = texts /\ texts \in [Requests -> SUBSET Texts] /\ ArbiterInv'
    BY <1>1, <1>2 DEF PanelTypes, ArbiterInv
  <1>4. ASSUME NEW cs \in Seq(Chunks), NEW o \in Outcomes, F!Finish(r, cs, o), ~Has(cs, "member"),
               MadeOf(cs, texts[r]), r \notin left => Truthful(cs, o, mode[r])
        PROVE  PanelInv' /\ \A q \in Requests : ~Opens(q)
    <2>1. /\ PanelWords'
          /\ stage' \in [Requests -> Stages] /\ wire' \in [Requests -> Seq(Chunks)]
          /\ outcome' \in [Requests -> Outcomes]
      BY <1>1, <1>2, <1>3, <1>4, FinishKeeps
    <2>2. \A q \in Requests : ~Opens(q)
      BY <1>2, <1>4, FinishOpens
    <2> QED BY <1>1, <1>2, <1>3, <2>1, <2>2 DEF PanelInv, PanelTypes
  <1>5. outcome[r] \in Outcomes /\ ~outcome[r].skipped /\ ~outcome[r].hit /\ ~outcome[r].err
    BY <1>1, <1>2 DEF PanelTypes, PanelWords, NothingSaid
  <1> DEFINE syn == F!Synthesis(texts[r])
  <1>6. /\ syn \in Chunks /\ syn.kind = "synthesis" /\ syn.of = texts[r]
        /\ F!Done \in Chunks /\ F!Done.kind = "done"
        /\ F!Envelope \in Chunks /\ F!Envelope.kind = "error"
    BY <1>2, ChunkKinds DEF PanelTypes
  <1>7. /\ <<syn>> \in Seq(Chunks) /\ Has(<<syn>>, "synthesis") /\ MadeOf(<<syn>>, texts[r])
        /\ \A k : Has(<<syn>>, k) <=> k = "synthesis"
    <2> HIDE DEF syn
    <2>1. \A k : Has(<<syn>>, k) <=> syn.kind = k
      BY <1>6, FewSay
    <2>2. /\ <<syn>> \in Seq(Chunks)
          /\ MadeOf(<<syn>>, texts[r]) <=> (syn.kind = "synthesis" => syn.of = texts[r])
      BY <1>6, FewSay
    <2> QED BY <1>6, <2>1, <2>2
  <1>8. /\ <<F!Done>> \in Seq(Chunks) /\ <<F!Done>> # <<>> /\ Last(<<F!Done>>) = "done"
        /\ MadeOf(<<F!Done>>, texts[r]) /\ \A k : Has(<<F!Done>>, k) <=> k = "done"
    <2>1. \A k : Has(<<F!Done>>, k) <=> F!Done.kind = k
      BY <1>6, FewSay
    <2>2. /\ <<F!Done>> \in Seq(Chunks) /\ <<F!Done>> # <<>> /\ Last(<<F!Done>>) = F!Done.kind
          /\ MadeOf(<<F!Done>>, texts[r]) <=> (F!Done.kind = "synthesis" => F!Done.of = texts[r])
      BY <1>6, FewSay
    <2> QED BY <1>6, <2>1, <2>2
  <1>9. /\ <<F!Envelope>> \in Seq(Chunks) /\ MadeOf(<<F!Envelope>>, texts[r])
        /\ \A k : Has(<<F!Envelope>>, k) <=> k = "error"
    <2>1. \A k : Has(<<F!Envelope>>, k) <=> F!Envelope.kind = k
      BY <1>6, FewSay
    <2>2. /\ <<F!Envelope>> \in Seq(Chunks)
          /\ MadeOf(<<F!Envelope>>, texts[r]) <=> (F!Envelope.kind = "synthesis" => F!Envelope.of = texts[r])
      BY <1>6, FewSay
    <2> QED BY <1>6, <2>1, <2>2
  <1>10. /\ <<syn, F!Done>> \in Seq(Chunks) /\ MadeOf(<<syn, F!Done>>, texts[r])
         /\ ~Has(<<syn, F!Done>>, "member") /\ ~Has(<<syn, F!Done>>, "error")
    BY <1>6, FewSay
  <1>11. <<>> \in Seq(Chunks) /\ MadeOf(<<>>, texts[r]) /\ \A k : ~Has(<<>>, k)
    BY NoneSays
  <1> HIDE DEF syn
  <1>12. ASSUME r \notin left, NEW up \in {<<>>, <<F!Done>>},
                F!Finish(r, <<syn>> \o up \o <<F!Done>>, outcome[r])
         PROVE  PanelInv' /\ \A q \in Requests : ~Opens(q)
    <2> DEFINE a == <<syn>> \o up
               cs == a \o <<F!Done>>
    <2>1. up \in Seq(Chunks) /\ MadeOf(up, texts[r]) /\ \A k : Has(up, k) => k = "done"
      BY <1>8, <1>11
    <2>2. /\ a \in Seq(Chunks) /\ MadeOf(a, texts[r])
          /\ \A k : Has(a, k) <=> (Has(<<syn>>, k) \/ Has(up, k))
      BY <1>7, <2>1, ConcatSays
    <2> HIDE DEF a
    <2>3. /\ cs \in Seq(Chunks) /\ MadeOf(cs, texts[r]) /\ cs # <<>> /\ Last(cs) = "done"
          /\ \A k : Has(cs, k) <=> (Has(a, k) \/ Has(<<F!Done>>, k))
      BY <1>8, <2>2, ConcatSays
    <2> HIDE DEF cs
    <2>4. Has(cs, "synthesis") /\ ~Has(cs, "error") /\ ~Has(cs, "member")
      BY <1>7, <1>8, <2>1, <2>2, <2>3
    <2>5. Truthful(cs, outcome[r], mode[r])
      BY <1>5, <2>3, <2>4 DEF Truthful
    <2>6. F!Finish(r, cs, outcome[r])
      BY <1>12 DEF a, cs
    <2> QED BY <1>4, <1>5, <2>3, <2>4, <2>5, <2>6
  <1> DEFINE bad == [outcome[r] EXCEPT !.err = TRUE]
  <1>13. bad \in Outcomes /\ bad.err
    BY <1>5 DEF Outcomes
  <1>14. ASSUME r \notin left, NEW begun \in {<<>>, <<syn, F!Done>>},
                F!Finish(r, begun \o <<F!Envelope>>, bad)
         PROVE  PanelInv' /\ \A q \in Requests : ~Opens(q)
    <2> DEFINE cs == begun \o <<F!Envelope>>
    <2>1. begun \in Seq(Chunks) /\ MadeOf(begun, texts[r]) /\ ~Has(begun, "member")
      BY <1>10, <1>11
    <2>2. /\ cs \in Seq(Chunks) /\ MadeOf(cs, texts[r])
          /\ \A k : Has(cs, k) <=> (Has(begun, k) \/ Has(<<F!Envelope>>, k))
      BY <1>9, <2>1, ConcatSays
    <2>3. F!Finish(r, cs, bad)
      BY <1>14
    <2> HIDE DEF cs, bad
    <2>4. Has(cs, "error") /\ ~Has(cs, "member")
      BY <1>9, <2>1, <2>2
    <2>5. Truthful(cs, bad, mode[r])
      BY <1>13, <2>4 DEF Truthful
    <2> QED BY <1>4, <1>13, <2>2, <2>3, <2>4, <2>5
  <1> DEFINE last == [outcome[r] EXCEPT !.err = (mode[r] = "stream")]
  <1>15. ASSUME r \in left, F!Finish(r, <<>>, last)
         PROVE  PanelInv' /\ \A q \in Requests : ~Opens(q)
    <2>1. last \in Outcomes
      BY <1>5 DEF Outcomes
    <2> HIDE DEF last
    <2> QED BY <1>4, <1>11, <1>15, <2>1
  <1> QED BY <1>12, <1>14, <1>15 DEF F!ArbiterStream, syn

\* The arbiter answers in one piece, and the cache keeps it.
LEMMA ArbiterBufferedKeeps ==
  ASSUME PanelInv, NEW r \in Requests, F!ArbiterBuffered(r)
  PROVE  PanelInv' /\ \A q \in Requests : ~Opens(q)
  <1>1. /\ stage[r] = "synthesis" /\ mode[r] = "buffered"
        /\ UNCHANGED <<mode, results, texts, left, time, panels>>
    BY DEF F!ArbiterBuffered
  <1>2. PanelTypes /\ PanelWords /\ ArbiterInv
    BY DEF PanelInv
  <1>3. texts' = texts /\ texts \in [Requests -> SUBSET Texts] /\ texts[r] \in SUBSET Texts
    BY <1>1, <1>2 DEF PanelTypes
  <1>4. ASSUME NEW cs \in Seq(Chunks), NEW o \in Outcomes, F!Finish(r, cs, o), ~Has(cs, "member"),
               MadeOf(cs, texts[r]), r \notin left => Truthful(cs, o, mode[r]), ArbiterInv'
        PROVE  PanelInv' /\ \A q \in Requests : ~Opens(q)
    <2>1. /\ PanelWords'
          /\ stage' \in [Requests -> Stages] /\ wire' \in [Requests -> Seq(Chunks)]
          /\ outcome' \in [Requests -> Outcomes]
      BY <1>1, <1>2, <1>3, <1>4, FinishKeeps
    <2>2. \A q \in Requests : ~Opens(q)
      BY <1>2, <1>4, FinishOpens
    <2> QED BY <1>1, <1>2, <1>3, <1>4, <2>1, <2>2 DEF PanelInv, PanelTypes
  <1>5. outcome[r] \in Outcomes /\ ~outcome[r].skipped /\ ~outcome[r].hit /\ ~outcome[r].err
    BY <1>1, <1>2 DEF PanelTypes, PanelWords, NothingSaid
  <1>6. UNCHANGED <<items, lru>> => ArbiterInv'
    BY <1>2 DEF ArbiterInv
  <1>7. ASSUME r \notin left, IF ArbiterTTL > 0 THEN F!Set(F!cacheKey(r), texts[r]) ELSE UNCHANGED <<items, lru>>,
               F!Finish(r, <<F!Synthesis(texts[r])>>, outcome[r])
        PROVE  PanelInv' /\ \A q \in Requests : ~Opens(q)
    <2> DEFINE syn == F!Synthesis(texts[r])
    <2>1. syn \in Chunks /\ syn.kind = "synthesis" /\ syn.of = texts[r]
      BY <1>3, ChunkKinds
    <2>2. F!Finish(r, <<syn>>, outcome[r])
      BY <1>7
    <2> HIDE DEF syn
    <2>3. /\ <<syn>> \in Seq(Chunks) /\ <<syn>> # <<>> /\ Has(<<syn>>, "synthesis")
          /\ ~Has(<<syn>>, "member") /\ ~Has(<<syn>>, "error") /\ MadeOf(<<syn>>, texts[r])
      BY <2>1, FewSay
    <2>4. Truthful(<<syn>>, outcome[r], mode[r])
      BY <1>1, <1>5, <2>3 DEF Truthful
    <2>5. ArbiterInv'
      BY <1>2, <1>3, <1>6, <1>7, SetKeeps DEF F!cacheKey
    <2> QED BY <1>4, <1>5, <2>2, <2>3, <2>4, <2>5
  <1> DEFINE bad == [outcome[r] EXCEPT !.err = TRUE]
  <1>8. ASSUME F!Finish(r, <<F!Envelope>>, bad), UNCHANGED <<items, lru>>
        PROVE  PanelInv' /\ \A q \in Requests : ~Opens(q)
    <2>1. bad \in Outcomes /\ bad.err
      BY <1>5 DEF Outcomes
    <2>2. /\ <<F!Envelope>> \in Seq(Chunks) /\ MadeOf(<<F!Envelope>>, texts[r])
          /\ Has(<<F!Envelope>>, "error") /\ ~Has(<<F!Envelope>>, "member")
      BY ChunkKinds, FewSay
    <2> HIDE DEF bad
    <2>3. Truthful(<<F!Envelope>>, bad, mode[r])
      BY <2>1, <2>2 DEF Truthful
    <2> QED BY <1>4, <1>6, <1>8, <2>1, <2>2, <2>3
  <1> QED BY <1>7, <1>8 DEF F!ArbiterBuffered

\* The members answer, and requests come, go and return.
LEMMA PanelOthersKeep ==
  ASSUME PanelInv, NEW r \in Requests,
         \/ F!Launch(r) \/ F!Panel(r) \/ F!Return(r) \/ F!Disconnect(r)
         \/ \E x \in F!Sources : F!FetchPanel(r, x)
  PROVE  PanelInv' /\ \A q \in Requests : ~Opens(q)
  <1>1. PanelTypes /\ PanelWords /\ ArbiterInv
    BY DEF PanelInv
  <1>2. UNCHANGED <<items, lru>> /\ ArbiterInv'
    <2>1. UNCHANGED <<items, lru>>
      BY DEF F!Launch, F!Panel, F!Return, F!Disconnect, F!FetchPanel, F!cacheVars
    <2> QED BY <1>1, <2>1 DEF ArbiterInv
  <1>3. \A x \in F!Sources : F!Failed(x) \in MemberResults
    BY UpstreamAssumption DEF F!Failed, MemberResults
  <1>4. CASE F!Launch(r)
    <2>1. /\ stage[r] = "idle" /\ stage' = [stage EXCEPT ![r] = "members"]
          /\ UNCHANGED <<texts, wire, outcome, left>>
      BY <1>4 DEF F!Launch
    <2>2. PICK m \in F!Modes : mode' = [mode EXCEPT ![r] = m]
      BY <1>4 DEF F!Launch
    <2>3. PICK skipLocal \in BOOLEAN :
            results' = [results EXCEPT ![r] = IF skipLocal THEN <<F!Failed("local")>> ELSE <<>>]
      BY <1>4 DEF F!Launch
    <2>4. results' \in [Requests -> Seq(MemberResults)]
      <3>1. F!Failed("local") \in MemberResults
        BY <1>3 DEF F!Sources
      <3>2. <<F!Failed("local")>> \in Seq(MemberResults) /\ <<>> \in Seq(MemberResults)
        BY <3>1
      <3> QED BY <1>1, <2>3, <3>2 DEF PanelTypes
    <2>5. stage' \in [Requests -> Stages] /\ mode' \in [Requests -> F!Modes]
      BY <1>1, <2>1, <2>2 DEF PanelTypes, Stages
    <2>6. \A q \in Requests : /\ stage'[q] = IF q = r THEN "members" ELSE stage[q]
                              /\ q # r => mode'[q] = mode[q]
      BY <1>1, <2>1, <2>2 DEF PanelTypes
    <2>7. PanelWords'
      BY <1>1, <2>1, <2>6 DEF PanelWords, NothingSaid
    <2> QED BY <1>1, <1>2, <2>1, <2>4, <2>5, <2>7 DEF PanelInv, PanelTypes, Opens
  <1>5. CASE F!Panel(r)
    <2>1. /\ stage[r] = "members" /\ Len(results[r]) = 2
          /\ stage' = [stage EXCEPT ![r] = "arbiter"]
          /\ results' = [results EXCEPT ![r] = <<>>]
          /\ texts' = [texts EXCEPT ![r] = F!TextsOf(r)]
          /\ UNCHANGED <<mode, wire, outcome, left>>
      BY <1>5 DEF F!Panel, F!Joined
    <2>2. results' \in [Requests -> Seq(MemberResults)] /\ texts' \in [Requests -> SUBSET Texts]
      BY <1>1, <2>1, WinnerFacts DEF PanelTypes
    <2>3. stage' \in [Requests -> Stages]
      BY <1>1, <2>1 DEF PanelTypes, Stages
    <2>4. \A q \in Requests : /\ stage'[q] = IF q = r THEN "arbiter" ELSE stage[q]
                              /\ q # r => texts'[q] = texts[q]
      BY <1>1, <2>1 DEF PanelTypes
    <2>5. MadeOf(wire[r], texts'[r])
      BY <1>1, <2>1 DEF PanelWords, NothingSaid, Has, MadeOf
    <2>6. PanelWords'
      BY <1>1, <2>1, <2>4, <2>5 DEF PanelWords, NothingSaid
    <2> QED BY <1>1, <1>2, <2>1, <2>2, <2>3, <2>6 DEF PanelInv, PanelTypes, Opens
  <1>6. CASE F!Return(r)
    <2>1. /\ stage' = [stage EXCEPT ![r] = "idle"] /\ mode' = [mode EXCEPT ![r] = "stream"]
          /\ texts' = [texts EXCEPT ![r] = {}] /\ wire' = [wire EXCEPT ![r] = <<>>]
          /\ outcome' = [outcome EXCEPT ![r] = F!Undecided] /\ left' = left \ {r}
          /\ UNCHANGED results
      BY <1>6 DEF F!Return
    <2>2. F!Undecided \in Outcomes /\ ~F!Undecided.skipped /\ ~F!Undecided.hit /\ ~F!Undecided.err
      BY DEF F!Undecided, Outcomes, F!Unnamed
    <2>3. /\ stage' \in [Requests -> Stages] /\ mode' \in [Requests -> F!Modes]
          /\ texts' \in [Requests -> SUBSET Texts]
      BY <1>1, <2>1 DEF PanelTypes, Stages, F!Modes
    <2>4. wire' \in [Requests -> Seq(Chunks)]
      BY <1>1, <2>1 DEF PanelTypes
    <2>5. outcome' \in [Requests -> Outcomes]
      BY <1>1, <2>1, <2>2 DEF PanelTypes
    <2>6. \A q \in Requests :
            /\ q = r => /\ stage'[q] = "idle" /\ wire'[q] = <<>> /\ outcome'[q] = F!Undecided
            /\ q # r => /\ stage'[q] = stage[q] /\ wire'[q] = wire[q] /\ outcome'[q] = outcome[q]
                        /\ texts'[q] = texts[q] /\ mode'[q] = mode[q] /\ (q \in left' <=> q \in left)
      BY <1>1, <2>1 DEF PanelTypes
    <2>7. PanelWords'
      <3> SUFFICES ASSUME NEW q \in Requests
                   PROVE  /\ MadeOf(wire'[q], texts'[q])
                          /\ stage'[q] # "done" => NothingSaid(q)'
                          /\ (stage'[q] = "done" /\ q \notin left') =>
                               Truthful(wire'[q], outcome'[q], mode'[q])
        BY DEF PanelWords
      <3>1. CASE q = r
        BY <2>2, <2>6, <3>1, NoneSays DEF NothingSaid
      <3>2. CASE q # r
        BY <1>1, <2>6, <3>2 DEF PanelWords, NothingSaid
      <3> QED BY <3>1, <3>2
    <2>8. \A q \in Requests : ~Opens(q)
      BY <2>6 DEF Opens
    <2>9. PanelTypes'
      BY <1>1, <2>1, <2>3, <2>4, <2>5 DEF PanelTypes
    <2> QED BY <1>2, <2>7, <2>8, <2>9 DEF PanelInv
  <1>7. CASE F!Disconnect(r)
    <2>1. UNCHANGED <<stage, mode, results, texts, wire, outcome>> /\ left' = left \cup {r}
      BY <1>7 DEF F!Disconnect
    <2>2. PanelWords'
      BY <1>1, <2>1, WordsSame DEF PanelTypes
    <2> QED BY <1>1, <1>2, <2>1, <2>2 DEF PanelInv, PanelTypes, Opens
  <1>8. ASSUME NEW x \in F!Sources, F!FetchPanel(r, x)
        PROVE  PanelInv' /\ \A q \in Requests : ~Opens(q)
    <2>1. UNCHANGED <<stage, mode, texts, wire, outcome, left>>
      BY <1>8 DEF F!FetchPanel
    <2>2. PICK y \in {F!Failed(x)} \cup F!Replies(x) : results' = [results EXCEPT ![r] = Append(results[r], y)]
      BY <1>8 DEF F!FetchPanel
    <2>3. y \in MemberResults
      <3>1. F!Replies(x) \subseteq MemberResults
        BY DEF F!Replies, MemberResults
      <3> QED BY <1>3, <2>2, <3>1
    <2>4. Append(results[r], y) \in Seq(MemberResults)
      BY <1>1, <2>3 DEF PanelTypes
    <2>5. results' \in [Requests -> Seq(MemberResults)]
      BY <1>1, <2>2, <2>4 DEF PanelTypes
    <2>6. PanelWords'
      BY <1>1, <2>1, WordsSame DEF PanelTypes
    <2> QED BY <1>1, <1>2, <2>1, <2>5, <2>6 DEF PanelInv, PanelTypes, Opens
  <1> QED BY <1>4, <1>5, <1>6, <1>7, <1>8

\* No panel yet.
LEMMA PanelStarts == F!PanelInit => PanelInv
  <1> SUFFICES ASSUME F!PanelInit PROVE PanelInv
    OBVIOUS
  <1>1. F!Undecided \in Outcomes /\ ~F!Undecided.skipped /\ ~F!Undecided.hit /\ ~F!Undecided.err
    BY DEF F!Undecided, Outcomes, F!Unnamed
  <1>2. PanelTypes
    BY <1>1 DEF F!PanelInit, PanelTypes, Stages, F!Modes
  <1>3. PanelWords
    BY <1>1, NoneSays DEF F!PanelInit, PanelWords, NothingSaid
  <1> QED BY <1>2, <1>3, ArbiterStarts DEF PanelInv

\* What changes nothing of the panel.
LEMMA PanelSame ==
  ASSUME PanelInv, UNCHANGED <<stage, mode, results, texts, wire, outcome, left, items, lru>>
  PROVE  PanelInv' /\ \A q \in Requests : ~Opens(q)
  <1>1. PanelTypes /\ PanelWords /\ ArbiterInv
    BY DEF PanelInv
  <1>2. PanelWords'
    BY <1>1, WordsSame DEF PanelTypes
  <1>3. ArbiterInv' /\ PanelTypes'
    BY <1>1 DEF ArbiterInv, PanelTypes
  <1> QED BY <1>2, <1>3 DEF PanelInv, Opens

\* Every step of every request keeps the invariant and opens well.
LEMMA PanelNextKeeps ==
  ASSUME PanelInv, F!PanelNext
  PROVE  PanelInv' /\ \A q \in Requests : Opens(q) => OpensWell(q)
  <1>1. CASE F!PanelTick
    BY <1>1, PanelSame DEF F!PanelTick
  <1>2. ASSUME NEW r \in Requests, F!Launch(r) \/ F!PanelStep(r) \/ F!Return(r) \/ F!Disconnect(r)
        PROVE  PanelInv' /\ \A q \in Requests : Opens(q) => OpensWell(q)
    <2>1. CASE F!PanelStreaming(r)
      BY <2>1, PanelStreamingKeeps
    <2>2. CASE F!Get(r)
      BY <2>2, GetKeeps
    <2>3. CASE F!ArbiterStream(r)
      BY <2>3, ArbiterStreamKeeps
    <2>4. CASE F!ArbiterBuffered(r)
      BY <2>4, ArbiterBufferedKeeps
    <2>5. CASE \/ F!Launch(r) \/ F!Panel(r) \/ F!Return(r) \/ F!Disconnect(r)
               \/ \E x \in F!Sources : F!FetchPanel(r, x)
      BY <2>5, PanelOthersKeep
    <2> QED BY <1>2, <2>1, <2>2, <2>3, <2>4, <2>5 DEF F!PanelStep
  <1> QED BY <1>1, <1>2 DEF F!PanelNext

\* The invariant gives what the run checks.
LEMMA PanelFollows == PanelInv => PanelSound
  <1> SUFFICES ASSUME PanelInv PROVE PanelSound
    OBVIOUS
  <1>1. F!ArbiterCacheSound
    BY ArbiterFollows DEF PanelInv
  <1>2. F!PanelHonest
    BY DEF PanelInv, PanelWords, Truthful, MadeOf, Has, Last, F!PanelHonest, F!Sent
  <1> QED BY <1>1, <1>2 DEF PanelSound

\* For any requests, texts, cap and TTL: a synthesis a client is sent was made from the
\* texts of its own panel, also when it comes from the cache; an answer without an error
\* is complete, one with an error says so, and the outcome tells whether the arbiter was
\* needed; the cache stays within its cap and its order names what it holds, once each
\* (internal/upstream/upstream.go:994-1141, arbiter_cache.go).
THEOREM FusionPanelSound == UpstreamSpec => []PanelSound
  <1>1. UpstreamInit => PanelInv
    BY PanelStarts DEF UpstreamInit
  <1>2. PanelInv /\ [UpstreamNext]_<<focus, vars, panelVars>> => PanelInv'
    BY PanelNextKeeps, PanelSame DEF UpstreamNext, panelVars
  <1> QED BY <1>1, <1>2, PanelFollows, PTL DEF UpstreamSpec

\* A reply of the coalescer is shared only while its flight is in the air or less than TTL
\* after it was stored, and the first thing a client of the panel is sent comes from a
\* member that did not fail and brings the tool calls if either member has some, whichever
\* of the two answered first.
THEOREM UpstreamRepliesHonest == UpstreamSpec => RepliesHonest
  <1>1. UpstreamInit => CoalescerInv /\ PanelInv
    BY CoalescerStarts, PanelStarts DEF UpstreamInit
  <1>2. CoalescerInv /\ PanelInv /\ [UpstreamNext]_<<focus, vars, panelVars>> =>
          CoalescerInv' /\ PanelInv'
    BY CoalescerStep, CoalescerSame, PanelNextKeeps, PanelSame DEF UpstreamNext, panelVars
  <1>3. CoalescerInv /\ [UpstreamNext]_<<focus, vars, panelVars>> =>
          [\A c \in Callers : (pc[c] # "idle" /\ pc'[c] = "idle" /\ c \notin leader[Key(c)])
             => \/ now < result'[c].at + TTL
                \/ leader[Key(c)] # {}]_vars
    <2> SUFFICES ASSUME CoalescerInv, [UpstreamNext]_<<focus, vars, panelVars>>, vars' # vars
                 PROVE  \A c \in Callers :
                          (pc[c] # "idle" /\ pc'[c] = "idle" /\ c \notin leader[Key(c)])
                             => \/ now < result'[c].at + TTL
                                \/ leader[Key(c)] # {}
      OBVIOUS
    <2>1. Next
      BY DEF UpstreamNext
    <2> QED BY <2>1, SharedStep
  <1>4. PanelInv /\ [UpstreamNext]_<<focus, vars, panelVars>> =>
          [\A r \in Requests : (wire[r] = <<>> /\ wire'[r] # <<>> /\ wire'[r][1].kind = "member") =>
             \E x \in {F!First(r), F!Second(r)} :
               /\ F!Member(x) = wire'[r][1] /\ ~x.err
               /\ (F!First(r).tools \/ F!Second(r).tools) => x.tools]_panelVars
    <2> SUFFICES ASSUME PanelInv, [UpstreamNext]_<<focus, vars, panelVars>>, panelVars' # panelVars
                 PROVE  \A r \in Requests : Opens(r) => OpensWell(r)
      BY DEF Opens, OpensWell
    <2>1. F!PanelNext
      BY DEF UpstreamNext
    <2> QED BY <2>1, PanelNextKeeps
  <1> QED
    BY <1>1, <1>2, <1>3, <1>4, PTL
    DEF UpstreamSpec, RepliesHonest, SharedInWindow, F!WinnerHonest, F!panelVars, panelVars
=============================================================================
