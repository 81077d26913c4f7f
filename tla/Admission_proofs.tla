-------------------------- MODULE Admission_proofs --------------------------
(***************************************************************************)
(* Proofs about who is let in and what becomes of a request: the rate       *)
(* limiter's buckets for any clients, callers, rates, bursts and clocks;    *)
(* the credentials in use and the API-key gate; and the front half of the   *)
(* chat handler, for any number of requests at once.                        *)
(***************************************************************************)
EXTENDS MCAdmission, FiniteSetTheorems, SequenceTheorems, WellFoundedInduction, TLAPS

BucketType == [tokens : Nat, lastRefill : Nat, lastSeen : Nat]
CallType == [at : {"idle", "arrived", "holds"}, client : Clients, now : Nat, id : Nat]
ShareType == [tokens : Nat, since : Nat, rate : Rates \cup {0}]

RateTypes ==
  /\ tick \in 0..RateClock /\ rpm \in Rates /\ burst \in Bursts /\ made \in Nat
  /\ buckets \in [Clients -> 0..made]
  /\ bucket \in [1..made -> BucketType]
  /\ call \in [Callers -> CallType]
  /\ share \in [Clients -> ShareType]
  /\ over \in [Clients -> BOOLEAN]

\* A request's clock is at most a tick old.
CallsTimely ==
  \A r \in Callers : call[r].at # "idle" => call[r].now <= tick /\ tick <= call[r].now + 1

\* No bucket is in the map for two clients, and nobody holds another client's.
BucketsOwned ==
  /\ \A c, d \in Clients : buckets[c] # 0 /\ buckets[c] = buckets[d] => c = d
  /\ \A r \in Callers : call[r].at = "holds" =>
       /\ call[r].id \in 1..made
       /\ \A c \in Clients : buckets[c] = call[r].id => c = call[r].client

\* A bucket in the map agrees with the share on the last refill and holds no more
\* tokens, at no higher rate; it was seen after all but a tick of its refills.
KeepsTo(b, s) ==
  /\ b.lastRefill = s.since /\ b.tokens <= s.tokens /\ s.since <= tick
  /\ s.rate = 0 \/ rpm <= s.rate
  /\ s.since <= b.lastSeen + 1

\* A client without a bucket was never seen, or not for as long as a full refill takes.
SharesKept ==
  \A c \in Clients :
    /\ buckets[c] # 0 => KeepsTo(bucket[buckets[c]], share[c])
    /\ buckets[c] = 0 => share[c] = New \/ share[c].since + TTL <= tick

RateInv == RateTypes /\ CallsTimely /\ BucketsOwned /\ SharesKept /\ RateKept

-----------------------------------------------------------------------------
\* A set of natural numbers has a least element, and a bounded one a greatest.
LEMMA LeastExists ==
  ASSUME NEW T \in SUBSET Nat, T # {}
  PROVE  \E x \in T : \A y \in T : x <= y
<1>1. PICK x \in T : \A y \in T : ~ (<<y, x>> \in OpToRel(<, Nat))
  BY WFMin, NatLessThanWellFounded
<1>2. \A y \in T : ~ (y < x)
  BY <1>1 DEF OpToRel
<1> QED
  BY <1>2

\* Products grow with their factors.
LEMMA TimesGrows ==
  ASSUME NEW a \in Nat, NEW b \in Nat, NEW x \in Nat, NEW y \in Nat, a <= b, x <= y
  PROVE  a * x <= b * y /\ a * x \in Nat /\ b * y \in Nat
<1>1. a * x <= b * x /\ b * x <= b * y
  BY SMT
<1>2. a * x \in Nat /\ b * x \in Nat /\ b * y \in Nat
  BY SMT
<1> QED
  BY <1>1, <1>2, SMT

\* A share has the fields its type says.
LEMMA ShareFields ==
  ASSUME NEW s \in ShareType
  PROVE  s.tokens \in Nat /\ s.since \in Nat /\ s.rate \in Nat /\ (s.rate # 0 => s.rate \in Rates \ {0})
<1>1. s.tokens \in Nat /\ s.since \in Nat /\ s.rate \in Rates \cup {0}
  BY DEF ShareType
<1>2. s.rate \in Rates \/ s.rate = 0
  BY <1>1
<1>3. \A n \in Rates : n \in Nat
  BY RateAssumption
<1> QED
  BY <1>1, <1>2, <1>3

\* The reaper waits for more than a tick.
LEMMA ReaperWaits ==
  ASSUME NEW b \in Bursts
  PROVE  TTL > 1
<1>1. PICK r \in Rates \ {0} : TRUE
  BY RateAssumption
<1>2. r \in Nat /\ b \in Nat /\ b > 0 /\ Cost \in Nat /\ Cost > 0 /\ TTL \in Nat
  BY RateAssumption
<1>3. (TTL - 1) * r >= b * Cost
  BY TTLAssumption
<1>4. b * Cost >= 1
  BY <1>2, TimesGrows
<1>5. CASE TTL = 0
  <2>1. (TTL - 1) * r = -r
    BY <1>5, <1>2
  <2> QED
    BY <2>1, <1>2, <1>3, <1>4
<1>6. CASE TTL = 1
  <2>1. (TTL - 1) * r = 0
    BY <1>6, <1>2
  <2> QED
    BY <2>1, <1>2, <1>3, <1>4
<1> QED
  BY <1>2, <1>5, <1>6

\* What a burst holds, in refilled units.
LEMMA WholeBurst ==
  ASSUME burst \in Bursts
  PROVE  burst * Cost \in Nat
BY RateAssumption

\* What a refill makes of a bucket, and the share of its client.
LEMMA RefillTypes ==
  ASSUME RateTypes, NEW b \in BucketType, NEW t \in Nat
  PROVE  /\ Refill(b, t) \in BucketType
         /\ Refill(b, t).lastSeen = b.lastSeen
         /\ t <= b.lastRefill => Refill(b, t) = b
         /\ t > b.lastRefill => /\ Refill(b, t).lastRefill = t
                                /\ Refill(b, t).tokens <= burst * Cost
                                /\ Refill(b, t).tokens <= b.tokens + (t - b.lastRefill) * rpm
<1>1. burst * Cost \in Nat /\ rpm \in Nat
  BY WholeBurst, RateAssumption DEF RateTypes
<1>2. b.tokens \in Nat /\ b.lastRefill \in Nat /\ b.lastSeen \in Nat
  BY DEF BucketType
<1>3. CASE t <= b.lastRefill
  BY <1>2, <1>3 DEF Refill
<1>4. CASE t > b.lastRefill
  <2> DEFINE n == t - b.lastRefill
  <2>1. n \in Nat
    BY <1>2, <1>4
  <2>2. n * rpm \in Nat
    BY <2>1, <1>1, TimesGrows
  <2> DEFINE m == b.tokens + n * rpm
  <2>3. m \in Nat
    BY <2>2, <1>2
  <2>4. Lesser(m, burst * Cost) \in Nat /\ Lesser(m, burst * Cost) <= m /\ Lesser(m, burst * Cost) <= burst * Cost
    BY <2>3, <1>1 DEF Lesser
  <2>5. Refill(b, t) = [b EXCEPT !.lastRefill = t, !.tokens = Lesser(m, burst * Cost)]
    BY <1>2, <1>4 DEF Refill
  <2> HIDE DEF m
  <2>6. Refill(b, t) = [tokens |-> Lesser(m, burst * Cost), lastRefill |-> t, lastSeen |-> b.lastSeen]
    BY <2>5, <1>2 DEF BucketType
  <2> QED
    BY <2>4, <2>6, <1>2, <1>4 DEF BucketType, m
<1> QED
  BY <1>2, <1>3, <1>4

\* What a share becomes at a caller's clock.
LEMMA AccruedTypes ==
  ASSUME RateTypes, NEW s \in ShareType, NEW t \in Nat
  PROVE  /\ Accrued(s, t) \in ShareType
         /\ s = New => Accrued(s, t) = [tokens |-> burst * Cost, since |-> t, rate |-> rpm]
         /\ s # New /\ t <= s.since => Accrued(s, t) = s
         /\ s # New /\ t > s.since =>
              /\ Accrued(s, t).since = t /\ Accrued(s, t).rate = rpm
              /\ s.rate = 0 => Accrued(s, t).tokens = burst * Cost
              /\ s.rate # 0 => Accrued(s, t).tokens = Lesser(s.tokens + (t - s.since) * s.rate, burst * Cost)
<1>1. burst * Cost \in Nat /\ rpm \in Nat /\ rpm \in Rates
  BY WholeBurst, RateAssumption DEF RateTypes
<1>2. s.tokens \in Nat /\ s.since \in Nat /\ s.rate \in Nat
  BY ShareFields
<1>3. CASE s = New
  <2>1. Accrued(s, t) = [tokens |-> burst * Cost, since |-> t, rate |-> rpm]
    BY <1>3 DEF Accrued
  <2> QED
    BY <2>1, <1>1, <1>3 DEF ShareType
<1>4. CASE s # New /\ t <= s.since
  BY <1>2, <1>4 DEF Accrued
<1>5. CASE s # New /\ ~(t <= s.since)
  <2> DEFINE m == IF s.rate = 0 THEN burst * Cost
                  ELSE Lesser(s.tokens + (t - s.since) * s.rate, burst * Cost)
  <2>1. Accrued(s, t) = [since |-> t, rate |-> rpm, tokens |-> m]
    BY <1>5 DEF Accrued
  <2>2. t - s.since \in Nat
    BY <1>2, <1>5
  <2>3. (t - s.since) * s.rate \in Nat
    BY <2>2, <1>2, TimesGrows
  <2>4. m \in Nat
    BY <2>3, <1>1, <1>2 DEF Lesser
  <2> HIDE DEF m
  <2>5. Accrued(s, t) \in ShareType /\ Accrued(s, t).since = t /\ Accrued(s, t).rate = rpm /\ Accrued(s, t).tokens = m
    BY <2>1, <2>4, <1>1 DEF ShareType
  <2> QED
    BY <2>5, <1>2, <1>5 DEF m
<1> QED
  BY <1>3, <1>4, <1>5, <1>2

\* Refilled together, a bucket still keeps to its client's share.
LEMMA RefillKeeps ==
  ASSUME RateTypes, NEW b \in BucketType, NEW s \in ShareType, NEW t \in Nat,
         KeepsTo(b, s), s # New, t <= tick
  PROVE  /\ Refill(b, t).lastRefill = Accrued(s, t).since
         /\ Refill(b, t).tokens <= Accrued(s, t).tokens
         /\ Accrued(s, t).since <= tick
         /\ Accrued(s, t).rate = 0 \/ rpm <= Accrued(s, t).rate
<1>1. burst * Cost \in Nat /\ rpm \in Nat /\ tick \in Nat
  BY WholeBurst, RateAssumption DEF RateTypes
<1>2. s.tokens \in Nat /\ s.since \in Nat /\ s.rate \in Nat /\ b.tokens \in Nat
  BY ShareFields DEF BucketType
<1>3. b.lastRefill = s.since /\ b.tokens <= s.tokens /\ s.since <= tick /\ (s.rate = 0 \/ rpm <= s.rate)
  BY DEF KeepsTo
<1>4. CASE t <= s.since
  <2>1. Refill(b, t) = b /\ Accrued(s, t) = s
    BY <1>3, <1>4, RefillTypes, AccruedTypes
  <2> QED
    BY <2>1, <1>3
<1>5. CASE t > s.since
  <2> DEFINE n == t - s.since
             x == Refill(b, t).tokens
             y == Accrued(s, t).tokens
  <2>1. /\ Refill(b, t).lastRefill = t /\ x <= burst * Cost /\ x <= b.tokens + n * rpm /\ x \in Nat
    <3>1. Refill(b, t) \in BucketType
      BY RefillTypes
    <3>2. x \in Nat
      BY <3>1 DEF BucketType
    <3>3. t > b.lastRefill
      BY <1>3, <1>5
    <3> HIDE DEF x
    <3>4. Refill(b, t).lastRefill = t /\ Refill(b, t).tokens <= burst * Cost
          /\ Refill(b, t).tokens <= b.tokens + (t - b.lastRefill) * rpm
      BY <3>3, RefillTypes
    <3> QED
      BY <3>2, <3>4, <1>3 DEF x
  <2>2. Accrued(s, t).since = t /\ Accrued(s, t).rate = rpm
    BY <1>5, AccruedTypes
  <2>3. x <= y
    <3>1. CASE s.rate = 0
      BY <3>1, <2>1, <1>5, AccruedTypes
    <3>2. CASE s.rate # 0
      <4>1. y = Lesser(s.tokens + n * s.rate, burst * Cost)
        BY <3>2, <1>5, AccruedTypes
      <4>2. n \in Nat /\ rpm <= s.rate
        BY <3>2, <1>2, <1>3, <1>5
      <4>3. n * rpm <= n * s.rate /\ n * rpm \in Nat /\ n * s.rate \in Nat
        BY <4>2, <1>1, <1>2, TimesGrows
      <4> HIDE DEF x, y, n
      <4>4. x <= s.tokens + n * s.rate
        <5> DEFINE p == n * rpm
                   q == n * s.rate
        <5>1. p \in Nat /\ q \in Nat /\ p <= q /\ x <= b.tokens + p /\ x \in Nat
          BY <4>3, <2>1
        <5> HIDE DEF p, q
        <5>2. x <= s.tokens + q
          BY <5>1, <1>2, <1>3
        <5> QED
          BY <5>2 DEF q
      <4> QED
        BY <4>1, <4>4, <2>1 DEF Lesser
    <3> QED
      BY <3>1, <3>2
  <2> QED
    BY <2>1, <2>2, <2>3, <1>1
<1> QED
  BY <1>4, <1>5, <1>2

\* A share unused for as long as the reaper waits is whole again.
LEMMA IdleIsFull ==
  ASSUME RateTypes, NEW s \in ShareType, NEW t \in Nat, s = New \/ s.since + TTL <= t + 1
  PROVE  /\ Accrued(s, t).tokens = burst * Cost /\ Accrued(s, t).since = t
         /\ Accrued(s, t).rate = rpm
<1>1. CASE s = New
  BY <1>1, AccruedTypes
<1>2. CASE s # New
  <2>1. s.since \in Nat /\ s.tokens \in Nat /\ s.rate \in Nat /\ (s.rate # 0 => s.rate \in Rates \ {0})
    BY ShareFields
  <2> DEFINE n == t - s.since
  <2>2. TTL \in Nat /\ TTL > 1 /\ s.since + TTL <= t + 1 /\ burst \in Bursts /\ burst * Cost \in Nat
    BY <1>2, ReaperWaits, RateAssumption, WholeBurst DEF RateTypes
  <2>3. t > s.since /\ n \in Nat /\ TTL - 1 \in Nat /\ TTL - 1 <= n
    BY <2>1, <2>2
  <2>4. Accrued(s, t).since = t /\ Accrued(s, t).rate = rpm
    BY <2>3, <1>2, AccruedTypes
  <2>5. CASE s.rate = 0
    BY <2>3, <2>4, <2>5, <1>2, AccruedTypes
  <2>6. CASE s.rate # 0
    <3>1. Accrued(s, t).tokens = Lesser(s.tokens + n * s.rate, burst * Cost)
      BY <2>3, <2>6, <1>2, AccruedTypes
    <3>2. (TTL - 1) * s.rate >= burst * Cost
      BY <2>1, <2>2, <2>6, TTLAssumption
    <3>3. (TTL - 1) * s.rate <= n * s.rate /\ n * s.rate \in Nat /\ (TTL - 1) * s.rate \in Nat
      BY <2>1, <2>3, TimesGrows
    <3> DEFINE p == n * s.rate
               q == (TTL - 1) * s.rate
    <3> HIDE DEF n, p, q
    <3>4. ~(s.tokens + p < burst * Cost)
      <4>1. q >= burst * Cost /\ q <= p /\ p \in Nat /\ q \in Nat
        BY <3>2, <3>3 DEF p, q
      <4> QED
        BY <4>1, <2>1, <2>2
    <3>5. Lesser(s.tokens + p, burst * Cost) = burst * Cost
      BY <3>4 DEF Lesser
    <3> QED
      BY <3>1, <3>5, <2>4 DEF p
  <2> QED
    BY <2>5, <2>6
<1> QED
  BY <1>1, <1>2

-----------------------------------------------------------------------------
\* A share that is not new dates from the past.
LEMMA NewIsNotPast ==
  ASSUME RateTypes, NEW s, s.since <= tick
  PROVE  s # New
<1>1. tick < RateClock + 1 /\ tick \in Nat /\ RateClock \in Nat
  BY RateAssumption DEF RateTypes
<1>2. New.since = RateClock + 1
  BY DEF New
<1> QED
  BY <1>1, <1>2

\* The limiter starts with no bucket and no share.
LEMMA RateInitially ==
  ASSUME RateInit
  PROVE  RateInv
<1>1. RateTypes
  <2>1. tick \in 0..RateClock /\ rpm \in Rates /\ burst \in Bursts /\ made \in Nat
    BY RateAssumption DEF RateInit
  <2>2. buckets \in [Clients -> 0..made] /\ bucket \in [1..made -> BucketType]
    BY DEF RateInit
  <2>3. None \in CallType
    BY RateAssumption DEF None, CallType
  <2>4. call \in [Callers -> CallType] /\ over \in [Clients -> BOOLEAN]
    BY <2>3 DEF RateInit
  <2>5. New \in ShareType
    BY RateAssumption DEF New, ShareType
  <2>6. share \in [Clients -> ShareType]
    BY <2>5 DEF RateInit
  <2> QED
    BY <2>1, <2>2, <2>4, <2>6 DEF RateTypes
<1>2. CallsTimely /\ BucketsOwned
  BY DEF RateInit, CallsTimely, BucketsOwned, None
<1>3. SharesKept /\ RateKept
  BY DEF RateInit, SharesKept, RateKept
<1> QED
  BY <1>1, <1>2, <1>3 DEF RateInv

\* What a call is known to be.
LEMMA CallFields ==
  ASSUME RateInv, NEW r \in Callers
  PROVE  /\ call[r] \in CallType /\ call[r].client \in Clients /\ call[r].now \in Nat /\ call[r].id \in Nat
         /\ call[r].at # "idle" => call[r].now <= tick /\ tick <= call[r].now + 1
         /\ tick \in Nat
<1>1. call[r] \in CallType
  BY DEF RateInv, RateTypes
<1> QED
  BY <1>1, RateAssumption DEF RateInv, RateTypes, CallsTimely, CallType

\* A call that has been given a bucket.
LEMMA Holding ==
  ASSUME RateTypes, NEW r \in Callers, NEW n \in Nat,
         call' = [call EXCEPT ![r].at = "holds", ![r].id = n]
  PROVE  \E a \in CallType :
            /\ a.at = "holds" /\ a.client = call[r].client /\ a.now = call[r].now /\ a.id = n
            /\ call' = [call EXCEPT ![r] = a]
<1> DEFINE x == call[r]
           a == [x EXCEPT !.at = "holds", !.id = n]
<1>1. call \in [Callers -> CallType] /\ x \in CallType
  BY DEF RateTypes
<1>2. a \in CallType
  BY <1>1 DEF CallType
<1>3. a.at = "holds" /\ a.client = x.client /\ a.now = x.now /\ a.id = n
  BY <1>1 DEF CallType
<1>4. call' = [call EXCEPT ![r] = a]
  BY <1>1
<1> QED
  BY <1>2, <1>3, <1>4

\* A request that arrives only reads the clock.
LEMMA ArriveKeeps ==
  ASSUME RateInv, NEW r \in Callers, NEW c \in Clients, Arrive(r, c)
  PROVE  RateInv'
<1> DEFINE a == [at |-> "arrived", client |-> c, now |-> tick, id |-> 0]
<1>0. tick \in Nat
  BY RateAssumption DEF RateInv, RateTypes
<1>1. a \in CallType
  BY <1>0 DEF CallType
<1>2. call' = [call EXCEPT ![r] = a]
  BY DEF Arrive
<1>3. UNCHANGED <<tick, rpm, burst, buckets, bucket, made, share, over>>
  BY DEF Arrive
<1>4. a.at = "arrived" /\ a.now = tick
  OBVIOUS
<1> HIDE DEF a
<1>5. RateTypes'
  BY <1>1, <1>2, <1>3 DEF RateInv, RateTypes
<1>6. \A x \in Callers : call'[x] = IF x = r THEN a ELSE call[x]
  BY <1>2 DEF RateInv, RateTypes
<1>7. CallsTimely'
  BY <1>0, <1>3, <1>4, <1>6 DEF RateInv, CallsTimely
<1>8. BucketsOwned'
  BY <1>3, <1>4, <1>6 DEF RateInv, BucketsOwned
<1>9. SharesKept' /\ RateKept'
  BY <1>3 DEF RateInv, SharesKept, RateKept, KeepsTo, New
<1> QED
  BY <1>5, <1>7, <1>8, <1>9 DEF RateInv

\* The clock moves on once no request is a tick behind.
LEMMA TickKeeps ==
  ASSUME RateInv, RateTick
  PROVE  RateInv'
<1>1. /\ UNCHANGED <<rpm, burst, buckets, bucket, made, call, share, over>>
      /\ tick' = tick + 1 /\ tick < RateClock
      /\ \A r \in Callers : call[r].at = "idle" \/ call[r].now = tick
  BY DEF RateTick
<1>2. tick \in Nat /\ tick' \in 0..RateClock
  BY <1>1, RateAssumption DEF RateInv, RateTypes
<1>3. RateTypes'
  BY <1>1, <1>2 DEF RateInv, RateTypes
<1>4. CallsTimely'
  BY <1>1, <1>2 DEF CallsTimely
<1>5. BucketsOwned' /\ RateKept'
  BY <1>1 DEF RateInv, BucketsOwned, RateKept
<1>6. SharesKept'
  <2>1. SUFFICES ASSUME NEW c \in Clients
                 PROVE  /\ buckets[c] # 0 => KeepsTo(bucket[buckets[c]], share[c])'
                        /\ buckets[c] = 0 => share[c] = New \/ share[c].since + TTL <= tick'
    BY <1>1 DEF SharesKept, New
  <2>2. share[c].since \in Nat /\ TTL \in Nat
    BY ShareFields, RateAssumption DEF RateInv, RateTypes
  <2>3. CASE buckets[c] # 0
    BY <2>2, <2>3, <1>1, <1>2 DEF RateInv, SharesKept, KeepsTo
  <2>4. CASE buckets[c] = 0
    BY <2>2, <2>4, <1>1, <1>2 DEF RateInv, SharesKept
  <2> QED
    BY <2>3, <2>4
<1> QED
  BY <1>3, <1>4, <1>5, <1>6 DEF RateInv

\* The reaper drops only buckets a full refill has passed over.
LEMMA ReapKeeps ==
  ASSUME RateInv, reap
  PROVE  RateInv'
<1> DEFINE idle == {c \in Clients : buckets[c] # 0 /\ tick > bucket[buckets[c]].lastSeen + TTL}
<1>1. /\ buckets' = [c \in Clients |-> IF c \in idle THEN 0 ELSE buckets[c]]
      /\ UNCHANGED <<tick, rpm, burst, bucket, made, call, share, over>>
  BY DEF reap
<1>2. made \in Nat /\ tick \in Nat /\ TTL \in Nat /\ \A c \in Clients : buckets[c] \in 0..made
  BY RateAssumption DEF RateInv, RateTypes
<1>3. \A c \in Clients : buckets'[c] = IF c \in idle THEN 0 ELSE buckets[c]
  BY <1>1
<1>4. buckets' \in [Clients -> 0..made]
  BY <1>1, <1>2
<1>5. RateTypes'
  BY <1>1, <1>4 DEF RateInv, RateTypes
<1>6. CallsTimely' /\ RateKept'
  BY <1>1 DEF RateInv, CallsTimely, RateKept
<1>7. BucketsOwned'
  BY <1>1, <1>2, <1>3 DEF RateInv, BucketsOwned
<1>8. SharesKept'
  <2>1. SUFFICES ASSUME NEW c \in Clients
                 PROVE  /\ buckets'[c] # 0 => KeepsTo(bucket[buckets'[c]], share[c])
                        /\ buckets'[c] = 0 => share[c] = New \/ share[c].since + TTL <= tick
    BY <1>1 DEF SharesKept, KeepsTo, New
  <2>2. CASE c \in idle
    <3>1. buckets[c] # 0 /\ tick > bucket[buckets[c]].lastSeen + TTL /\ buckets[c] \in 1..made
      BY <2>2, <1>2
    <3>2. bucket[buckets[c]] \in BucketType /\ share[c] \in ShareType
      BY <3>1 DEF RateInv, RateTypes
    <3>3. bucket[buckets[c]].lastSeen \in Nat /\ share[c].since \in Nat
      BY <3>2, ShareFields DEF BucketType
    <3>4. share[c].since <= bucket[buckets[c]].lastSeen + 1
      BY <3>1 DEF RateInv, SharesKept, KeepsTo
    <3>5. share[c].since + TTL <= tick
      BY <3>1, <3>3, <3>4, <1>2
    <3> QED
      BY <3>5, <2>2, <1>3
  <2>3. CASE c \notin idle
    BY <2>3, <1>3 DEF RateInv, SharesKept
  <2> QED
    BY <2>2, <2>3
<1> QED
  BY <1>5, <1>6, <1>7, <1>8 DEF RateInv

\* A reload changes rate and burst: no share grows by it.
LEMMA SetRatesKeeps ==
  ASSUME RateInv, NEW r \in Rates, NEW b \in Bursts, SetRates(r, b)
  PROVE  RateInv'
<1> DEFINE rate(s) == IF 0 \in {s.rate, r} THEN 0 ELSE IF r > s.rate THEN r ELSE s.rate
<1>1. rpm' = r /\ burst' = b /\ UNCHANGED <<tick, buckets, bucket, made, call, over>>
  BY DEF SetRates
<1>2. share' = [c \in Clients |-> IF share[c] = New THEN New ELSE [share[c] EXCEPT !.rate = rate(share[c])]]
  BY DEF SetRates
<1>3. \A c \in Clients : share[c] # New =>
        /\ share'[c] = [tokens |-> share[c].tokens, since |-> share[c].since, rate |-> rate(share[c])]
        /\ rate(share[c]) \in Rates \cup {0}
        /\ rate(share[c]) = 0 \/ r <= rate(share[c])
  <2> SUFFICES ASSUME NEW c \in Clients, share[c] # New
               PROVE  /\ share'[c] = [tokens |-> share[c].tokens, since |-> share[c].since, rate |-> rate(share[c])]
                      /\ rate(share[c]) \in Rates \cup {0}
                      /\ rate(share[c]) = 0 \/ r <= rate(share[c])
    OBVIOUS
  <2>1. share[c] \in ShareType
    BY DEF RateInv, RateTypes
  <2>2. share[c].rate \in Nat /\ (share[c].rate # 0 => share[c].rate \in Rates \ {0}) /\ r \in Nat
    BY <2>1, ShareFields, RateAssumption
  <2>3. rate(share[c]) \in Rates \cup {0} /\ (rate(share[c]) = 0 \/ r <= rate(share[c]))
    BY <2>2
  <2>4. share'[c] = [share[c] EXCEPT !.rate = rate(share[c])]
    BY <1>2
  <2> HIDE DEF rate
  <2>5. share'[c] = [tokens |-> share[c].tokens, since |-> share[c].since, rate |-> rate(share[c])]
    BY <2>1, <2>4 DEF ShareType
  <2> QED
    BY <2>3, <2>5
<1> HIDE DEF rate
<1>4. \A c \in Clients : share[c] = New => share'[c] = New
  BY <1>2
<1>5. share' \in [Clients -> ShareType]
  <2>1. ASSUME NEW c \in Clients
        PROVE  share'[c] \in ShareType
    <3>1. share[c] \in ShareType
      BY DEF RateInv, RateTypes
    <3>2. CASE share[c] = New
      BY <3>1, <3>2, <1>4
    <3>3. CASE share[c] # New
      <4>1. PICK n : /\ share'[c] = [tokens |-> share[c].tokens, since |-> share[c].since, rate |-> n]
                     /\ n \in Rates \cup {0}
        BY <3>3, <1>3
      <4> QED
        BY <3>1, <4>1 DEF ShareType
    <3> QED
      BY <3>2, <3>3
  <2>2. share' = [c \in Clients |-> share'[c]]
    BY <1>2
  <2> QED
    BY <2>1, <2>2
<1>6. RateTypes'
  BY <1>1, <1>5 DEF RateInv, RateTypes
<1>7. CallsTimely' /\ RateKept' /\ BucketsOwned'
  BY <1>1 DEF RateInv, CallsTimely, RateKept, BucketsOwned
<1>8. SharesKept'
  <2>1. SUFFICES ASSUME NEW c \in Clients
                 PROVE  /\ buckets[c] # 0 => KeepsTo(bucket[buckets[c]], share[c])'
                        /\ buckets[c] = 0 => share'[c] = New \/ share'[c].since + TTL <= tick
    BY <1>1 DEF SharesKept, New
  <2>2. CASE buckets[c] # 0
    <3>1. KeepsTo(bucket[buckets[c]], share[c])
      BY <2>2 DEF RateInv, SharesKept
    <3>2. share[c] # New
      BY <3>1, NewIsNotPast DEF KeepsTo, RateInv
    <3>3. PICK n : /\ share'[c] = [tokens |-> share[c].tokens, since |-> share[c].since, rate |-> n]
                   /\ n = 0 \/ r <= n
      BY <3>2, <1>3
    <3> QED
      BY <3>1, <3>3, <2>2, <1>1 DEF KeepsTo
  <2>3. CASE buckets[c] = 0
    <3>1. share[c] = New \/ share[c].since + TTL <= tick
      BY <2>3 DEF RateInv, SharesKept
    <3>2. CASE share[c] # New
      <4>1. PICK n : share'[c] = [tokens |-> share[c].tokens, since |-> share[c].since, rate |-> n]
        BY <3>2, <1>3
      <4> QED
        BY <3>1, <3>2, <4>1, <2>3
    <3> QED
      BY <3>2, <2>3, <1>4
  <2> QED
    BY <2>2, <2>3
<1> QED
  BY <1>6, <1>7, <1>8 DEF RateInv

\* A request finds its client's bucket, or makes one: a whole burst, which the share
\* has by then as well.
LEMMA BucketForKeeps ==
  ASSUME RateInv, NEW r \in Callers, bucketFor(r)
  PROVE  RateInv'
<1> DEFINE c == call[r].client
           t == call[r].now
<1>1. /\ call[r].at = "arrived" /\ UNCHANGED <<tick, rpm, burst, over>>
  BY DEF bucketFor
<1>2. /\ call[r] \in CallType /\ c \in Clients /\ t \in Nat /\ tick \in Nat
      /\ t <= tick /\ tick <= t + 1
  BY <1>1, CallFields
<1>3. made \in Nat /\ buckets[c] \in 0..made /\ TTL \in Nat
  BY <1>2, RateAssumption DEF RateInv, RateTypes
<1>4. CASE buckets[c] # 0
  <2>1. call' = [call EXCEPT ![r].at = "holds", ![r].id = buckets[c]]
        /\ UNCHANGED <<buckets, bucket, made, share>>
    BY <1>4 DEF bucketFor
  <2>2. PICK a \in CallType :
          /\ a.at = "holds" /\ a.client = c /\ a.now = t /\ a.id = buckets[c]
          /\ call' = [call EXCEPT ![r] = a]
    <3>1. RateTypes /\ buckets[c] \in Nat
      BY <1>3 DEF RateInv
    <3>2. call' = [call EXCEPT ![r].at = "holds", ![r].id = buckets[c]]
      BY <2>1
    <3> QED
      BY <3>1, <3>2, Holding, Zenon
  <2> HIDE DEF c, t
  <2>5. RateTypes'
    BY <2>1, <2>2, <1>1 DEF RateInv, RateTypes
  <2>6. \A x \in Callers : call'[x] = IF x = r THEN a ELSE call[x]
    BY <2>2 DEF RateInv, RateTypes
  <2>7. CallsTimely'
    BY <2>2, <2>6, <1>1, <1>2 DEF RateInv, CallsTimely
  <2>8. BucketsOwned'
    <3>1. \A x, y \in Clients : buckets[x] # 0 /\ buckets[x] = buckets[y] => x = y
      BY DEF RateInv, BucketsOwned
    <3>2. buckets[c] \in 1..made
      BY <1>3, <1>4
    <3>3. ASSUME NEW q \in Callers, call'[q].at = "holds"
          PROVE  call'[q].id \in 1..made /\ \A x \in Clients : buckets[x] = call'[q].id => x = call'[q].client
      <4>1. CASE q = r
        <5>1. call'[q].id = buckets[c] /\ call'[q].client = c
          BY <4>1, <2>2, <2>6
        <5> QED
          BY <5>1, <3>1, <3>2, <1>2, <1>4
      <4>2. CASE q # r
        BY <4>2, <3>3, <2>6 DEF RateInv, BucketsOwned
      <4> QED
        BY <4>1, <4>2
    <3> QED
      BY <3>1, <3>3, <2>1 DEF BucketsOwned
  <2>9. SharesKept' /\ RateKept'
    BY <2>1, <1>1 DEF RateInv, SharesKept, RateKept, KeepsTo, New
  <2> QED
    BY <2>5, <2>7, <2>8, <2>9 DEF RateInv
<1>5. CASE buckets[c] = 0
  <2> DEFINE h == Accrued(share[c], t)
  <2>1. /\ made' = made + 1
        /\ bucket' = [i \in 1..made + 1 |-> IF i <= made THEN bucket[i] ELSE Full(t)]
        /\ buckets' = [buckets EXCEPT ![c] = made + 1]
        /\ call' = [call EXCEPT ![r].at = "holds", ![r].id = made + 1]
        /\ share' = [share EXCEPT ![c] = h]
    BY <1>5 DEF bucketFor
  <2>2. PICK a \in CallType :
          /\ a.at = "holds" /\ a.client = c /\ a.now = t /\ a.id = made + 1
          /\ call' = [call EXCEPT ![r] = a]
    <3>1. RateTypes /\ made + 1 \in Nat
      BY <1>3 DEF RateInv
    <3>2. call' = [call EXCEPT ![r].at = "holds", ![r].id = made + 1]
      BY <2>1
    <3> QED
      BY <3>1, <3>2, Holding, Zenon
  <2>5. share[c] \in ShareType /\ (share[c] = New \/ share[c].since + TTL <= tick)
    BY <1>2, <1>5 DEF RateInv, RateTypes, SharesKept
  <2>6. share[c] = New \/ share[c].since + TTL <= t + 1
    BY <2>5, <1>2, <1>3, ShareFields
  <2>7. h.tokens = burst * Cost /\ h.since = t /\ h.rate = rpm /\ h \in ShareType
    BY <2>5, <2>6, <1>2, IdleIsFull, AccruedTypes DEF RateInv
  <2>8. Full(t) \in BucketType /\ Full(t).tokens = burst * Cost /\ Full(t).lastRefill = t /\ Full(t).lastSeen = t
    BY <1>2, WholeBurst DEF Full, BucketType, RateInv, RateTypes
  <2> HIDE DEF h, c, t
  <2>9. \A x \in Clients : /\ buckets'[x] = IF x = c THEN made + 1 ELSE buckets[x]
                           /\ share'[x] = IF x = c THEN h ELSE share[x]
    BY <2>1 DEF RateInv, RateTypes
  <2>10. \A x \in Callers : call'[x] = IF x = r THEN a ELSE call[x]
    BY <2>2 DEF RateInv, RateTypes
  <2>11. \A i \in 1..made : bucket'[i] = bucket[i]
    BY <2>1, <1>3
  <2>12. bucket'[made + 1] = Full(t)
    BY <2>1, <1>3
  <2>13. RateTypes'
    <3>1. tick' \in 0..RateClock /\ rpm' \in Rates /\ burst' \in Bursts /\ made' \in Nat /\ over' \in [Clients -> BOOLEAN]
      BY <2>1, <1>1, <1>3 DEF RateInv, RateTypes
    <3>2. buckets' \in [Clients -> 0..made']
      <4>1. buckets \in [Clients -> 0..made] /\ 0..made \subseteq 0..made + 1 /\ made + 1 \in 0..made + 1
        BY <1>3 DEF RateInv, RateTypes
      <4>2. [buckets EXCEPT ![c] = made + 1] \in [Clients -> 0..made + 1]
        BY <4>1
      <4> QED
        BY <4>2, <2>1
    <3>3. bucket' \in [1..made' -> BucketType]
      BY <2>1, <2>8, <1>3 DEF RateInv, RateTypes
    <3>4. call' \in [Callers -> CallType] /\ share' \in [Clients -> ShareType]
      BY <2>1, <2>2, <2>7 DEF RateInv, RateTypes
    <3> QED
      BY <3>1, <3>2, <3>3, <3>4 DEF RateTypes
  <2>14. CallsTimely' /\ RateKept'
    BY <2>2, <2>10, <1>1, <1>2 DEF RateInv, CallsTimely, RateKept
  <2>15. BucketsOwned'
    <3>1. \A x \in Clients : buckets[x] \in 0..made
      BY DEF RateInv, RateTypes
    <3>2. \A x, y \in Clients : buckets[x] # 0 /\ buckets[x] = buckets[y] => x = y
      BY DEF RateInv, BucketsOwned
    <3>3. \A x, y \in Clients : buckets'[x] # 0 /\ buckets'[x] = buckets'[y] => x = y
      BY <3>1, <3>2, <2>9, <1>3
    <3>4. ASSUME NEW q \in Callers, call'[q].at = "holds"
          PROVE  call'[q].id \in 1..made + 1 /\ \A x \in Clients : buckets'[x] = call'[q].id => x = call'[q].client
      <4>1. CASE q = r
        BY <4>1, <3>1, <2>2, <2>9, <2>10, <1>3
      <4>2. CASE q # r
        <5>1. call'[q] = call[q] /\ call[q].id \in 1..made
              /\ \A x \in Clients : buckets[x] = call[q].id => x = call[q].client
          BY <4>2, <3>4, <2>10 DEF RateInv, BucketsOwned
        <5> QED
          BY <5>1, <2>9, <1>3
      <4> QED
        BY <4>1, <4>2
    <3> QED
      BY <3>3, <3>4, <2>1 DEF BucketsOwned
  <2>16. SharesKept'
    <3>1. SUFFICES ASSUME NEW x \in Clients
                   PROVE  /\ buckets'[x] # 0 => KeepsTo(bucket[buckets[x]], share[x])'
                          /\ buckets'[x] = 0 => share'[x] = New \/ share'[x].since + TTL <= tick
      BY <1>1 DEF SharesKept, New
    <3>2. CASE x = c
      <4>1. buckets'[x] = made + 1 /\ share'[x] = h /\ bucket'[buckets'[x]] = Full(t)
        BY <3>2, <2>9, <2>12
      <4>2. rpm \in Nat /\ burst * Cost \in Nat
        BY RateAssumption, WholeBurst DEF RateInv, RateTypes
      <4>3. KeepsTo(bucket[buckets[x]], share[x])'
        BY <4>1, <4>2, <2>7, <2>8, <1>1, <1>2 DEF KeepsTo
      <4> QED
        BY <4>1, <4>3, <1>3
    <3>3. CASE x # c
      <4>1. buckets'[x] = buckets[x] /\ share'[x] = share[x] /\ buckets[x] \in 0..made
        BY <3>3, <2>9 DEF RateInv, RateTypes
      <4>2. buckets[x] # 0 => bucket'[buckets[x]] = bucket[buckets[x]]
        BY <4>1, <2>11, <1>3
      <4>3. /\ buckets[x] # 0 => KeepsTo(bucket[buckets[x]], share[x])
            /\ buckets[x] = 0 => share[x] = New \/ share[x].since + TTL <= tick
        BY DEF RateInv, SharesKept
      <4> QED
        BY <4>1, <4>2, <4>3, <1>1 DEF KeepsTo
    <3> QED
      BY <3>2, <3>3
  <2> QED
    BY <2>13, <2>14, <2>15, <2>16 DEF RateInv
<1> QED
  BY <1>4, <1>5

\* A request takes a token, or is refused; the share pays with the bucket in the map.
LEMMA AllowKeeps ==
  ASSUME RateInv, NEW r \in Callers, allow(r)
  PROVE  RateInv'
<1> DEFINE c == call[r].client
           t == call[r].now
           i == call[r].id
           f == Refill(bucket[i], t)
           b == [f EXCEPT !.lastSeen = t]
           ok == b.tokens >= Cost
           kept == buckets[c] = i
           had == Accrued(share[c], t)
           left == IF ok THEN [b EXCEPT !.tokens = @ - Cost] ELSE b
           due == IF ok /\ had.tokens >= Cost THEN [had EXCEPT !.tokens = @ - Cost] ELSE had
<1>1. /\ call[r].at = "holds" /\ UNCHANGED <<tick, rpm, burst, buckets, made>>
      /\ bucket' = [bucket EXCEPT ![i] = left]
      /\ share' = IF ~kept THEN share ELSE [share EXCEPT ![c] = due]
      /\ over' = [over EXCEPT ![c] = @ \/ (kept /\ ok /\ had.tokens < Cost)]
      /\ call' = [call EXCEPT ![r] = None]
  BY DEF allow
<1>2. /\ c \in Clients /\ t \in Nat /\ tick \in Nat /\ t <= tick /\ tick <= t + 1
      /\ i \in 1..made /\ (\A x \in Clients : buckets[x] = i => x = c)
  BY <1>1, CallFields DEF RateInv, BucketsOwned
<1>3. bucket[i] \in BucketType /\ share[c] \in ShareType /\ made \in Nat /\ Cost \in Nat \ {0}
  BY <1>2, RateAssumption DEF RateInv, RateTypes
<1>4. f \in BucketType /\ f.tokens \in Nat /\ f.lastRefill \in Nat
  BY <1>2, <1>3, RefillTypes DEF RateInv, BucketType
<1>5. b = [tokens |-> f.tokens, lastRefill |-> f.lastRefill, lastSeen |-> t]
  BY <1>4 DEF BucketType
<1>6. /\ ok <=> f.tokens >= Cost
      /\ left = [tokens |-> IF f.tokens >= Cost THEN f.tokens - Cost ELSE f.tokens,
                 lastRefill |-> f.lastRefill, lastSeen |-> t]
  BY <1>5
<1>7. had \in ShareType /\ had.tokens \in Nat /\ had.since \in Nat /\ had.rate \in Nat /\ had.rate \in Rates \cup {0}
  <2>1. had \in ShareType
    BY <1>2, <1>3, AccruedTypes DEF RateInv
  <2> HIDE DEF had
  <2>2. had.rate \in Rates \cup {0}
    BY <2>1 DEF ShareType
  <2> QED
    BY <2>1, <2>2, ShareFields
<1>8. due = [tokens |-> IF f.tokens >= Cost /\ had.tokens >= Cost THEN had.tokens - Cost ELSE had.tokens,
             since |-> had.since, rate |-> had.rate]
  BY <1>6, <1>7 DEF ShareType
<1>9. left \in BucketType
  BY <1>2, <1>3, <1>4, <1>6 DEF BucketType
<1>10. due \in ShareType
  <2> HIDE DEF had, f, due
  <2> QED
    BY <1>3, <1>4, <1>7, <1>8 DEF ShareType
\* The bucket in the map keeps to the share, and is no richer.
<1>11. ASSUME kept
       PROVE  /\ f.lastRefill = had.since /\ f.tokens <= had.tokens /\ had.since <= tick
              /\ had.rate = 0 \/ rpm <= had.rate
  <2>1. KeepsTo(bucket[i], share[c])
    BY <1>2, <1>3, <1>11 DEF RateInv, SharesKept
  <2>2. share[c] # New
    BY <2>1, NewIsNotPast DEF KeepsTo, RateInv
  <2> QED
    BY <2>1, <2>2, <1>2, <1>3, RefillKeeps DEF RateInv
<1>12. ~(kept /\ ok /\ had.tokens < Cost)
  <2> HIDE DEF had, f, kept, ok
  <2> QED
    BY <1>3, <1>4, <1>6, <1>7, <1>11
<1> HIDE DEF c, t, i, f, b, ok, kept, had, left, due
<1>13. over' = over
  BY <1>1, <1>2, <1>12 DEF RateInv, RateTypes
<1>14. None \in CallType /\ None.at = "idle"
  BY RateAssumption DEF None, CallType
<1>15. \A x \in Callers : call'[x] = IF x = r THEN None ELSE call[x]
  BY <1>1 DEF RateInv, RateTypes
<1>16. \A n \in 1..made : bucket'[n] = IF n = i THEN left ELSE bucket[n]
  BY <1>1 DEF RateInv, RateTypes
<1>17. \A x \in Clients : share'[x] = IF kept /\ x = c THEN due ELSE share[x]
  BY <1>1 DEF RateInv, RateTypes
<1>18. RateTypes'
  <2>1. bucket' \in [1..made -> BucketType]
    BY <1>1, <1>9 DEF RateInv, RateTypes
  <2>2. share' \in [Clients -> ShareType]
    BY <1>1, <1>10 DEF RateInv, RateTypes
  <2>3. call' \in [Callers -> CallType]
    BY <1>1, <1>14 DEF RateInv, RateTypes
  <2> QED
    BY <2>1, <2>2, <2>3, <1>1, <1>13 DEF RateInv, RateTypes
<1>19. CallsTimely' /\ RateKept'
  BY <1>1, <1>13, <1>14, <1>15 DEF RateInv, CallsTimely, RateKept
<1>20. BucketsOwned'
  BY <1>1, <1>14, <1>15 DEF RateInv, BucketsOwned
<1>21. SharesKept'
  <2>1. SUFFICES ASSUME NEW x \in Clients
                 PROVE  /\ buckets[x] # 0 => KeepsTo(bucket'[buckets[x]], share'[x])
                        /\ buckets[x] = 0 => share'[x] = New \/ share'[x].since + TTL <= tick
    BY <1>1 DEF SharesKept, KeepsTo, New
  <2>2. /\ buckets[x] # 0 => KeepsTo(bucket[buckets[x]], share[x])
        /\ buckets[x] = 0 => share[x] = New \/ share[x].since + TTL <= tick
        /\ buckets[x] \in 0..made
    BY DEF RateInv, SharesKept, RateTypes
  <2>3. CASE kept /\ x = c
    <3>1. buckets[x] = i /\ bucket'[i] = left /\ share'[x] = due
      BY <2>3, <1>2, <1>16, <1>17 DEF kept
    <3>2. /\ left.lastRefill = f.lastRefill /\ left.lastSeen = t
          /\ left.tokens = IF f.tokens >= Cost THEN f.tokens - Cost ELSE f.tokens
      BY <1>6
    <3>3. /\ due.since = had.since /\ due.rate = had.rate
          /\ due.tokens = IF f.tokens >= Cost /\ had.tokens >= Cost THEN had.tokens - Cost ELSE had.tokens
      BY <1>8
    <3>4. KeepsTo(left, due)
      BY <3>2, <3>3, <2>3, <1>2, <1>3, <1>4, <1>7, <1>11 DEF KeepsTo
    <3> QED
      BY <3>1, <3>4, <1>2
  <2>4. CASE ~(kept /\ x = c)
    <3>1. share'[x] = share[x]
      BY <2>4, <1>17
    <3>2. buckets[x] # i
      BY <2>4, <1>2 DEF kept
    <3>3. buckets[x] # 0 => bucket'[buckets[x]] = bucket[buckets[x]]
      BY <3>2, <2>2, <1>3, <1>16
    <3> QED
      BY <3>1, <3>3, <2>2
  <2> QED
    BY <2>3, <2>4
<1> QED
  BY <1>18, <1>19, <1>20, <1>21 DEF RateInv

\* Every step of the limiter keeps its invariant.
LEMMA RateStep ==
  ASSUME RateInv, [RateNext]_rateVars
  PROVE  RateInv'
<1>1. CASE UNCHANGED rateVars
  BY <1>1 DEF rateVars, RateInv, RateTypes, CallsTimely, BucketsOwned, SharesKept, RateKept, KeepsTo, New
<1>2. CASE RateNext
  BY <1>2, ArriveKeeps, BucketForKeeps, AllowKeeps, ReapKeeps, TickKeeps, SetRatesKeeps DEF RateNext
<1> QED
  BY <1>1, <1>2

\* Reaping buckets, making them again and reading the clock out of order never lets a
\* client have more than from one bucket kept for it all along (Middleware.bucketFor,
\* allow, reap, SetRPM, SetBurst), for any clients, callers, rates and bursts.
THEOREM RateLimiterKept == AdmissionSpec => []RateKept
<1>1. AdmissionInit => RateInv
  BY RateInitially DEF AdmissionInit
<1>2. RateInv /\ [AdmissionNext]_allVars => RateInv'
  <2> SUFFICES ASSUME RateInv, [AdmissionNext]_allVars
               PROVE  RateInv'
    OBVIOUS
  <2>1. [RateNext]_rateVars
    BY DEF AdmissionNext, allVars, rateVars
  <2> QED
    BY <2>1, RateStep
<1>3. RateInv => RateKept
  BY DEF RateInv
<1> QED
  BY <1>1, <1>2, <1>3, PTL DEF AdmissionSpec

-----------------------------------------------------------------------------
\* Secrets.  A value that is live or about to be is one the resolver can give again,
\* from its cache or from the environment; a pass under way has done so for the names
\* it is past.
Given(n) == cache[n] # S!Absent \/ S!Getenv(n) # S!Absent

VaultInv ==
  /\ stored \in [S!Name -> Nat] /\ cache \in [S!Name -> Nat]
  /\ next \in [S!Name -> Nat] /\ live \in [S!Name -> Nat] /\ at \in Nat
  /\ \A n \in S!Name : live[n] # S!Absent \/ next[n] # S!Absent => Given(n)
  /\ \A i \in 1..Len(Names) : i < at /\ live[Names[i]] # S!Absent => next[Names[i]] # S!Absent

\* What the names of the secrets and their absence are.
LEMMA VaultConstants ==
  /\ Len(Names) \in Nat /\ \A i \in 1..Len(Names) : Names[i] \in S!Name
  /\ \A n \in S!Name : \E i \in 1..Len(Names) : n = Names[i]
  /\ S!Absent = 0 /\ S!Rest = 0 /\ \A n \in S!Name : S!Getenv(n) \in Nat
  /\ S!Blank \in [S!Name -> Nat] /\ \A n \in S!Name : S!Blank[n] = S!Absent
<1>1. Len(Names) \in Nat
  BY DEF Names
<1> QED
  BY <1>1 DEF S!Name, S!Absent, S!Rest, S!Getenv, S!EnvValue, S!Blank

\* A poll, a change of the store or a read keeps what is given from being blanked.
LEMMA VaultStep ==
  ASSUME VaultInv, [S!VaultNext]_vaultVars
  PROVE  VaultInv' /\ [S!NeverBlanked]_vaultVars
<1> USE VaultConstants
<1>1. CASE S!Resolve
  <2>1. at \in 1..Len(Names) /\ at' = at + 1 /\ UNCHANGED <<stored, live>>
    BY <1>1 DEF S!Resolve
  <2>2. PICK n \in S!Name : n = Names[at]
    BY <2>1
  <2>3. next' = [next EXCEPT ![n] = S!Answer(n)]
    BY <1>1, <2>2 DEF S!Resolve
  <2>4. cache' = [cache EXCEPT ![n] = IF @ # S!Absent THEN @ ELSE stored[n]]
    BY <1>1, <2>2 DEF S!Resolve
  <2>5. S!Answer(n) \in Nat /\ (live[n] # S!Absent => S!Answer(n) # S!Absent)
    BY <2>2 DEF VaultInv, S!Answer, Given
  <2>6. next' \in [S!Name -> Nat] /\ cache' \in [S!Name -> Nat]
    BY <2>2, <2>3, <2>4, <2>5 DEF VaultInv
  <2>7. \A m \in S!Name : Given(m) => Given(m)'
    BY <2>2, <2>4 DEF VaultInv, Given, S!Getenv
  <2>8. S!Answer(n) # S!Absent => Given(n)'
    <3>1. cache'[n] = IF cache[n] # S!Absent THEN cache[n] ELSE stored[n]
      BY <2>2, <2>4 DEF VaultInv
    <3>2. Given(n)' <=> cache'[n] # S!Absent \/ S!Getenv(n) # S!Absent
      BY DEF Given, S!Getenv, S!EnvValue, S!Absent
    <3> QED
      BY <3>1, <3>2 DEF S!Answer
  <2>9. \A m \in S!Name : next'[m] = IF m = n THEN S!Answer(n) ELSE next[m]
    BY <2>2, <2>3 DEF VaultInv
  <2>10. \A m \in S!Name : live'[m] # S!Absent \/ next'[m] # S!Absent => Given(m)'
    <3> SUFFICES ASSUME NEW m \in S!Name, live'[m] # S!Absent \/ next'[m] # S!Absent
                 PROVE  Given(m)'
      OBVIOUS
    <3>1. live[m] # S!Absent \/ next[m] # S!Absent => Given(m)'
      BY <2>7 DEF VaultInv
    <3>2. next'[m] # S!Absent => next[m] # S!Absent \/ (m = n /\ S!Answer(n) # S!Absent)
      BY <2>9
    <3> QED
      BY <3>1, <3>2, <2>1, <2>8
  <2>11. \A i \in 1..Len(Names) : i < at' /\ live'[Names[i]] # S!Absent => next'[Names[i]] # S!Absent
    <3> SUFFICES ASSUME NEW i \in 1..Len(Names), i < at', live'[Names[i]] # S!Absent
                 PROVE  next'[Names[i]] # S!Absent
      OBVIOUS
    <3>1. Names[i] \in S!Name /\ live[Names[i]] # S!Absent /\ (i < at \/ i = at)
      BY <2>1
    <3>2. CASE i < at
      <4>1. next[Names[i]] # S!Absent
        BY <3>1, <3>2 DEF VaultInv
      <4> QED
        BY <4>1, <3>1, <2>5, <2>9
    <3>3. CASE i = at
      BY <3>1, <3>3, <2>2, <2>5, <2>9
    <3> QED
      BY <3>1, <3>2, <3>3
  <2>12. VaultInv'
    BY <2>1, <2>6, <2>10, <2>11 DEF VaultInv
  <2> QED
    BY <2>1, <2>12 DEF S!NeverBlanked
<1>2. CASE S!Swap
  <2>1. at = Len(Names) + 1 /\ at' = 0 /\ live' = next /\ next' = S!Blank /\ UNCHANGED <<stored, cache>>
    BY <1>2 DEF S!Swap
  <2>2. \A n \in S!Name : live[n] # S!Absent => next[n] # S!Absent
    BY <2>1 DEF VaultInv
  <2>3. VaultInv'
    BY <2>1 DEF VaultInv, Given
  <2> QED
    BY <2>1, <2>2, <2>3 DEF S!NeverBlanked
<1>3. CASE S!Fail
  <2>1. at' = 0 /\ next' = S!Blank /\ UNCHANGED <<stored, cache, live>>
    BY <1>3 DEF S!Fail
  <2> QED
    BY <2>1 DEF VaultInv, Given, S!NeverBlanked
<1>4. CASE S!RefreshSecrets \/ S!CloseStore
  <2>1. (at' = 1 \/ at' = at) /\ UNCHANGED <<stored, cache, live, next>>
    BY <1>4 DEF S!RefreshSecrets, S!CloseStore
  <2> QED
    BY <2>1 DEF VaultInv, Given, S!NeverBlanked
<1>5. CASE S!VaultChanges
  <2>1. UNCHANGED <<cache, at, next, live>>
    BY <1>5 DEF S!VaultChanges
  <2>2. stored' \in [S!Name -> Nat]
    BY <1>5 DEF S!VaultChanges, VaultInv
  <2> QED
    BY <2>1, <2>2 DEF VaultInv, Given, S!NeverBlanked
<1>6. CASE UNCHANGED vaultVars
  BY <1>6 DEF vaultVars, VaultInv, Given
<1> QED
  BY <1>1, <1>2, <1>3, <1>4, <1>5, <1>6 DEF S!VaultNext, S!Refreshing

\* A failed poll never blanks a credential in use: once a name has a value it has one
\* for good, whatever is deleted or fails in the middle of a pass (SecretStore's
\* resolveAndSwap), for any environment and any changes to the vault.
THEOREM SecretsNeverBlanked == AdmissionSpec => NeverBlanked
<1>1. AdmissionInit => VaultInv
  BY VaultConstants DEF AdmissionInit, S!VaultInit, VaultInv
<1>2. VaultInv /\ [AdmissionNext]_allVars => VaultInv' /\ [S!NeverBlanked]_vaultVars
  <2> SUFFICES ASSUME VaultInv, [AdmissionNext]_allVars
               PROVE  VaultInv' /\ [S!NeverBlanked]_vaultVars
    OBVIOUS
  <2>1. [S!VaultNext]_vaultVars
    BY DEF AdmissionNext, allVars, vaultVars
  <2> QED
    BY <2>1, VaultStep
<1> QED
  BY <1>1, <1>2, PTL DEF AdmissionSpec, NeverBlanked

-----------------------------------------------------------------------------
\* The API-key gate.  A request at the gate has the policy in force on its record, and
\* one that has read the credentials has the policy of what it read.
Policies == {A!Policy(ks) : ks \in KeyFiles}
VisitType == [at : {"idle", "gate", "match", "exempt", "locked", "denied", "served"},
              from : Visitors \cup {CHOOSE v \in Visitors : TRUE},
              token : Keys \cup {NoToken}, set : KeyFiles \cup {{}}, checked : BOOLEAN]

GateInv ==
  /\ visit \in [Calls -> VisitType] /\ accepted \in [Calls -> SUBSET Policies] /\ creds \in KeyFiles /\ limiting \in BOOLEAN
  /\ \A r \in Calls : /\ visit[r].at = "gate" => A!Policy(creds) \in accepted[r]
                      /\ visit[r].at = "match" => A!Policy(visit[r].set) \in accepted[r]

\* What CredentialsHeeded asks of one step.
Heeded ==
  \A r \in Calls : visit[r].at = "match" /\ visit'[r].at # "match" =>
    \E p \in accepted[r] : (visit[r].token \in p) <=> (visit'[r].at = "served")

\* A step that moves one request, and no credential, keeps the gate's invariant when
\* the request ends, or is newly at the gate, or has read the credentials.
LEMMA GateMoves ==
  ASSUME GateInv, UNCHANGED <<creds, limiting>>, NEW r \in Calls, NEW v \in VisitType, NEW p \in SUBSET Policies,
         visit' = [visit EXCEPT ![r] = v], accepted' = [accepted EXCEPT ![r] = p],
         v.at = "gate" => A!Policy(creds) \in p,
         v.at = "match" => A!Policy(v.set) \in p,
         visit[r].at = "match" =>
           \E q \in accepted[r] : (visit[r].token \in q) <=> (v.at = "served")
  PROVE  GateInv' /\ Heeded
<1>1. \A x \in Calls : /\ visit'[x] = IF x = r THEN v ELSE visit[x]
                       /\ accepted'[x] = IF x = r THEN p ELSE accepted[x]
  BY DEF GateInv
<1>2. visit' \in [Calls -> VisitType] /\ accepted' \in [Calls -> SUBSET Policies]
  BY DEF GateInv
<1>3. A!Policy(creds)' = A!Policy(creds)
  BY DEF A!Policy
<1>4. \A x \in Calls : /\ visit'[x].at = "gate" => A!Policy(creds) \in accepted'[x]
                       /\ visit'[x].at = "match" => A!Policy(visit'[x].set) \in accepted'[x]
  BY <1>1 DEF GateInv
<1>5. GateInv'
  BY <1>2, <1>3, <1>4 DEF GateInv, A!Policy
<1>6. Heeded
  BY <1>1 DEF Heeded
<1> QED
  BY <1>5, <1>6

\* A visit that has ended is a visit.
LEMMA EndedVisit ==
  ASSUME NEW at0 \in {"idle", "locked", "denied", "served"}
  PROVE  A!Ended(at0) \in VisitType /\ A!Ended(at0).at = at0
BY DEF A!Ended, VisitType

\* Every step of the gate keeps its invariant, and lets in only whom it should.
LEMMA GateStep ==
  ASSUME GateInv, [A!AuthNext]_authVars
  PROVE  GateInv' /\ [Heeded]_authVars
<1>1. ASSUME NEW r \in Calls, NEW v \in Visitors, NEW k \in Keys \cup {NoToken}, A!Arrive(r, v, k)
      PROVE  GateInv' /\ Heeded
  <2> DEFINE new == [at |-> "gate", from |-> v, token |-> k, set |-> {}, checked |-> limiting]
             out == [A!Ended("locked") EXCEPT !.from = v]
  <2>1. /\ visit[r].at \notin {"gate", "match", "exempt"} /\ UNCHANGED <<creds, limiting>>
        /\ \/ visit' = [visit EXCEPT ![r] = out] /\ accepted' = accepted
           \/ visit' = [visit EXCEPT ![r] = new] /\ accepted' = [accepted EXCEPT ![r] = {A!Policy(creds)}]
    BY <1>1 DEF A!Arrive
  <2>2. new \in VisitType /\ new.at = "gate"
    BY DEF VisitType, GateInv
  <2>3. out \in VisitType /\ out.at = "locked"
    BY DEF VisitType, A!Ended
  <2>4. {A!Policy(creds)} \in SUBSET Policies /\ accepted[r] \in SUBSET Policies
    BY DEF GateInv, Policies
  <2>5. accepted = [accepted EXCEPT ![r] = accepted[r]]
    BY DEF GateInv
  <2> HIDE DEF new, out
  <2>6. CASE visit' = [visit EXCEPT ![r] = out] /\ accepted' = accepted
    BY <2>1, <2>3, <2>4, <2>5, <2>6, GateMoves
  <2>7. CASE visit' = [visit EXCEPT ![r] = new] /\ accepted' = [accepted EXCEPT ![r] = {A!Policy(creds)}]
    BY <2>1, <2>2, <2>4, <2>7, GateMoves
  <2> QED
    BY <2>1, <2>6, <2>7
<1>2. ASSUME NEW r \in Calls, A!Exempt(r) \/ A!Snapshot(r)
      PROVE  GateInv' /\ Heeded
  <2> DEFINE w == IF visit[r].token = NoToken THEN [visit[r] EXCEPT !.at = "exempt"]
                  ELSE [visit[r] EXCEPT !.at = "match", !.set = creds]
  <2>1. visit[r].at = "gate" /\ UNCHANGED <<creds, limiting, accepted>> /\ visit' = [visit EXCEPT ![r] = w]
    BY <1>2 DEF A!Exempt, A!Snapshot, GateInv
  <2>2. visit[r] \in VisitType /\ creds \in KeyFiles
    BY DEF GateInv
  <2>3. w \in VisitType
    BY <2>2 DEF VisitType
  <2>4. w.at # "gate" /\ w.at # "served" /\ (w.at = "match" => w.set = creds)
    BY <2>2 DEF VisitType
  <2>5. accepted = [accepted EXCEPT ![r] = accepted[r]] /\ accepted[r] \in SUBSET Policies
    BY DEF GateInv
  <2>6. A!Policy(creds) \in accepted[r]
    BY <2>1 DEF GateInv
  <2> HIDE DEF w
  <2> QED
    BY <2>1, <2>3, <2>4, <2>5, <2>6, GateMoves
<1>3. ASSUME NEW r \in Calls, A!ExemptEnds(r) \/ A!Missing(r) \/ A!Match(r)
      PROVE  GateInv' /\ Heeded
  <2>1. PICK e \in {"idle", "denied", "served"} :
           /\ visit' = [visit EXCEPT ![r] = A!Ended(e)] /\ accepted' = [accepted EXCEPT ![r] = {}]
           /\ UNCHANGED <<creds, limiting>>
           /\ visit[r].at = "match" => (e = "served" <=> visit[r].token \in A!Policy(visit[r].set))
    BY <1>3 DEF A!ExemptEnds, A!Missing, A!Match
  <2>2. visit[r].at = "match" => A!Policy(visit[r].set) \in accepted[r]
    BY DEF GateInv
  <2>3. A!Ended(e) \in VisitType /\ A!Ended(e).at = e
    BY EndedVisit
  <2> QED
    BY <2>1, <2>2, <2>3, GateMoves
<1>4. ASSUME NEW on \in BOOLEAN, NEW n, NEW w, NEW f \in KeyFiles \cup {A!Unreadable}, A!Reload(on, n, w, f)
      PROVE  GateInv' /\ Heeded
  <2>1. /\ creds' = (IF f = A!Unreadable THEN creds ELSE f) /\ visit' = visit /\ limiting' \in BOOLEAN
        /\ accepted' = [r \in Calls |-> IF f = A!Unreadable \/ accepted[r] = {} THEN accepted[r]
                                        ELSE accepted[r] \cup {A!Policy(f)}]
    BY <1>4 DEF A!Reload, A!SetCredentials
  <2>2. CASE f = A!Unreadable
    <3>1. accepted' = accepted /\ creds' = creds
      BY <2>1, <2>2 DEF GateInv
    <3> QED
      BY <3>1, <2>1 DEF GateInv, Heeded, A!Policy
  <2>3. CASE f # A!Unreadable
    <3>1. f \in KeyFiles /\ A!Policy(f) \in Policies /\ creds' = f
      BY <2>1, <2>3 DEF Policies
    <3>2. accepted' \in [Calls -> SUBSET Policies]
      BY <3>1, <2>1 DEF GateInv
    <3>3. A!Policy(creds)' = A!Policy(f)
      BY <3>1 DEF A!Policy
    <3>4. \A r \in Calls : /\ accepted[r] \subseteq accepted'[r]
                           /\ accepted[r] # {} => A!Policy(f) \in accepted'[r]
      BY <2>1, <2>3
    <3>5. \A r \in Calls : /\ visit[r].at = "gate" => A!Policy(f) \in accepted'[r]
                           /\ visit[r].at = "match" => A!Policy(visit[r].set) \in accepted'[r]
      BY <3>4 DEF GateInv
    <3>6. GateInv'
      BY <3>1, <3>2, <3>3, <3>5, <2>1 DEF GateInv, A!Policy
    <3> QED
      BY <3>6, <2>1 DEF Heeded
  <2> QED
    BY <2>2, <2>3
<1>5. CASE A!Reap \/ A!AuthTick \/ UNCHANGED authVars
  <2>1. UNCHANGED <<creds, limiting, visit, accepted>>
    BY <1>5 DEF A!Reap, A!AuthTick, authVars
  <2> QED
    BY <2>1 DEF GateInv, Heeded, A!Policy
<1> QED
  BY <1>1, <1>2, <1>3, <1>4, <1>5 DEF A!AuthNext

\* The gate starts with nobody in it.
LEMMA GateStarts ==
  ASSUME AdmissionInit
  PROVE  GateInv
<1>1. A!Ended("idle") \in VisitType /\ A!Ended("idle").at = "idle"
  BY EndedVisit
<1>2. /\ visit = [r \in Calls |-> A!Ended("idle")] /\ accepted = [r \in Calls |-> {}]
      /\ creds \in KeyFiles /\ limiting \in BOOLEAN
  BY DEF AdmissionInit, A!AuthInit
<1> QED
  BY <1>1, <1>2 DEF GateInv

\* A request that shows a key is answered by a policy that was in force while it was in
\* the gate (auth.Middleware.Wrap and SetCredentials), for any keys, clients and reloads.
THEOREM GateHeedsCredentials == AdmissionSpec => A!CredentialsHeeded
<1>1. AdmissionInit => GateInv
  BY GateStarts
<1>2. GateInv /\ [AdmissionNext]_allVars => GateInv' /\ [Heeded]_authVars
  <2> SUFFICES ASSUME GateInv, [AdmissionNext]_allVars
               PROVE  GateInv' /\ [Heeded]_authVars
    OBVIOUS
  <2>1. [A!AuthNext]_authVars
    BY DEF AdmissionNext, allVars, authVars
  <2> QED
    BY <2>1, GateStep
<1>3. AdmissionSpec => [][Heeded]_authVars
  BY <1>1, <1>2, PTL DEF AdmissionSpec
<1> QED
  BY <1>3 DEF A!CredentialsHeeded, Heeded, authVars, A!authVars

-----------------------------------------------------------------------------
\* The lockout.  An entry of the limiter holds the end of its client's failures, oldest
\* first, and what is missing from it is outside some window there may be.
FailureType == [at : Nat, checked : BOOLEAN]
EntryType == [ts : [A!Reasons -> Seq(Nat)], lastSeen : Nat]

Ends(ts, fs, h) ==
  /\ Len(ts) <= Len(fs)
  /\ \A i \in 1..Len(ts) : ts[i] = fs[Len(fs) - Len(ts) + i].at /\ ts[i] <= h
  /\ \A i, j \in 1..Len(ts) : i <= j => ts[i] <= ts[j]
  /\ \A i \in 1 .. Len(fs) - Len(ts) : \E w \in WindowValues : fs[i].at + w < h

\* The requests of a client that are past the check and may still fail.
Pending(v) == {r \in Calls : visit[r].at \in {"gate", "match"} /\ visit[r].checked /\ visit[r].from = v}

LockTypes ==
  /\ hour \in Nat /\ fails \in BurstValues /\ window \in WindowValues
  /\ failures \in [Visitors -> EntryType] /\ bar \in [Visitors -> Nat]
  /\ attempts \in [Visitors -> [A!Reasons -> Seq(FailureType)]]
  /\ \A r \in Calls : visit[r].at \in {"gate", "match"} => visit[r].from \in Visitors

EntriesEnd == \A v \in Visitors, x \in A!Reasons : Ends(failures[v].ts[x], attempts[v][x], hour)

\* Its failures that count, with those its pending requests may add, stay below what
\* it was last checked against and all the requests there can be.
FailuresBounded ==
  \A v \in Visitors, x \in A!Reasons :
    Cardinality(A!Checked(v, x)) + Cardinality(Pending(v)) < bar[v] + Cardinality(Calls)

LockInv == GateInv /\ LockTypes /\ EntriesEnd /\ FailuresBounded

\* Before counts the times before the window.
LEMMA BeforeMeans ==
  ASSUME NEW ts \in Seq(Nat), window \in Nat, hour \in Nat
  PROVE  /\ A!Before(ts) \in 0..Len(ts)
         /\ \A i \in 1..A!Before(ts) : ts[i] + window < hour
         /\ A!Before(ts) < Len(ts) => ts[A!Before(ts) + 1] + window >= hour
<1> DEFINE X == {i \in 1..Len(ts) : ts[i] + window >= hour}
           P(k) == (\A i \in 1..k : ts[i] + window < hour) /\ (k < Len(ts) => ts[k + 1] + window >= hour)
<1>1. \E k \in 0..Len(ts) : P(k)
  <2>1. CASE X = {}
    <3>1. \A i \in 1..Len(ts) : ts[i] \in Nat /\ ~(ts[i] + window >= hour)
      BY <2>1
    <3>2. P(Len(ts))
      BY <3>1
    <3> QED
      BY <3>2
  <2>2. CASE X # {}
    <3>1. PICK m \in X : \A y \in X : m <= y
      <4>1. X \in SUBSET Nat
        OBVIOUS
      <4> HIDE DEF X
      <4> QED
        BY <2>2, <4>1, LeastExists
    <3>2. m - 1 \in 0..Len(ts) /\ m \in 1..Len(ts) /\ ts[m] + window >= hour
      OBVIOUS
    <3>3. \A i \in 1 .. m - 1 : ts[i] \in Nat /\ ~(ts[i] + window >= hour)
      BY <3>1, <3>2
    <3>4. P(m - 1)
      BY <3>2, <3>3
    <3> QED
      BY <3>2, <3>4
  <2> QED
    BY <2>1, <2>2
<1>2. A!Before(ts) = CHOOSE k \in 0..Len(ts) : P(k)
  BY DEF A!Before
<1> DEFINE k == A!Before(ts)
<1>3. k \in 0..Len(ts) /\ P(k)
  <2> HIDE DEF P
  <2> QED
    BY <1>1, <1>2
<1> QED
  BY <1>3

\* p is what is left of the times ts without the first k, those before the window.
Cut(p, ts, k) ==
  /\ k \in 0..Len(ts) /\ p \in Seq(Nat) /\ Len(p) = Len(ts) - k
  /\ \A i \in 1..Len(p) : p[i] = ts[k + i]
  /\ \A i \in 1..k : ts[i] + window < hour
  /\ k < Len(ts) => ts[k + 1] + window >= hour

\* What is later than a time in the window is in the window.
LEMMA LaterInWindow ==
  ASSUME NEW a \in Nat, NEW b \in Nat, NEW w \in Nat, NEW h \in Nat, a <= b, a + w >= h
  PROVE  b + w >= h
OBVIOUS

\* A log's end stays one, and is in the window, when a part before the window is cut.
LEMMA CutEnds ==
  ASSUME NEW ts \in Seq(Nat), NEW fs \in Seq(FailureType), Ends(ts, fs, hour),
         hour \in Nat, window \in WindowValues, window \in Nat,
         NEW p, NEW k, Cut(p, ts, k)
  PROVE  Ends(p, fs, hour) /\ \A i \in 1..Len(p) : p[i] + window >= hour
<1> DEFINE n == Len(ts)
           m == Len(fs)
           l == Len(p)
<1>2. n \in Nat /\ m \in Nat /\ k \in Nat /\ k <= n /\ n <= m /\ l \in Nat /\ l = n - k
  <2>1. n \in Nat /\ m \in Nat
    OBVIOUS
  <2>2. n <= m
    BY DEF Ends
  <2>3. k \in 0..n /\ l = n - k
    BY DEF Cut
  <2> HIDE DEF n, m, l
  <2> QED
    BY <2>1, <2>2, <2>3
<1>3. /\ \A i \in 1..n : ts[i] = fs[m - n + i].at /\ ts[i] <= hour /\ ts[i] \in Nat
      /\ \A i, j \in 1..n : i <= j => ts[i] <= ts[j]
      /\ \A i \in 1 .. m - n : \E w \in WindowValues : fs[i].at + w < hour
  BY DEF Ends
<1>4. \A i \in 1..l : p[i] = ts[k + i]
  BY DEF Cut
<1> HIDE DEF n, m, l
<1>5. \A i \in 1..l : k + i \in 1..n /\ m - n + (k + i) = m - l + i
  BY <1>2
<1>6. \A i \in 1..l : p[i] = fs[m - l + i].at /\ p[i] <= hour
  BY <1>3, <1>4, <1>5
<1>7. \A i, j \in 1..l : i <= j => p[i] <= p[j]
  <2> SUFFICES ASSUME NEW i \in 1..l, NEW j \in 1..l, i <= j
               PROVE  p[i] <= p[j]
    OBVIOUS
  <2>1. k + i \in 1..n /\ k + j \in 1..n /\ k + i <= k + j
    BY <1>2, <1>5
  <2> QED
    BY <1>3, <1>4, <2>1
<1>8. \A i \in 1..l : p[i] + window >= hour
  <2> SUFFICES ASSUME NEW i \in 1..l
               PROVE  p[i] + window >= hour
    OBVIOUS
  <2>1. k + 1 \in 1..n /\ k + i \in 1..n /\ k + 1 <= k + i /\ k < n
    BY <1>2
  <2>2. ts[k + 1] <= ts[k + i] /\ ts[k + 1] \in Nat /\ ts[k + i] \in Nat
    BY <1>3, <2>1
  <2>3. ts[k + 1] + window >= hour
    BY <2>1 DEF n, Cut
  <2> QED
    BY <1>4, <2>2, <2>3, LaterInWindow
<1>9. \A i \in 1 .. m - l : \E w \in WindowValues : fs[i].at + w < hour
  <2> SUFFICES ASSUME NEW i \in 1 .. m - l
               PROVE  \E w \in WindowValues : fs[i].at + w < hour
    OBVIOUS
  <2>1. CASE i <= m - n
    <3>1. i \in 1 .. m - n
      BY <1>2, <2>1
    <3> QED
      BY <1>3, <3>1
  <2>2. CASE i > m - n
    <3>1. i - (m - n) \in 1..k /\ i - (m - n) \in 1..n /\ m - n + (i - (m - n)) = i
      BY <1>2, <2>2
    <3>2. ts[i - (m - n)] = fs[i].at /\ ts[i - (m - n)] + window < hour
      BY <1>3, <3>1 DEF Cut
    <3> QED
      BY <3>2
  <2> QED
    BY <1>2, <2>1, <2>2
<1>10. l <= m
  BY <1>2
<1> QED
  BY <1>6, <1>7, <1>8, <1>9, <1>10 DEF Ends, m, l

\* What is left of a sequence without its first k.
LEMMA TailOf ==
  ASSUME NEW s \in Seq(Nat), NEW n \in Nat, Len(s) = n, NEW k \in Nat, k <= n, NEW q, q = SubSeq(s, k + 1, n)
  PROVE  q \in Seq(Nat) /\ Len(q) = n - k /\ \A i \in 1 .. n - k : q[i] = s[k + i]
<1>1. \A i \in (k + 1)..n : s[i] \in Nat
  OBVIOUS
<1>2. \A i \in 1 .. n - k : (k + 1) + i - 1 = k + i
  OBVIOUS
<1>3. Len(q) = n - k /\ \A i \in 1 .. n - k : q[i] = s[k + i]
  BY <1>2, SMTT(30)
<1>4. q \in Seq(Nat)
  BY <1>1, SMTT(30)
<1> QED
  BY <1>3, <1>4

\* What pruneLocked leaves is the end of the failures still, and is in the window.
InWindow(ts) == SubSeq(ts, A!Before(ts) + 1, Len(ts))

LEMMA PrunedEnds ==
  ASSUME NEW ts \in Seq(Nat), NEW fs \in Seq(FailureType), Ends(ts, fs, hour),
         hour \in Nat, window \in WindowValues
  PROVE  /\ InWindow(ts) \in Seq(Nat) /\ Ends(InWindow(ts), fs, hour)
         /\ \A i \in 1..Len(InWindow(ts)) : InWindow(ts)[i] + window >= hour
<1> DEFINE k == A!Before(ts)
           n == Len(ts)
           p == InWindow(ts)
<1>1. window \in Nat
  BY GateAssumption
<1>2. /\ k \in 0..n
      /\ \A i \in 1..k : ts[i] + window < hour
      /\ k < n => ts[k + 1] + window >= hour
  BY <1>1, BeforeMeans
<1>3. p = SubSeq(ts, k + 1, n) /\ n \in Nat /\ n = Len(ts)
  BY DEF InWindow
<1> HIDE DEF k, n, p
<1>4. k \in Nat /\ k <= n
  BY <1>2, <1>3
<1>5. p \in Seq(Nat) /\ Len(p) = n - k /\ \A i \in 1 .. n - k : p[i] = ts[k + i]
  BY <1>3, <1>4, TailOf
<1>6. Cut(p, ts, k)
  BY <1>2, <1>3, <1>5 DEF Cut
<1> QED
  BY <1>1, <1>5, <1>6, CutEnds DEF p

\* The end of a log of n has as many places as it has elements.
LEMMA EndCounts ==
  ASSUME NEW m \in Nat, NEW n \in Nat, n <= m
  PROVE  /\ IsFiniteSet((m - n + 1)..m) /\ Cardinality((m - n + 1)..m) = n
         /\ IsFiniteSet(1..m)
<1>1. m - n + 1 \in Int /\ m \in Int /\ m - (m - n + 1) + 1 = n
  OBVIOUS
<1>2. (m - n + 1 > m) => n = 0
  OBVIOUS
<1> QED
  BY <1>1, <1>2, FS_Interval

\* All the failures that count are in an entry, and the recent part of one is recent.
LEMMA EntryCounts ==
  ASSUME NEW v \in Visitors, NEW x \in A!Reasons, NEW ts \in Seq(Nat), attempts[v][x] \in Seq(FailureType),
         Ends(ts, attempts[v][x], hour), hour \in Nat
  PROVE  /\ Cardinality(A!Checked(v, x)) <= Len(ts) /\ Cardinality(A!Checked(v, x)) \in Nat
         /\ (\A i \in 1..Len(ts) : ts[i] + window >= hour) => Cardinality(A!Recent(v, x)) >= Len(ts)
<1> DEFINE fs == attempts[v][x]
           m == Len(fs)
           n == Len(ts)
           E == (m - n + 1)..m
<1>1. m \in Nat /\ n \in Nat /\ n <= m /\ DOMAIN fs = 1..m
  BY DEF Ends
<1>10. /\ fs = attempts[v][x] /\ \A i \in 1..m : fs[i] \in FailureType
       /\ \A i \in 1..n : ts[i] = fs[m - n + i].at
       /\ \A i \in 1 .. m - n : \E w \in WindowValues : fs[i].at + w < hour
  BY DEF Ends
<1> HIDE DEF fs, m, n
<1>2. IsFiniteSet(E) /\ Cardinality(E) = n /\ IsFiniteSet(1..m)
  BY <1>1, EndCounts
<1>3. A!Checked(v, x) \subseteq E
  <2> SUFFICES ASSUME NEW i \in 1..m, \A w \in WindowValues : fs[i].at + w >= hour, i \notin E
               PROVE  FALSE
    BY <1>1, <1>10 DEF A!Checked
  <2>1. i \in 1 .. m - n
    BY <1>1
  <2>2. PICK w \in WindowValues : fs[i].at + w < hour
    BY <1>10, <2>1
  <2>3. fs[i].at \in Nat /\ w \in Nat
    BY <1>10, GateAssumption DEF FailureType
  <2> QED
    BY <2>2, <2>3
<1>4. ASSUME \A i \in 1..n : ts[i] + window >= hour
      PROVE  E \subseteq A!Recent(v, x) /\ A!Recent(v, x) \subseteq 1..m
  <2>1. A!Recent(v, x) \subseteq 1..m
    BY <1>1, <1>10 DEF A!Recent
  <2> SUFFICES ASSUME NEW i \in E
               PROVE  i \in 1..m /\ fs[i].at + window >= hour
    BY <1>1, <1>10, <2>1 DEF A!Recent
  <2>2. i \in 1..m /\ i - (m - n) \in 1..n /\ m - n + (i - (m - n)) = i
    BY <1>1
  <2> QED
    BY <1>4, <1>10, <2>2
<1> HIDE DEF E
<1>5. /\ Cardinality(A!Checked(v, x)) <= n /\ Cardinality(A!Checked(v, x)) \in Nat
  BY <1>2, <1>3, FS_Subset, FS_CardinalityType
<1>6. ASSUME \A i \in 1..n : ts[i] + window >= hour
      PROVE  Cardinality(A!Recent(v, x)) >= n
  <2>1. IsFiniteSet(A!Recent(v, x))
    BY <1>2, <1>4, <1>6, FS_Subset
  <2>2. Cardinality(E) <= Cardinality(A!Recent(v, x))
    BY <1>4, <1>6, <2>1, FS_Subset
  <2>3. Cardinality(A!Recent(v, x)) \in Nat
    BY <2>1, FS_CardinalityType
  <2> QED
    BY <1>1, <1>2, <2>2, <2>3
<1> QED
  BY <1>5, <1>6 DEF n

\* Pruning keeps an entry an entry, all of it in the window.
LEMMA PrunedEntry ==
  ASSUME NEW v \in Visitors, LockTypes, EntriesEnd
  PROVE  LET f == A!pruneLocked(failures[v])
         IN  /\ f \in EntryType /\ f.lastSeen = failures[v].lastSeen
             /\ \A x \in A!Reasons : /\ Ends(f.ts[x], attempts[v][x], hour)
                                    /\ \A i \in 1..Len(f.ts[x]) : f.ts[x][i] + window >= hour
<1> DEFINE e == failures[v]
           f == A!pruneLocked(e)
<1>1. e \in EntryType
  BY DEF LockTypes
<1>2. f = [e EXCEPT !.ts = [x \in A!Reasons |-> InWindow(e.ts[x])]]
  BY DEF A!pruneLocked, InWindow
<1>3. \A x \in A!Reasons :
        /\ e.ts[x] \in Seq(Nat) /\ attempts[v][x] \in Seq(FailureType)
        /\ Ends(e.ts[x], attempts[v][x], hour)
  BY <1>1 DEF LockTypes, EntriesEnd, EntryType
<1>4. hour \in Nat /\ window \in WindowValues
  BY DEF LockTypes
<1> HIDE DEF e, f
<1>5. \A x \in A!Reasons :
        /\ InWindow(e.ts[x]) \in Seq(Nat) /\ Ends(InWindow(e.ts[x]), attempts[v][x], hour)
        /\ \A i \in 1..Len(InWindow(e.ts[x])) : InWindow(e.ts[x])[i] + window >= hour
  BY <1>3, <1>4, PrunedEnds
<1>6. /\ f \in EntryType /\ f.lastSeen = e.lastSeen
      /\ \A x \in A!Reasons : f.ts[x] = InWindow(e.ts[x])
  BY <1>1, <1>2, <1>5 DEF EntryType
<1> QED
  BY <1>5, <1>6 DEF e, f

\* A log's end with one more failure is the end of the log with it.
LEMMA AppendEnds ==
  ASSUME NEW ts \in Seq(Nat), NEW fs \in Seq(FailureType), NEW h \in Nat, Ends(ts, fs, h),
         NEW c \in BOOLEAN
  PROVE  /\ Append(ts, h) \in Seq(Nat) /\ Append(fs, [at |-> h, checked |-> c]) \in Seq(FailureType)
         /\ Ends(Append(ts, h), Append(fs, [at |-> h, checked |-> c]), h)
<1> DEFINE n == Len(ts)
           m == Len(fs)
           e == [at |-> h, checked |-> c]
           us == Append(ts, h)
           gs == Append(fs, e)
<1>1. n \in Nat /\ m \in Nat /\ n <= m
  BY DEF Ends
<1>2. e \in FailureType /\ e.at = h
  BY DEF FailureType
<1>3. /\ \A i \in 1..n : ts[i] = fs[m - n + i].at /\ ts[i] <= h
      /\ \A i, j \in 1..n : i <= j => ts[i] <= ts[j]
      /\ \A i \in 1 .. m - n : \E w \in WindowValues : fs[i].at + w < h
  BY DEF Ends
<1>4. us \in Seq(Nat) /\ Len(us) = n + 1 /\ us[n + 1] = h /\ \A i \in 1..n : us[i] = ts[i]
  OBVIOUS
<1> HIDE DEF e
<1>5. gs \in Seq(FailureType) /\ Len(gs) = m + 1 /\ gs[m + 1] = e /\ \A i \in 1..m : gs[i] = fs[i]
  BY <1>2
<1> HIDE DEF n, m, us, gs
<1>6. \A i \in 1 .. n + 1 : us[i] = gs[(m + 1) - (n + 1) + i].at /\ us[i] <= h
  <2> SUFFICES ASSUME NEW i \in 1 .. n + 1
               PROVE  us[i] = gs[(m + 1) - (n + 1) + i].at /\ us[i] <= h
    OBVIOUS
  <2>1. CASE i = n + 1
    <3>1. (m + 1) - (n + 1) + i = m + 1
      BY <1>1, <2>1
    <3> QED
      BY <1>2, <1>4, <1>5, <2>1, <3>1
  <2>2. CASE i # n + 1
    <3>1. i \in 1..n /\ (m + 1) - (n + 1) + i = m - n + i /\ m - n + i \in 1..m
      BY <1>1, <2>2
    <3> QED
      BY <1>3, <1>4, <1>5, <3>1
  <2> QED
    BY <2>1, <2>2
<1>7. \A i, j \in 1 .. n + 1 : i <= j => us[i] <= us[j]
  <2> SUFFICES ASSUME NEW i \in 1 .. n + 1, NEW j \in 1 .. n + 1, i <= j
               PROVE  us[i] <= us[j]
    OBVIOUS
  <2>1. CASE j = n + 1
    BY <1>4, <1>6, <2>1
  <2>2. CASE j # n + 1
    <3>1. i \in 1..n /\ j \in 1..n
      BY <1>1, <2>2
    <3> QED
      BY <1>3, <1>4, <3>1
  <2> QED
    BY <2>1, <2>2
<1>8. \A i \in 1 .. (m + 1) - (n + 1) : \E w \in WindowValues : gs[i].at + w < h
  <2> SUFFICES ASSUME NEW i \in 1 .. (m + 1) - (n + 1)
               PROVE  \E w \in WindowValues : gs[i].at + w < h
    OBVIOUS
  <2>1. i \in 1 .. m - n /\ i \in 1..m
    BY <1>1
  <2> QED
    BY <1>3, <1>5, <2>1
<1>9. n + 1 <= m + 1
  BY <1>1
<1> QED
  BY <1>4, <1>5, <1>6, <1>7, <1>8, <1>9 DEF Ends, us, gs, e

\* Time only adds to what is before a window.
LEMMA EndsLater ==
  ASSUME NEW ts \in Seq(Nat), NEW fs \in Seq(FailureType), NEW h \in Nat, Ends(ts, fs, h)
  PROVE  Ends(ts, fs, h + 1)
<1> DEFINE n == Len(ts)
           m == Len(fs)
<1>1. n \in Nat /\ m \in Nat /\ n <= m
  BY DEF Ends
<1>2. /\ \A i \in 1..n : ts[i] = fs[m - n + i].at /\ ts[i] <= h /\ ts[i] \in Nat
      /\ \A i, j \in 1..n : i <= j => ts[i] <= ts[j]
      /\ \A i \in 1 .. m - n : \E w \in WindowValues : fs[i].at + w < h
      /\ \A i \in 1..m : fs[i].at \in Nat
  <2>1. \A i \in 1..m : fs[i] \in FailureType
    OBVIOUS
  <2>2. \A i \in 1..m : fs[i].at \in Nat
    BY <2>1 DEF FailureType
  <2> QED
    BY <2>2 DEF Ends
<1> HIDE DEF n, m
<1>3. \A i \in 1..n : ts[i] <= h + 1
  BY <1>2
<1>4. \A i \in 1 .. m - n : \E w \in WindowValues : fs[i].at + w < h + 1
  <2> SUFFICES ASSUME NEW i \in 1 .. m - n
               PROVE  \E w \in WindowValues : fs[i].at + w < h + 1
    OBVIOUS
  <2>1. PICK w \in WindowValues : fs[i].at + w < h
    BY <1>2
  <2>2. fs[i].at \in Nat /\ w \in Nat
    BY <1>1, <1>2, GateAssumption
  <2> QED
    BY <2>1, <2>2
<1> QED
  BY <1>1, <1>2, <1>3, <1>4 DEF Ends, n, m

\* What is counted is finite.
LEMMA CountsFinite ==
  ASSUME LockTypes, NEW v \in Visitors, NEW x \in A!Reasons
  PROVE  /\ IsFiniteSet(A!Checked(v, x)) /\ Cardinality(A!Checked(v, x)) \in Nat
         /\ A!Checked(v, x) \subseteq 1..Len(attempts[v][x]) /\ Len(attempts[v][x]) \in Nat
<1>1. attempts[v][x] \in Seq(FailureType)
  BY DEF LockTypes
<1>2. Len(attempts[v][x]) \in Nat /\ DOMAIN attempts[v][x] = 1..Len(attempts[v][x])
  BY <1>1
<1>3. A!Checked(v, x) \subseteq 1..Len(attempts[v][x])
  BY <1>2 DEF A!Checked
<1>4. IsFiniteSet(1..Len(attempts[v][x]))
  <2> DEFINE m == Len(attempts[v][x])
  <2>1. m \in Nat
    BY <1>2
  <2> HIDE DEF m
  <2>2. IsFiniteSet(1..m)
    BY <2>1, EndCounts
  <2> QED
    BY <2>2 DEF m
<1> QED
  BY <1>2, <1>3, <1>4, FS_Subset, FS_CardinalityType

\* The requests of a client are finitely many.
LEMMA PendingFinite ==
  ASSUME NEW v
  PROVE  /\ IsFiniteSet(Pending(v)) /\ Cardinality(Pending(v)) \in Nat
         /\ Cardinality(Pending(v)) <= Cardinality(Calls) /\ Cardinality(Calls) \in Nat
<1>1. Pending(v) \subseteq Calls /\ IsFiniteSet(Calls)
  BY GateAssumption DEF Pending
<1> QED
  BY <1>1, FS_Subset, FS_CardinalityType

\* The bound of one client and reason holds on when no failure is added, no request
\* comes past the check and its time does not run back.
LEMMA BoundStays ==
  ASSUME LockTypes, FailuresBounded, NEW v \in Visitors, NEW x \in A!Reasons,
         attempts'[v][x] = attempts[v][x], bar'[v] = bar[v], hour' \in {hour, hour + 1},
         Pending(v)' \subseteq Pending(v)
  PROVE  (Cardinality(A!Checked(v, x)) + Cardinality(Pending(v)) < bar[v] + Cardinality(Calls))'
<1>1. A!Checked(v, x)' \subseteq A!Checked(v, x)
  <2> SUFFICES ASSUME NEW i \in DOMAIN attempts[v][x], attempts[v][x][i].checked,
                      \A w \in WindowValues : attempts[v][x][i].at + w >= hour'
               PROVE  i \in A!Checked(v, x)
    BY DEF A!Checked
  <2>1. attempts[v][x] \in Seq(FailureType) /\ hour \in Nat
    BY DEF LockTypes
  <2>2. attempts[v][x][i] \in FailureType
    BY <2>1
  <2>3. attempts[v][x][i].at \in Nat
    BY <2>2 DEF FailureType
  <2>4. \A w \in WindowValues : attempts[v][x][i].at + w >= hour
    <3> SUFFICES ASSUME NEW w \in WindowValues
                 PROVE  attempts[v][x][i].at + w >= hour
      OBVIOUS
    <3>1. attempts[v][x][i].at + w \in Nat /\ attempts[v][x][i].at + w >= hour'
      BY <2>3, GateAssumption
    <3> QED
      BY <2>1, <3>1
  <2> QED
    BY <2>4 DEF A!Checked
<1>2. /\ Cardinality(A!Checked(v, x)') <= Cardinality(A!Checked(v, x))
      /\ Cardinality(A!Checked(v, x)') \in Nat /\ Cardinality(A!Checked(v, x)) \in Nat
  BY <1>1, CountsFinite, FS_Subset, FS_CardinalityType
<1>3. /\ Cardinality(Pending(v)') <= Cardinality(Pending(v))
      /\ Cardinality(Pending(v)') \in Nat /\ Cardinality(Pending(v)) \in Nat /\ Cardinality(Calls) \in Nat
  BY PendingFinite, FS_Subset, FS_CardinalityType
<1>4. bar[v] \in Nat /\ Cardinality(A!Checked(v, x)) + Cardinality(Pending(v)) < bar[v] + Cardinality(Calls)
  BY DEF LockTypes, FailuresBounded
<1> QED
  BY <1>2, <1>3, <1>4

\* The lockout's books stay in order when requests only leave it.
LEMMA LockMoves ==
  ASSUME LockInv, UNCHANGED <<hour, fails, window, failures, bar, attempts>>,
         \A v \in Visitors : Pending(v)' \subseteq Pending(v),
         \A r \in Calls : visit'[r].at \in {"gate", "match"} => visit'[r].from \in Visitors
  PROVE  LockTypes' /\ EntriesEnd' /\ FailuresBounded'
<1>1. LockTypes'
  BY DEF LockInv, LockTypes
<1>2. EntriesEnd'
  BY DEF LockInv, EntriesEnd, Ends
<1>3. FailuresBounded'
  BY BoundStays DEF LockInv, FailuresBounded
<1> QED
  BY <1>1, <1>2, <1>3

\* What a step asks of who is locked out.
LockedRightly ==
  \A r \in Calls : (visit'[r].at = "locked" /\ calls' # calls /\ visit'[r] # visit[r]) =>
    \E x \in A!Reasons : Cardinality(A!Recent(visit'[r].from, x)) >= fails

\* A request that comes leaves its client's entry without what is before the window. It
\* goes on only when that is less than the threshold, and is refused only when not.
LEMMA LockArrives ==
  ASSUME LockInv, GateInv', NEW r \in Calls, NEW v \in Visitors, NEW k, A!Arrive(r, v, k)
  PROVE  LockTypes' /\ EntriesEnd' /\ FailuresBounded' /\ LockedRightly
<1> DEFINE e == failures[v]
           f == IF e = A!Untracked \/ ~limiting THEN e ELSE A!pruneLocked(e)
           locked == limiting /\ A!Blocked(f)
<1>0. LockTypes /\ EntriesEnd /\ FailuresBounded /\ GateInv
  BY DEF LockInv
<1>1. /\ visit[r].at \notin {"gate", "match", "exempt"}
      /\ visit' = [visit EXCEPT ![r] = IF locked THEN [A!Ended("locked") EXCEPT !.from = v]
                     ELSE [at |-> "gate", from |-> v, token |-> k, set |-> {}, checked |-> limiting]]
      /\ UNCHANGED <<hour, limiting, fails, window, attempts>>
      /\ failures' = [failures EXCEPT ![v] = f]
      /\ bar' = IF locked \/ ~limiting THEN bar ELSE [bar EXCEPT ![v] = fails]
  BY DEF A!Arrive
<1>2. /\ f \in EntryType
      /\ \A x \in A!Reasons : f.ts[x] \in Seq(Nat) /\ Ends(f.ts[x], attempts[v][x], hour)
      /\ f # e => \A x \in A!Reasons : \A i \in 1..Len(f.ts[x]) : f.ts[x][i] + window >= hour
  <2>1. f \in EntryType /\ \A x \in A!Reasons : Ends(f.ts[x], attempts[v][x], hour)
    <3>1. e \in EntryType /\ \A x \in A!Reasons : Ends(e.ts[x], attempts[v][x], hour)
      BY <1>0 DEF LockTypes, EntriesEnd
    <3> QED
      BY <1>0, <3>1, PrunedEntry
  <2>2. f # e => \A x \in A!Reasons : \A i \in 1..Len(f.ts[x]) : f.ts[x][i] + window >= hour
    BY <1>0, PrunedEntry
  <2>3. \A x \in A!Reasons : f.ts[x] \in Seq(Nat)
    <3> HIDE DEF f
    <3> QED
      BY <2>1 DEF EntryType
  <2> QED
    BY <2>1, <2>2, <2>3
<1>3. \A x \in A!Reasons : attempts[v][x] \in Seq(FailureType)
  BY <1>0 DEF LockTypes
<1>4. fails \in Nat \ {0} /\ hour \in Nat
  BY <1>0, GateAssumption DEF LockTypes
<1>5. locked => \A x \in A!Reasons : \A i \in 1..Len(f.ts[x]) : f.ts[x][i] + window >= hour
  <2> SUFFICES ASSUME locked
               PROVE  \A x \in A!Reasons : \A i \in 1..Len(f.ts[x]) : f.ts[x][i] + window >= hour
    OBVIOUS
  <2>1. PICK y \in A!Reasons : Len(f.ts[y]) >= fails
    BY DEF A!Blocked
  <2>2. e # A!Untracked
    <3> SUFFICES ASSUME e = A!Untracked
                 PROVE  FALSE
      OBVIOUS
    <3>1. f.ts[y] = <<>>
      BY DEF A!Untracked
    <3>2. Len(<<>>) = 0
      OBVIOUS
    <3> QED
      BY <1>4, <2>1, <3>1, <3>2
  <2>3. f = A!pruneLocked(e)
    BY <2>2
  <2> QED
    BY <1>0, <2>3, PrunedEntry
<1>6. A!Blocked(f) <=> \E x \in A!Reasons : Len(f.ts[x]) >= fails
  BY DEF A!Blocked
<1> HIDE DEF f, e
<1>7. LockTypes'
  <2>1. failures' \in [Visitors -> EntryType] /\ bar' \in [Visitors -> Nat]
    BY <1>0, <1>1, <1>2, <1>4 DEF LockTypes
  <2>2. \A q \in Calls : visit'[q].at \in {"gate", "match"} => visit'[q].from \in Visitors
    <3>1. \A q \in Calls : q # r => visit'[q] = visit[q]
      BY <1>0, <1>1 DEF GateInv
    <3>2. visit'[r].from = v
      BY <1>0, <1>1 DEF GateInv, A!Ended
    <3> QED
      BY <1>0, <3>1, <3>2 DEF LockTypes
  <2> QED
    BY <1>0, <1>1, <2>1, <2>2 DEF LockTypes
<1>8. EntriesEnd'
  <2> SUFFICES ASSUME NEW u \in Visitors, NEW x \in A!Reasons
               PROVE  Ends(failures'[u].ts[x], attempts[u][x], hour)
    BY <1>1 DEF EntriesEnd
  <2>1. failures'[u] = IF u = v THEN f ELSE failures[u]
    BY <1>0, <1>1 DEF LockTypes
  <2> QED
    BY <1>0, <1>2, <2>1 DEF EntriesEnd
<1>9. FailuresBounded'
  <2> SUFFICES ASSUME NEW u \in Visitors, NEW x \in A!Reasons
               PROVE  (Cardinality(A!Checked(u, x)) + Cardinality(Pending(u)) < bar[u] + Cardinality(Calls))'
    BY DEF FailuresBounded
  <2>1. CASE u = v /\ limiting /\ ~locked
    <3>1. A!Checked(u, x)' = A!Checked(u, x)
      BY <1>1 DEF A!Checked
    <3>2. Cardinality(A!Checked(u, x)) <= Len(f.ts[x]) /\ Cardinality(A!Checked(u, x)) \in Nat
      BY <1>2, <1>3, <1>4, <2>1, EntryCounts
    <3>3. Len(f.ts[x]) \in Nat /\ ~(Len(f.ts[x]) >= fails)
      BY <1>2, <1>6, <2>1
    <3>4. bar'[u] = fails
      BY <1>0, <1>1, <2>1 DEF LockTypes
    <3>5. /\ Cardinality(Pending(u)') \in Nat /\ Cardinality(Pending(u)') <= Cardinality(Calls)
          /\ Cardinality(Calls) \in Nat
      <4>1. Pending(u)' \subseteq Calls /\ IsFiniteSet(Calls)
        BY GateAssumption DEF Pending
      <4> QED
        BY <4>1, FS_Subset, FS_CardinalityType
    <3> QED
      BY <1>4, <3>1, <3>2, <3>3, <3>4, <3>5
  <2>2. CASE ~(u = v /\ limiting /\ ~locked)
    <3>1. bar'[u] = bar[u] /\ attempts'[u][x] = attempts[u][x] /\ hour' = hour
      BY <1>0, <1>1, <2>2 DEF LockTypes
    <3>2. Pending(u)' \subseteq Pending(u)
      <4>1. \A q \in Calls : q # r => visit'[q] = visit[q]
        BY <1>0, <1>1 DEF GateInv
      <4>2. r \notin Pending(u)'
        <5>1. visit'[r] = IF locked THEN [A!Ended("locked") EXCEPT !.from = v]
                     ELSE [at |-> "gate", from |-> v, token |-> k, set |-> {}, checked |-> limiting]
          BY <1>0, <1>1 DEF GateInv
        <5> HIDE DEF locked
        <5>2. CASE locked
          <6>1. visit'[r].at = "locked"
            BY <5>1, <5>2 DEF A!Ended
          <6> QED
            BY <6>1 DEF Pending
        <5>3. CASE ~locked
          <6>1. visit'[r].from = v /\ visit'[r].checked = limiting
            BY <5>1, <5>3
          <6> QED
            BY <2>2, <5>3, <6>1 DEF Pending
        <5> QED
          BY <5>2, <5>3
      <4> QED
        BY <4>1, <4>2 DEF Pending
    <3> QED
      BY <1>0, <3>1, <3>2, BoundStays
  <2> QED
    BY <2>1, <2>2
<1>10. LockedRightly
  <2> SUFFICES ASSUME NEW q \in Calls, visit'[q].at = "locked", visit'[q] # visit[q]
               PROVE  \E x \in A!Reasons : Cardinality(A!Recent(visit'[q].from, x)) >= fails
    BY DEF LockedRightly
  <2>1. q = r
    BY <1>0, <1>1 DEF GateInv
  <2>2. locked /\ visit'[q].from = v
    <3>1. visit'[r] = IF locked THEN [A!Ended("locked") EXCEPT !.from = v]
                 ELSE [at |-> "gate", from |-> v, token |-> k, set |-> {}, checked |-> limiting]
      BY <1>0, <1>1 DEF GateInv
    <3> HIDE DEF locked
    <3> QED
      BY <2>1, <3>1 DEF A!Ended
  <2>3. PICK x \in A!Reasons : Len(f.ts[x]) >= fails
    BY <1>6, <2>2
  <2>4. Cardinality(A!Recent(v, x)) >= Len(f.ts[x])
    BY <1>2, <1>3, <1>4, <1>5, <2>2, EntryCounts
  <2>5. Cardinality(A!Recent(v, x)) \in Nat /\ Len(f.ts[x]) \in Nat
    <3>1. Len(attempts[v][x]) \in Nat /\ DOMAIN attempts[v][x] = 1..Len(attempts[v][x])
      BY <1>3
    <3>2. IsFiniteSet(1..Len(attempts[v][x]))
      BY <3>1, FS_Interval
    <3>3. A!Recent(v, x) \subseteq 1..Len(attempts[v][x])
      BY <3>1 DEF A!Recent
    <3> QED
      BY <1>2, <3>2, <3>3, FS_Subset, FS_CardinalityType
  <2> QED
    BY <1>4, <2>2, <2>3, <2>4, <2>5
<1> QED
  BY <1>7, <1>8, <1>9, <1>10

\* A request that fails puts its failure at the end of its client's log and entry, and
\* is pending no longer.
LEMMA LockFails ==
  ASSUME LockInv, NEW r \in Calls, NEW y \in A!Reasons, visit[r].at \in {"gate", "match"},
         A!RecordFailure(r, y), visit' = [visit EXCEPT ![r] = A!Ended("denied")],
         UNCHANGED <<hour, limiting, fails, window, bar>>
  PROVE  LockTypes' /\ EntriesEnd' /\ FailuresBounded'
<1>0. LockTypes /\ EntriesEnd /\ FailuresBounded /\ GateInv
  BY DEF LockInv
<1>a. visit[r].from \in Visitors /\ visit[r].checked \in BOOLEAN /\ hour \in Nat /\ hour' = hour
  BY <1>0 DEF LockTypes, GateInv, VisitType
<1>b. PICK v \in Visitors, c \in BOOLEAN : v = visit[r].from /\ c = visit[r].checked
  BY <1>a
<1> DEFINE e == failures[v]
           fs == attempts[v][y]
           new == [at |-> hour, checked |-> c]
<1>1. v \in Visitors /\ c \in BOOLEAN /\ hour \in Nat /\ hour' = hour
  BY <1>a
<1>2. /\ \A q \in Calls : q # r => visit'[q] = visit[q]
      /\ visit'[r].at = "denied"
  BY <1>0 DEF GateInv, A!Ended
<1>3. \A u \in Visitors : Pending(u)' \subseteq Pending(u) \ {r}
  BY <1>2 DEF Pending
<1>4. \A q \in Calls : visit'[q].at \in {"gate", "match"} => visit'[q].from \in Visitors
  BY <1>0, <1>2 DEF LockTypes
<1>5. CASE ~limiting
  <2>1. UNCHANGED <<failures, attempts>>
    BY <1>5 DEF A!RecordFailure
  <2> QED
    BY <1>3, <1>4, <2>1, LockMoves
<1>6. CASE limiting
  <2> DEFINE g == [e EXCEPT !.ts[y] = Append(@, hour), !.lastSeen = hour]
             l == [attempts[v] EXCEPT ![y] = Append(@, new)]
  <2>1. failures' = [failures EXCEPT ![v] = g] /\ attempts' = [attempts EXCEPT ![v] = l]
    BY <1>0, <1>b, <1>6 DEF A!RecordFailure, LockTypes
  <2>2. /\ e \in EntryType /\ e.ts[y] \in Seq(Nat) /\ fs \in Seq(FailureType) /\ Ends(e.ts[y], fs, hour)
        /\ attempts[v] \in [A!Reasons -> Seq(FailureType)]
        /\ \A x \in A!Reasons : Ends(e.ts[x], attempts[v][x], hour)
    BY <1>0, <1>1 DEF LockTypes, EntriesEnd, EntryType
  <2>3. /\ Append(e.ts[y], hour) \in Seq(Nat) /\ Append(fs, new) \in Seq(FailureType)
        /\ Ends(Append(e.ts[y], hour), Append(fs, new), hour)
    BY <1>1, <2>2, AppendEnds
  <2>4. /\ g \in EntryType
        /\ \A x \in A!Reasons : g.ts[x] = IF x = y THEN Append(e.ts[y], hour) ELSE e.ts[x]
    BY <1>1, <2>2, <2>3 DEF EntryType
  <2>5. /\ l \in [A!Reasons -> Seq(FailureType)]
        /\ \A x \in A!Reasons : l[x] = IF x = y THEN Append(fs, new) ELSE attempts[v][x]
    BY <2>2, <2>3
  <2> HIDE DEF g, l
  <2>6. \A u \in Visitors : /\ failures'[u] = IF u = v THEN g ELSE failures[u]
                            /\ attempts'[u] = IF u = v THEN l ELSE attempts[u]
    BY <1>0, <1>1, <2>1 DEF LockTypes
  <2>7. LockTypes'
    <3>1. /\ failures' \in [Visitors -> EntryType]
          /\ attempts' \in [Visitors -> [A!Reasons -> Seq(FailureType)]]
      BY <1>0, <1>1, <2>1, <2>4, <2>5 DEF LockTypes
    <3> QED
      BY <1>0, <1>4, <3>1 DEF LockTypes
  <2>8. EntriesEnd'
    <3> SUFFICES ASSUME NEW u \in Visitors, NEW x \in A!Reasons
                 PROVE  Ends(failures'[u].ts[x], attempts'[u][x], hour)
      BY DEF EntriesEnd
    <3>1. CASE u = v
      <4>1. failures'[u] = g /\ attempts'[u] = l
        BY <2>6, <3>1
      <4>2. x = y => Ends(g.ts[x], l[x], hour)
        BY <2>3, <2>4, <2>5
      <4>3. x # y => Ends(g.ts[x], l[x], hour)
        BY <2>2, <2>4, <2>5
      <4> QED
        BY <4>1, <4>2, <4>3
    <3>2. CASE u # v
      BY <1>0, <2>6, <3>2 DEF EntriesEnd
    <3> QED
      BY <3>1, <3>2
  <2>9. FailuresBounded'
    <3> SUFFICES ASSUME NEW u \in Visitors, NEW x \in A!Reasons
                 PROVE  (Cardinality(A!Checked(u, x)) + Cardinality(Pending(u)) < bar[u] + Cardinality(Calls))'
      BY DEF FailuresBounded
    <3>1. CASE u = v /\ x = y
      <4> DEFINE m == Len(fs)
                 old == A!Checked(v, y)
      <4>1. m \in Nat /\ attempts'[v][y] = Append(fs, new)
        <5>1. attempts'[v] = l
          BY <2>6
        <5>2. l[y] = Append(fs, new)
          BY <2>5
        <5>3. m \in Nat
          BY <2>2
        <5> QED
          BY <5>1, <5>2, <5>3
      <4>2. /\ Len(Append(fs, new)) = m + 1 /\ Append(fs, new)[m + 1] = new
            /\ \A i \in 1..m : Append(fs, new)[i] = fs[i]
            /\ DOMAIN Append(fs, new) = 1 .. m + 1 /\ DOMAIN fs = 1..m
        <5>1. new \in FailureType
          BY <1>1 DEF FailureType
        <5> HIDE DEF new
        <5> QED
          BY <2>2, <5>1
      <4> HIDE DEF fs, m
      <4>3. old' \subseteq old \cup {m + 1} /\ (~c => old' \subseteq old)
        <5> SUFFICES ASSUME NEW i \in old'
                     PROVE  i \in old \/ (c /\ i = m + 1)
          OBVIOUS
        <5>1. /\ i \in 1 .. m + 1 /\ attempts'[v][y][i].checked
              /\ \A w \in WindowValues : attempts'[v][y][i].at + w >= hour
          <6>1. i \in {j \in DOMAIN attempts'[v][y] :
                    attempts'[v][y][j].checked /\ \A w \in WindowValues : attempts'[v][y][j].at + w >= hour'}
            BY DEF A!Checked
          <6>2. DOMAIN attempts'[v][y] = 1 .. m + 1
            BY <4>1, <4>2
          <6> QED
            BY <1>1, <6>1, <6>2
        <5>2. CASE i = m + 1
          BY <4>1, <4>2, <5>1, <5>2
        <5>3. CASE i # m + 1
          <6>1. i \in 1..m /\ attempts'[v][y][i] = fs[i]
            BY <4>1, <4>2, <5>1, <5>3
          <6> QED
            BY <4>2, <5>1, <6>1 DEF A!Checked, fs
        <5> QED
          BY <5>2, <5>3
      <4>4. IsFiniteSet(old) /\ Cardinality(old) \in Nat
        BY <1>0, <1>1, CountsFinite
      <4>5. IsFiniteSet(Pending(v)) /\ Cardinality(Pending(v)) \in Nat /\ Cardinality(Calls) \in Nat
        BY PendingFinite
      <4>6. bar[v] \in Nat /\ Cardinality(old) + Cardinality(Pending(v)) < bar[v] + Cardinality(Calls)
        BY <1>0, <1>1 DEF LockTypes, FailuresBounded
      <4>7. bar'[u] = bar[v] /\ A!Checked(u, x)' = old' /\ Pending(u)' = Pending(v)'
        BY <3>1
      <4> HIDE DEF old
      <4>8. CASE c
        <5>1. r \in Pending(v)
          BY <1>b, <4>8 DEF Pending
        <5>2. /\ IsFiniteSet(Pending(v) \ {r}) /\ Cardinality(Pending(v) \ {r}) = Cardinality(Pending(v)) - 1
          BY <4>5, <5>1, FS_RemoveElement
        <5>3. Cardinality(Pending(v)') <= Cardinality(Pending(v)) - 1 /\ Cardinality(Pending(v)') \in Nat
          BY <1>1, <1>3, <5>2, FS_Subset, FS_CardinalityType
        <5>4. /\ IsFiniteSet(old \cup {m + 1}) /\ Cardinality(old \cup {m + 1}) <= Cardinality(old) + 1
              /\ Cardinality(old \cup {m + 1}) \in Nat
          <6>1. CASE m + 1 \in old
            <7>1. old \cup {m + 1} = old
              BY <6>1
            <7>2. Cardinality(old \cup {m + 1}) = Cardinality(old) /\ IsFiniteSet(old \cup {m + 1})
              BY <4>4, <7>1, Zenon
            <7> QED
              BY <4>4, <7>2
          <6>2. CASE m + 1 \notin old
            <7>1. IsFiniteSet(old \cup {m + 1}) /\ Cardinality(old \cup {m + 1}) = Cardinality(old) + 1
              BY <4>4, <6>2, FS_AddElement
            <7> QED
              BY <4>4, <7>1
          <6> QED
            BY <6>1, <6>2
        <5>5. Cardinality(old') <= Cardinality(old \cup {m + 1}) /\ Cardinality(old') \in Nat
          BY <4>3, <5>4, FS_Subset, FS_CardinalityType
        <5> QED
          BY <4>4, <4>5, <4>6, <4>7, <5>3, <5>4, <5>5
      <4>9. CASE ~c
        <5>1. Cardinality(Pending(v)') <= Cardinality(Pending(v)) /\ Cardinality(Pending(v)') \in Nat
          BY <1>1, <1>3, <4>5, FS_Subset, FS_CardinalityType
        <5>2. Cardinality(old') <= Cardinality(old) /\ Cardinality(old') \in Nat
          BY <4>3, <4>4, <4>9, FS_Subset, FS_CardinalityType
        <5> QED
          BY <4>4, <4>5, <4>6, <4>7, <5>1, <5>2
      <4> QED
        BY <1>1, <4>8, <4>9
    <3>2. CASE ~(u = v /\ x = y)
      <4>1. attempts'[u][x] = attempts[u][x]
        BY <2>5, <2>6, <3>2
      <4>2. Pending(u)' \subseteq Pending(u) /\ bar'[u] = bar[u] /\ hour' = hour
        BY <1>3
      <4> QED
        BY <1>0, <4>1, <4>2, BoundStays
    <3> QED
      BY <3>1, <3>2
  <2> QED
    BY <2>7, <2>8, <2>9
<1> QED
  BY <1>5, <1>6

\* The reaper prunes every entry, and forgets those that hold nothing then.
LEMMA LockReaps ==
  ASSUME LockInv, A!Reap
  PROVE  LockTypes' /\ EntriesEnd' /\ FailuresBounded'
<1>0. LockTypes /\ EntriesEnd /\ FailuresBounded
  BY DEF LockInv
<1>1. UNCHANGED <<hour, fails, window, visit, bar, attempts>>
  BY DEF A!Reap
<1>2. \A v \in Visitors :
        /\ failures'[v] \in EntryType
        /\ \A x \in A!Reasons : Ends(failures'[v].ts[x], attempts[v][x], hour)
  <2> SUFFICES ASSUME NEW v \in Visitors
               PROVE  /\ failures'[v] \in EntryType
                      /\ \A x \in A!Reasons : Ends(failures'[v].ts[x], attempts[v][x], hour)
    OBVIOUS
  <2> DEFINE f == IF failures[v] = A!Untracked THEN A!Untracked ELSE A!pruneLocked(failures[v])
  <2>1. f \in EntryType /\ \A x \in A!Reasons : Ends(f.ts[x], attempts[v][x], hour)
    <3>1. failures[v] \in EntryType /\ \A x \in A!Reasons : Ends(failures[v].ts[x], attempts[v][x], hour)
      BY <1>0 DEF LockTypes, EntriesEnd
    <3> QED
      BY <1>0, <3>1, PrunedEntry
  <2>2. failures'[v] = f \/ (failures'[v] = A!Untracked /\ \A x \in A!Reasons : f.ts[x] = <<>>)
    BY DEF A!Reap
  <2> HIDE DEF f
  <2>3. A!Untracked \in EntryType /\ \A x \in A!Reasons : A!Untracked.ts[x] = <<>>
    BY GateAssumption DEF A!Untracked, EntryType
  <2> QED
    BY <2>1, <2>2, <2>3
<1>3. LockTypes'
  <2>1. failures' = [v \in Visitors |-> failures'[v]]
    BY DEF A!Reap
  <2>2. failures' \in [Visitors -> EntryType]
    BY <1>2, <2>1
  <2> QED
    BY <1>0, <1>1, <2>2 DEF LockTypes
<1>4. EntriesEnd'
  BY <1>1, <1>2 DEF EntriesEnd
<1>5. FailuresBounded'
  BY <1>0, <1>1, BoundStays DEF FailuresBounded, Pending
<1> QED
  BY <1>3, <1>4, <1>5

\* The gate's counts are counts.
LEMMA GateCounts == \A X : A!Cardinality(X) = Cardinality(X)
  BY Zenon DEF A!Cardinality, Cardinality

\* What LockoutExact asks of a state is part of the invariant.
LEMMA BoundMeans ==
  ASSUME LockTypes, FailuresBounded
  PROVE  \A v \in Visitors, x \in A!Reasons :
           Cardinality(A!Checked(v, x)) < bar[v] + Cardinality(Calls)
<1> SUFFICES ASSUME NEW v \in Visitors, NEW x \in A!Reasons
             PROVE  Cardinality(A!Checked(v, x)) < bar[v] + Cardinality(Calls)
  OBVIOUS
<1>1. Cardinality(A!Checked(v, x)) \in Nat
  BY CountsFinite
<1>2. Cardinality(Pending(v)) \in Nat /\ Cardinality(Calls) \in Nat
  BY PendingFinite
<1>3. bar[v] \in Nat /\ Cardinality(A!Checked(v, x)) + Cardinality(Pending(v)) < bar[v] + Cardinality(Calls)
  BY DEF LockTypes, FailuresBounded
<1> QED
  BY <1>1, <1>2, <1>3

\* Every step of the gate keeps the lockout's books, and locks out whom it should.
LEMMA LockStep ==
  ASSUME LockInv, [A!AuthNext]_authVars
  PROVE  LockInv' /\ [LockedRightly]_authVars
<1>0. LockTypes /\ EntriesEnd /\ FailuresBounded /\ GateInv
  BY DEF LockInv
<1>1. GateInv'
  BY <1>0, GateStep
<1> SUFFICES LockTypes' /\ EntriesEnd' /\ FailuresBounded' /\ [LockedRightly]_authVars
  BY <1>1 DEF LockInv
<1>2. ASSUME NEW r \in Calls, NEW v \in Visitors, NEW k \in Keys \cup {NoToken}, A!Arrive(r, v, k)
      PROVE  LockTypes' /\ EntriesEnd' /\ FailuresBounded' /\ [LockedRightly]_authVars
  BY <1>1, <1>2, LockArrives
<1>3. ASSUME NEW r \in Calls, A!Exempt(r) \/ A!ExemptEnds(r) \/ A!Snapshot(r) \/ A!Missing(r) \/ A!Match(r)
      PROVE  LockTypes' /\ EntriesEnd' /\ FailuresBounded' /\ [LockedRightly]_authVars
  <2>1. calls' = calls /\ UNCHANGED <<hour, limiting, fails, window, bar>>
    BY <1>3 DEF A!Exempt, A!ExemptEnds, A!Snapshot, A!Missing, A!Match
  <2>2. CASE A!Missing(r)
    BY <2>1, <2>2, LockFails DEF A!Missing, A!Reasons, LockedRightly
  <2>3. CASE A!Match(r) /\ ~(visit[r].token \in A!Policy(visit[r].set))
    BY <2>1, <2>3, LockFails DEF A!Match, A!Reasons, LockedRightly
  <2>4. CASE ~A!Missing(r) /\ ~(A!Match(r) /\ ~(visit[r].token \in A!Policy(visit[r].set)))
    <3>1. /\ UNCHANGED <<failures, attempts>>
          /\ \A q \in Calls : q # r => visit'[q] = visit[q]
          /\ \/ visit'[r].at \notin {"gate", "match"}
             \/ visit[r].at = "gate" /\ visit'[r].from = visit[r].from /\ visit'[r].checked = visit[r].checked
      BY <1>0, <1>3, <2>4 DEF A!Exempt, A!ExemptEnds, A!Snapshot, A!Match, A!Ended, GateInv, VisitType
    <3>2. \A v \in Visitors : Pending(v)' \subseteq Pending(v)
      BY <3>1 DEF Pending
    <3>3. \A q \in Calls : visit'[q].at \in {"gate", "match"} => visit'[q].from \in Visitors
      BY <1>0, <3>1 DEF LockTypes
    <3> QED
      BY <2>1, <3>1, <3>2, <3>3, LockMoves DEF LockedRightly
  <2> QED
    BY <2>2, <2>3, <2>4
<1>4. ASSUME NEW on \in BOOLEAN, NEW n \in BurstValues, NEW w \in WindowValues, NEW f, A!Reload(on, n, w, f)
      PROVE  LockTypes' /\ EntriesEnd' /\ FailuresBounded' /\ [LockedRightly]_authVars
  <2>1. /\ fails' \in BurstValues /\ window' \in WindowValues
        /\ UNCHANGED <<hour, failures, visit, calls, bar, attempts>>
    BY <1>4 DEF A!Reload
  <2>2. LockTypes' /\ EntriesEnd'
    BY <1>0, <2>1 DEF LockTypes, EntriesEnd
  <2>3. FailuresBounded'
    BY <1>0, <2>1, BoundStays DEF FailuresBounded, Pending
  <2> QED
    BY <2>1, <2>2, <2>3 DEF LockedRightly
<1>5. CASE A!Reap
  <2>1. calls' = calls
    BY <1>5 DEF A!Reap
  <2> QED
    BY <1>5, <2>1, LockReaps DEF LockedRightly
<1>6. CASE A!AuthTick
  <2>1. hour' = hour + 1 /\ UNCHANGED <<fails, window, failures, visit, calls, bar, attempts>>
    BY <1>6 DEF A!AuthTick
  <2>2. LockTypes'
    BY <1>0, <2>1 DEF LockTypes
  <2>3. EntriesEnd'
    <3> SUFFICES ASSUME NEW v \in Visitors, NEW x \in A!Reasons
                 PROVE  Ends(failures[v].ts[x], attempts[v][x], hour + 1)
      BY <2>1 DEF EntriesEnd
    <3>1. failures[v] \in EntryType /\ attempts[v][x] \in Seq(FailureType) /\ hour \in Nat
      BY <1>0 DEF LockTypes
    <3>2. failures[v].ts[x] \in Seq(Nat)
      BY <3>1 DEF EntryType
    <3> QED
      BY <1>0, <3>1, <3>2, EndsLater DEF EntriesEnd
  <2>4. FailuresBounded'
    BY <1>0, <2>1, BoundStays DEF FailuresBounded, Pending
  <2> QED
    BY <2>1, <2>2, <2>3, <2>4 DEF LockedRightly
<1>7. CASE UNCHANGED authVars
  <2>1. UNCHANGED <<hour, fails, window, failures, visit, bar, attempts>>
    BY <1>7 DEF authVars
  <2> QED
    BY <1>0, <1>7, <2>1, LockMoves DEF Pending, LockTypes
<1> QED
  BY <1>2, <1>3, <1>4, <1>5, <1>6, <1>7 DEF A!AuthNext

\* A client that was checked fails less often in a window than the threshold it was last
\* checked against, but for the requests past the check, and only one that has failed
\* that often is locked out (AuthLimiter's IsBlocked, RecordFailure, pruneLocked and
\* reaper); and who shows a key is answered by a policy in force meanwhile.
THEOREM AuthIsSound == AdmissionSpec => AuthSound
<1>1. AdmissionInit => LockInv
  <2> SUFFICES ASSUME AdmissionInit
               PROVE  LockInv
    OBVIOUS
  <2>1. /\ hour = 0 /\ fails \in BurstValues /\ window \in WindowValues
        /\ failures = [v \in Visitors |-> A!Untracked] /\ bar = [v \in Visitors |-> 1]
        /\ attempts = [v \in Visitors |-> [x \in A!Reasons |-> <<>>]]
        /\ visit = [r \in Calls |-> A!Ended("idle")]
    BY DEF AdmissionInit, A!AuthInit
  <2>2. GateInv
    BY GateStarts
  <2>3. A!Untracked \in EntryType /\ \A x \in A!Reasons : A!Untracked.ts[x] = <<>>
    BY GateAssumption DEF A!Untracked, EntryType
  <2>4. \A r \in Calls : visit[r].at = "idle"
    BY <2>1 DEF A!Ended
  <2>5. LockTypes
    BY <2>1, <2>3, <2>4 DEF LockTypes
  <2>6. EntriesEnd
    <3>1. Len(<<>>) = 0
      OBVIOUS
    <3> QED
      BY <2>1, <2>3, <3>1 DEF EntriesEnd, Ends
  <2>7. FailuresBounded
    <3> SUFFICES ASSUME NEW v \in Visitors, NEW x \in A!Reasons
                 PROVE  Cardinality(A!Checked(v, x)) + Cardinality(Pending(v)) < bar[v] + Cardinality(Calls)
      BY DEF FailuresBounded
    <3>1. A!Checked(v, x) = {}
      BY <2>1 DEF A!Checked
    <3>2. Pending(v) = {}
      BY <2>4 DEF Pending
    <3>3. bar[v] = 1 /\ Cardinality(Calls) \in Nat /\ Cardinality({}) = 0
      BY <2>1, PendingFinite, FS_EmptySet
    <3> QED
      BY <3>1, <3>2, <3>3
  <2> QED
    BY <2>2, <2>5, <2>6, <2>7 DEF LockInv
<1>2. LockInv /\ [AdmissionNext]_allVars => LockInv' /\ [LockedRightly]_authVars
  <2> SUFFICES ASSUME LockInv, [AdmissionNext]_allVars
               PROVE  LockInv' /\ [LockedRightly]_authVars
    OBVIOUS
  <2>1. [A!AuthNext]_authVars
    BY DEF AdmissionNext, allVars, authVars
  <2> QED
    BY <2>1, LockStep
<1>3. LockInv => A!FailuresBelow
  BY BoundMeans, GateCounts DEF LockInv, A!FailuresBelow
<1>4. LockedRightly => A!LockedRightly
  BY GateCounts DEF LockedRightly, A!LockedRightly
<1>5. AdmissionSpec => [][A!FailuresBelow' /\ A!LockedRightly]_authVars
  BY <1>1, <1>2, <1>3, <1>4, PTL DEF AdmissionSpec
<1>6. AdmissionSpec => A!LockoutExact
  BY <1>5 DEF A!LockoutExact, authVars, A!authVars
<1> QED
  BY <1>6, GateHeedsCredentials DEF AuthSound

-----------------------------------------------------------------------------
\* The chat handler's front half.  The counter a request has read is behind the hits
\* counted since, each of which is some request's.
HitsInv ==
  /\ hits \in Nat /\ before \in [Requests -> Nat] /\ served \in [Requests -> BOOLEAN]
  /\ stage \in [Requests -> {"new", "rejected", "retrieve", "count", "planned"}]
  /\ DOMAIN seen = Requests
  /\ \A r \in Requests :
       /\ before[r] <= hits
       /\ stage[r] \in {"new", "retrieve"} => ~served[r]
       /\ stage[r] = "count" => (served[r] => hits > before[r])
       /\ stage[r] \in {"retrieve", "count"} /\ hits > before[r] => \E q \in Requests : served[q]
  /\ I!HitsReported

\* Every stage of a handler keeps the books on cache hits.
LEMMA HitsStep ==
  ASSUME HitsInv, [I!IntakeNext]_intakeVars
  PROVE  HitsInv'
<1>1. CASE UNCHANGED intakeVars
  BY <1>1 DEF intakeVars, HitsInv, I!HitsReported
<1> SUFFICES ASSUME NEW r \in Requests, I!IntakeStep(r)
             PROVE  HitsInv'
  BY <1>1 DEF I!IntakeNext
<1>2. CASE I!Reject(r)
  <2>1. /\ stage[r] = "new" /\ stage' = [stage EXCEPT ![r] = "rejected"]
        /\ UNCHANGED <<before, hits, served, seen>>
    BY <1>2, Zenon DEF I!Reject
  <2> QED
    BY <2>1 DEF HitsInv, I!HitsReported
<1>3. CASE I!Engineer(r)
  <2>1. /\ stage[r] = "new" /\ stage' = [stage EXCEPT ![r] = "retrieve"]
        /\ before' = [before EXCEPT ![r] = hits] /\ UNCHANGED <<hits, served, seen>>
    BY <1>3, Zenon DEF I!Engineer, I!Count
  <2> QED
    BY <2>1 DEF HitsInv, I!HitsReported
<1>4. CASE I!RetrieveNothing(r) \/ I!RetrieveFails(r)
  <2>1. /\ stage[r] = "retrieve" /\ stage' = [stage EXCEPT ![r] = "count"]
        /\ \E what : seen' = [seen EXCEPT ![r] = <<what, FALSE>>]
        /\ UNCHANGED <<before, hits, served>>
    BY <1>4, Zenon DEF I!RetrieveNothing, I!RetrieveFails, I!Retrieved
  <2> QED
    BY <2>1 DEF HitsInv, I!HitsReported
<1>5. CASE I!RetrieveMisses(r) \/ I!RetrieveFinds(r)
  <2>1. /\ stage[r] = "retrieve" /\ stage' = [stage EXCEPT ![r] = "count"]
        /\ \E what : seen' = [seen EXCEPT ![r] = <<what, FALSE>>]
        /\ UNCHANGED before /\ I!Embedded(r)
    BY <1>5, Zenon DEF I!RetrieveMisses, I!RetrieveFinds, I!Retrieved
  <2> DEFINE b == I!Wanted(r) \in embedded
  <2>2. b \in BOOLEAN
    OBVIOUS
  <2>3. served' = [served EXCEPT ![r] = b] /\ hits' = IF b THEN hits + 1 ELSE hits
    BY <2>1, Zenon DEF I!Embedded
  <2> HIDE DEF b
  <2>4. \A q \in Requests : /\ served'[q] = (IF q = r THEN b ELSE served[q])
                            /\ stage'[q] = IF q = r THEN "count" ELSE stage[q]
    BY <2>1, <2>3 DEF HitsInv
  <2>5. hits' \in Nat /\ hits' >= hits /\ (b => hits' = hits + 1) /\ (~b => hits' = hits)
    BY <2>3 DEF HitsInv
  <2>6. /\ ~served[r] /\ before[r] \in Nat /\ before[r] <= hits
        /\ hits > before[r] => \E q \in Requests : served[q]
    BY <2>1 DEF HitsInv
  <2>7. \A q \in Requests : served[q] => served'[q]
    BY <2>4, <2>6
  <2>8. \A q \in Requests : stage[q] \in {"retrieve", "count"} /\ hits' > before[q] =>
                              \E x \in Requests : served'[x]
    <3>1. CASE b
      BY <3>1, <2>4
    <3>2. CASE ~b
      BY <3>2, <2>5, <2>7 DEF HitsInv
    <3> QED
      BY <3>1, <3>2
  <2>9. \A q \in Requests : /\ before[q] <= hits'
                            /\ stage'[q] \in {"new", "retrieve"} => ~served'[q]
                            /\ stage'[q] = "count" => (served'[q] => hits' > before[q])
    BY <2>4, <2>5, <2>6 DEF HitsInv
  <2>10. \A q \in Requests : stage'[q] = "planned" => q # r /\ seen'[q] = seen[q] /\ stage[q] = "planned"
    BY <2>1, <2>4 DEF HitsInv
  <2>11. I!HitsReported'
    BY <2>4, <2>7, <2>10 DEF HitsInv, I!HitsReported
  <2>12. /\ served' \in [Requests -> BOOLEAN] /\ DOMAIN seen' = Requests
         /\ stage' \in [Requests -> {"new", "rejected", "retrieve", "count", "planned"}]
    BY <2>1, <2>2, <2>3 DEF HitsInv
  <2>13. \A q \in Requests : stage'[q] \in {"retrieve", "count"} => stage[q] \in {"retrieve", "count"}
    BY <2>1, <2>4
  <2> QED
    BY <2>1, <2>5, <2>8, <2>9, <2>11, <2>12, <2>13 DEF HitsInv
<1>6. CASE I!Route(r)
  <2>1. /\ stage[r] = "count" /\ stage' = [stage EXCEPT ![r] = "planned"]
        /\ seen' = [seen EXCEPT ![r] = <<@[1], hits > before[r]>>]
        /\ UNCHANGED <<before, hits, served>>
    BY <1>6, Zenon DEF I!Route
  <2> QED
    BY <2>1 DEF HitsInv, I!HitsReported
<1> QED
  BY <1>2, <1>3, <1>4, <1>5, <1>6 DEF I!IntakeStep

-----------------------------------------------------------------------------
\* The least element is what Min chooses.
LEMMA MinOf ==
  ASSUME NEW T \in SUBSET Nat, T # {}
  PROVE  I!Min(T) \in T /\ \A y \in T : I!Min(T) <= y
BY LeastExists, Zenon DEF I!Min

\* The greatest element is what Max chooses.
LEMMA MaxOf ==
  ASSUME NEW n \in Nat, NEW T \in SUBSET (0..n), T # {}
  PROVE  I!Max(T) \in T /\ \A y \in T : y <= I!Max(T)
<1> DEFINE D == {n - x : x \in T}
<1>1. D \in SUBSET Nat /\ D # {}
  <2>1. \A x \in T : n - x \in Nat
    OBVIOUS
  <2> QED
    BY <2>1
<1>2. PICK d \in D : \A e \in D : d <= e
  BY <1>1, LeastExists
<1>3. PICK x \in T : d = n - x
  BY <1>2
<1>4. \A y \in T : n - y \in D
  OBVIOUS
<1>5. \A y \in T : n - x <= n - y
  BY <1>2, <1>3, <1>4
<1>6. \A y \in T : x >= y
  BY <1>5
<1>7. I!Max(T) \in T /\ \A y \in T : I!Max(T) >= y
  BY <1>3, <1>6, Zenon DEF I!Max
<1> QED
  BY <1>7

-----------------------------------------------------------------------------
\* A message has the fields the stages look at and write.
Fields(m) ==
  {"from", "role", "text", "says", "size", "json", "suspect", "marks", "own", "added"} \subseteq DOMAIN m

\* What a stage may make of a message: the same one, with its string if it had one.
Remains(x, y) ==
  /\ Fields(y) /\ y.from = x.from /\ y.role = x.role /\ y.marks = x.marks
  /\ x.text /\ x.own => y.text /\ y.own

Listed(ms) == \E T : ms \in Seq(T)

Edited(ms, ns) ==
  /\ Listed(ns) /\ Len(ns) = Len(ms)
  /\ \A i \in 1..Len(ms) : Remains(ms[i], ns[i])

\* A message the proxy wrote.
Ours(m) == Fields(m) /\ m.from = 0 /\ m.role = "system" /\ m.text /\ m.own

\* A list has a length, and that many places.
LEMMA ListedFacts ==
  ASSUME NEW ms, Listed(ms)
  PROVE  Len(ms) \in Nat /\ DOMAIN ms = 1..Len(ms)
BY DEF Listed

\* One message of a list replaced.
LEMMA ReplacedAt ==
  ASSUME NEW ms, Listed(ms), NEW i \in 1..Len(ms), NEW m, NEW ns, ns = [ms EXCEPT ![i] = m]
  PROVE  Listed(ns) /\ Len(ns) = Len(ms)
<1>1. PICK T : ms \in Seq(T)
  BY DEF Listed
<1>2. ms \in Seq(T \cup {m})
  BY <1>1
<1>3. ns \in Seq(T \cup {m}) /\ Len(ns) = Len(ms)
  BY <1>2
<1> QED
  BY <1>1, <1>3 DEF Listed

\* One message put in front.
LEMMA PutInFront ==
  ASSUME NEW ms, Listed(ms), NEW m
  PROVE  /\ Listed(<<m>> \o ms) /\ Len(<<m>> \o ms) = Len(ms) + 1
         /\ (<<m>> \o ms)[1] = m
         /\ \A i \in 1..Len(ms) : (<<m>> \o ms)[i + 1] = ms[i]
<1>1. PICK T : ms \in Seq(T)
  BY DEF Listed
<1> DEFINE U == T \cup {m}
<1>2. ms \in Seq(U) /\ <<m>> \in Seq(U) /\ Len(<<m>>) = 1 /\ <<m>>[1] = m /\ Len(ms) \in Nat
  BY <1>1
<1> HIDE DEF U
<1>3. /\ <<m>> \o ms \in Seq(U) /\ Len(<<m>> \o ms) = 1 + Len(ms)
      /\ \A i \in 1..(1 + Len(ms)) : (<<m>> \o ms)[i] = IF i <= 1 THEN <<m>>[i] ELSE ms[i - 1]
  BY <1>2, ConcatProperties
<1>4. \A i \in 1..Len(ms) : (<<m>> \o ms)[i + 1] = ms[i]
  <2> SUFFICES ASSUME NEW i \in 1..Len(ms)
               PROVE  (<<m>> \o ms)[i + 1] = ms[i]
    OBVIOUS
  <2>1. i + 1 \in 1..(1 + Len(ms)) /\ ~(i + 1 <= 1) /\ (i + 1) - 1 = i
    BY <1>2
  <2> QED
    BY <2>1, <1>3
<1>5. (<<m>> \o ms)[1] = m
  BY <1>2, <1>3
<1> QED
  BY <1>2, <1>3, <1>4, <1>5 DEF Listed

\* The indices of a role's messages.
LEMMA WhereFacts ==
  ASSUME NEW ms, Listed(ms), NEW role
  PROVE  /\ I!Where(ms, role, I!AnyContent) = {i \in 1..Len(ms) : ms[i].role = role}
         /\ I!Where(ms, role, I!AnyContent) \in SUBSET Nat
         /\ I!Where(ms, role, I!AnyContent) \in SUBSET (0..Len(ms))
<1>1. Len(ms) \in Nat /\ DOMAIN ms = 1..Len(ms)
  BY ListedFacts
<1> QED
  BY <1>1 DEF I!Where, I!AnyContent

\* Extending a message of the system.
LEMMA ExtendedFacts ==
  ASSUME NEW ms, Listed(ms), \A i \in 1..Len(ms) : Fields(ms[i]), NEW i \in 1..Len(ms), NEW what
  PROVE  /\ Edited(ms, I!Extended(ms, i, what))
         /\ I!Extended(ms, i, what)[i].added = ms[i].added \cup {what}
         /\ \A j \in 1..Len(ms) : j # i => I!Extended(ms, i, what)[j].added = ms[j].added
<1> DEFINE ns == I!Extended(ms, i, what)
<1>1. PICK m : m = I!With(ms[i], what)
  OBVIOUS
<1>2. Fields(m) /\ m.from = ms[i].from /\ m.role = ms[i].role /\ m.marks = ms[i].marks
      /\ m.added = ms[i].added \cup {what} /\ m.text /\ (ms[i].text /\ ms[i].own => m.own)
  BY <1>1 DEF Fields, I!With
<1>3. Listed(ns) /\ Len(ns) = Len(ms) /\ \A j \in 1..Len(ms) : ns[j] = IF j = i THEN m ELSE ms[j]
  <2>1. ns = [ms EXCEPT ![i] = m]
    BY <1>1, Zenon DEF I!Extended
  <2> HIDE DEF ns
  <2>2. Listed(ms) /\ i \in 1..Len(ms)
    OBVIOUS
  <2>3. Listed(ns)
    BY <2>1, <2>2, ReplacedAt, Zenon
  <2>4. Len(ns) = Len(ms)
    BY <2>1, <2>2, ReplacedAt
  <2>5. \A j \in 1..Len(ms) : ns[j] = IF j = i THEN m ELSE ms[j]
    BY <2>1, <2>2, ListedFacts
  <2> QED
    BY <2>3, <2>4, <2>5
<1> HIDE DEF ns
<1>4. \A j \in 1..Len(ms) : Remains(ms[j], ns[j])
  BY <1>2, <1>3 DEF Remains
<1>5. ns[i].added = ms[i].added \cup {what} /\ \A j \in 1..Len(ms) : j # i => ns[j].added = ms[j].added
  BY <1>2, <1>3
<1> QED
  BY <1>3, <1>4, <1>5 DEF Edited, ns

\* Compression touches what the messages say and nothing the proxy added.
LEMMA CompressFacts ==
  ASSUME NEW ms, Listed(ms), \A i \in 1..Len(ms) : Fields(ms[i])
  PROVE  /\ Edited(ms, I!CompressJSONBlocks(ms))
         /\ \A j \in 1..Len(ms) : I!CompressJSONBlocks(ms)[j].added = ms[j].added
<1> DEFINE ns == I!CompressJSONBlocks(ms)
           m(i) == [ms[i] EXCEPT !.own = @ /\ ms[i].text, !.text = TRUE, !.json = @ \ I!Compressible(ms[i])]
<1>1. Len(ms) \in Nat /\ DOMAIN ms = 1..Len(ms)
  BY ListedFacts
<1>2. \A i \in 1..Len(ms) : ns[i] = ms[i] \/ ns[i] = m(i)
  BY <1>1 DEF I!CompressJSONBlocks
<1>3. ns = [i \in 1..Len(ms) |-> ns[i]]
  BY <1>1 DEF I!CompressJSONBlocks
<1>4. \A i \in 1..Len(ms) : Remains(ms[i], m(i)) /\ m(i).added = ms[i].added
  BY DEF Fields, Remains
<1>5. \A i \in 1..Len(ms) : Remains(ms[i], ms[i])
  BY DEF Remains
<1> HIDE DEF ns, m
<1>6. ns \in Seq({ns[i] : i \in 1..Len(ms)}) /\ Len(ns) = Len(ms)
  BY <1>1, <1>3
<1>7. \A i \in 1..Len(ms) : Remains(ms[i], ns[i]) /\ ns[i].added = ms[i].added
  BY <1>2, <1>4, <1>5
<1> QED
  BY <1>6, <1>7 DEF Edited, Listed, ns

\* The latest user message.
LastUser(ms, i) ==
  i \in 1..Len(ms) /\ ms[i].role = "user" /\ \A j \in 1..Len(ms) : ms[j].role = "user" => j <= i

\* It is the greatest place of a user message.
LEMMA LatestUser ==
  ASSUME NEW ms, Listed(ms), I!Where(ms, "user", I!AnyContent) # {}
  PROVE  LastUser(ms, I!Max(I!Where(ms, "user", I!AnyContent)))
<1> DEFINE U == I!Where(ms, "user", I!AnyContent)
<1>1. U = {i \in 1..Len(ms) : ms[i].role = "user"} /\ U \in SUBSET (0..Len(ms)) /\ Len(ms) \in Nat
  BY WhereFacts, ListedFacts
<1> HIDE DEF U
<1>2. U # {}
  BY DEF U
<1>3. I!Max(U) \in U /\ \A y \in U : y <= I!Max(U)
  BY <1>1, <1>2, MaxOf
<1>4. LastUser(ms, I!Max(U))
  BY <1>1, <1>3 DEF LastUser
<1> QED
  BY <1>4 DEF U

\* The block goes to the latest user message and nowhere else.
GetsContext(ms, ns) ==
  \E i : /\ LastUser(ms, i) /\ ns[i].added = ms[i].added \cup {"context"}
         /\ \A j \in 1..Len(ms) : j # i => ns[j].added = ms[j].added

\* Retrieval adds to the latest user message, or nothing.
LEMMA InjectFacts ==
  ASSUME NEW ms, Listed(ms), \A i \in 1..Len(ms) : Fields(ms[i]), NEW size
  PROVE  \/ I!InjectRAG(ms, size) = ms
         \/ Edited(ms, I!InjectRAG(ms, size)) /\ GetsContext(ms, I!InjectRAG(ms, size))
<1> DEFINE U == I!Where(ms, "user", I!AnyContent)
           ns == I!InjectRAG(ms, size)
<1>1. CASE ns = ms
  BY <1>1
<1>2. CASE ns # ms
  <2>1. PICK i : i = I!Max(U)
    OBVIOUS
  <2>2. U # {} /\ ns = [ms EXCEPT ![i] = [I!With(ms[i], "context") EXCEPT !.size = I!Grown(ms[i], size)]]
    BY <1>2, <2>1, Zenon DEF I!InjectRAG
  <2>3. LastUser(ms, i)
    BY <2>1, <2>2, LatestUser
  <2>4. i \in 1..Len(ms) /\ Listed(ms) /\ Len(ms) \in Nat /\ DOMAIN ms = 1..Len(ms)
    BY <2>3, ListedFacts DEF LastUser
  <2>5. PICK m : m = [I!With(ms[i], "context") EXCEPT !.size = I!Grown(ms[i], size)]
    OBVIOUS
  <2>6. Fields(m) /\ m.from = ms[i].from /\ m.role = ms[i].role /\ m.marks = ms[i].marks
        /\ m.added = ms[i].added \cup {"context"} /\ m.text /\ (ms[i].text /\ ms[i].own => m.own)
    BY <2>4, <2>5 DEF Fields, I!With
  <2>7. ns = [ms EXCEPT ![i] = m]
    BY <2>2, <2>5
  <2> HIDE DEF ns
  <2>8. Listed(ns) /\ Len(ns) = Len(ms)
    BY <2>4, <2>7, ReplacedAt
  <2>9. \A j \in 1..Len(ms) : ns[j] = IF j = i THEN m ELSE ms[j]
    BY <2>4, <2>7
  <2>10. \A j \in 1..Len(ms) : Remains(ms[j], ns[j])
    BY <2>6, <2>9 DEF Remains
  <2>11. ns[i].added = ms[i].added \cup {"context"} /\ \A j \in 1..Len(ms) : j # i => ns[j].added = ms[j].added
    BY <2>4, <2>6, <2>9
  <2> QED
    BY <2>3, <2>8, <2>10, <2>11 DEF Edited, GetsContext, ns
<1> QED
  BY <1>1, <1>2

-----------------------------------------------------------------------------
\* The conversation of a request, for what its client sent.  The client's messages are
\* there in their order, behind at most one of the proxy's.
Fresh(talk) ==
  /\ Listed(talk)
  /\ \A i \in 1..Len(talk) : Fields(talk[i]) /\ talk[i].from = i /\ talk[i].added = {} /\ talk[i].own

Carried(ms, talk) ==
  /\ Listed(ms)
  /\ \/ Len(ms) = Len(talk) /\ \A i \in 1..Len(talk) : Remains(talk[i], ms[i])
     \/ /\ Len(ms) = Len(talk) + 1 /\ Ours(ms[1])
        /\ \A i \in 1..Len(talk) : Remains(talk[i], ms[i + 1])

\* Retrieved context is in the latest user message.
Placed(ms) == \A i \in 1..Len(ms) : "context" \in ms[i].added => LastUser(ms, i)

\* Isolated, the policy leads in a block of its own and no system message of the client
\* is written to but one that imitates the block.
Apart(ms, talk) ==
  I!Isolated =>
    /\ cfg.meta => /\ Len(ms) = Len(talk) + 1
                   /\ "policy" \in ms[1].added /\ {"begin", "end"} \subseteq ms[1].marks
    /\ \A i \in 1..Len(ms) : ms[i].role = "system" =>
         \/ ms[i].from = 0 \/ ms[i].added = {}
         \/ ~cfg.meta /\ "begin" \in ms[i].marks

Sound(ms, talk) == Carried(ms, talk) /\ Placed(ms) /\ Apart(ms, talk)

\* All messages of a conversation that is carried have their fields.
LEMMA CarriedFields ==
  ASSUME NEW ms, NEW talk, Listed(talk), Carried(ms, talk)
  PROVE  /\ \A i \in 1..Len(ms) : Fields(ms[i])
         /\ Len(ms) \in Nat /\ Len(talk) \in Nat /\ Listed(ms)
<1>1. Len(ms) \in Nat /\ Len(talk) \in Nat /\ Listed(ms)
  BY ListedFacts DEF Carried
<1>2. CASE Len(ms) = Len(talk)
  BY <1>1, <1>2 DEF Carried, Remains
<1>3. CASE Len(ms) # Len(talk)
  <2>1. Len(ms) = Len(talk) + 1 /\ Fields(ms[1]) /\ \A i \in 1..Len(talk) : Fields(ms[i + 1])
    BY <1>3 DEF Carried, Remains, Ours
  <2> SUFFICES ASSUME NEW i \in 1..Len(ms), i # 1
               PROVE  Fields(ms[i])
    BY <2>1, <1>1
  <2>2. i - 1 \in 1..Len(talk) /\ (i - 1) + 1 = i
    BY <2>1, <1>1
  <2>3. Fields(ms[(i - 1) + 1])
    BY <2>1, <2>2
  <2> QED
    BY <2>2, <2>3
<1> QED
  BY <1>1, <1>2, <1>3

\* Editing messages in place carries a conversation on.
LEMMA EditedCarries ==
  ASSUME NEW ms, NEW ns, NEW talk, Listed(talk), Carried(ms, talk), Edited(ms, ns)
  PROVE  Carried(ns, talk)
<1>1. /\ Len(ms) \in Nat /\ Len(talk) \in Nat /\ Len(ns) = Len(ms) /\ Listed(ns)
      /\ \A i \in 1..Len(ms) : Remains(ms[i], ns[i])
  BY CarriedFields DEF Edited
<1>2. \A x, y, z : Remains(x, y) /\ Remains(y, z) => Remains(x, z)
  BY DEF Remains
<1>3. CASE Len(ms) = Len(talk)
  BY <1>1, <1>2, <1>3 DEF Carried
<1>4. CASE Len(ms) # Len(talk)
  <2>1. Len(ms) = Len(talk) + 1 /\ Ours(ms[1]) /\ \A i \in 1..Len(talk) : Remains(talk[i], ms[i + 1])
    BY <1>4 DEF Carried
  <2>2. Remains(ms[1], ns[1])
    BY <2>1, <1>1
  <2>3. Ours(ns[1])
    BY <2>1, <2>2 DEF Ours, Remains
  <2>4. \A i \in 1..Len(talk) : Remains(ms[i + 1], ns[i + 1])
    BY <2>1, <1>1
  <2> QED
    BY <2>1, <2>3, <2>4, <1>1, <1>2 DEF Carried
<1> QED
  BY <1>3, <1>4

\* A message of the proxy's may be put in front of the client's.
LEMMA FrontCarries ==
  ASSUME NEW ms, NEW talk, Listed(talk), Carried(ms, talk), Len(ms) = Len(talk), NEW m, Ours(m)
  PROVE  Carried(<<m>> \o ms, talk)
<1>1. Listed(ms) /\ Len(ms) \in Nat /\ \A i \in 1..Len(talk) : Remains(talk[i], ms[i])
  BY CarriedFields DEF Carried
<1>2. /\ Listed(<<m>> \o ms) /\ Len(<<m>> \o ms) = Len(ms) + 1 /\ (<<m>> \o ms)[1] = m
      /\ \A i \in 1..Len(ms) : (<<m>> \o ms)[i + 1] = ms[i]
  BY <1>1, PutInFront
<1> QED
  BY <1>1, <1>2 DEF Carried

\* Editing keeps the context where it was, or puts it into the latest user message.
LEMMA EditedPlaces ==
  ASSUME NEW ms, NEW ns, Listed(ms), Placed(ms), Edited(ms, ns),
         \A i \in 1..Len(ms) : "context" \in ns[i].added => "context" \in ms[i].added \/ LastUser(ms, i)
  PROVE  Placed(ns)
<1>1. Len(ns) = Len(ms) /\ \A i \in 1..Len(ms) : ns[i].role = ms[i].role
  BY DEF Edited, Remains
<1>2. \A i : LastUser(ms, i) => LastUser(ns, i)
  BY <1>1 DEF LastUser
<1> QED
  BY <1>1, <1>2 DEF Placed

\* A system message in front leaves the context in the latest user message.
LEMMA FrontPlaces ==
  ASSUME NEW ms, Listed(ms), Placed(ms), NEW m, m.role = "system", "context" \notin m.added
  PROVE  Placed(<<m>> \o ms)
<1> DEFINE ns == <<m>> \o ms
<1>1. /\ Len(ns) = Len(ms) + 1 /\ ns[1] = m /\ Len(ms) \in Nat
      /\ \A i \in 1..Len(ms) : ns[i + 1] = ms[i]
  BY PutInFront, ListedFacts
<1> HIDE DEF ns
<1>2. \A k \in 1..Len(ns) : k = 1 \/ (k - 1 \in 1..Len(ms) /\ ns[k] = ms[k - 1])
  <2> SUFFICES ASSUME NEW k \in 1..Len(ns), k # 1
               PROVE  k - 1 \in 1..Len(ms) /\ ns[k] = ms[k - 1]
    OBVIOUS
  <2>1. k - 1 \in 1..Len(ms) /\ (k - 1) + 1 = k
    BY <1>1
  <2>2. ns[(k - 1) + 1] = ms[k - 1]
    BY <2>1, <1>1
  <2> QED
    BY <2>1, <2>2
<1>3. SUFFICES ASSUME NEW i \in 1..Len(ns), "context" \in ns[i].added
               PROVE  LastUser(ns, i)
  BY DEF Placed, ns
<1>4. i # 1 /\ i - 1 \in 1..Len(ms) /\ ns[i] = ms[i - 1]
  BY <1>1, <1>2, <1>3
<1>5. LastUser(ms, i - 1)
  BY <1>3, <1>4 DEF Placed
<1>6. ASSUME NEW j \in 1..Len(ns), ns[j].role = "user"
      PROVE  j <= i
  <2>1. j # 1
    BY <1>1, <1>6
  <2>2. j - 1 \in 1..Len(ms) /\ ns[j] = ms[j - 1]
    BY <2>1, <1>2
  <2>3. j - 1 <= i - 1
    BY <2>2, <1>5, <1>6 DEF LastUser
  <2> QED
    BY <2>3, <1>1
<1> QED
  BY <1>4, <1>5, <1>6 DEF LastUser

\* Editing that spares the client's system messages keeps them apart.
LEMMA EditedApart ==
  ASSUME NEW ms, NEW ns, NEW talk, Listed(ms), Len(ms) \in Nat, Len(talk) \in Nat,
         Apart(ms, talk), Edited(ms, ns),
         \A i \in 1..Len(ms) : ms[i].added \subseteq ns[i].added,
         I!Isolated => \A i \in 1..Len(ms) : ms[i].role = "system" =>
           \/ ns[i].added = ms[i].added \/ ms[i].from = 0
           \/ ~cfg.meta /\ "begin" \in ms[i].marks
  PROVE  Apart(ns, talk)
<1>1. /\ Len(ns) = Len(ms)
      /\ \A i \in 1..Len(ms) : ns[i].role = ms[i].role /\ ns[i].from = ms[i].from /\ ns[i].marks = ms[i].marks
  BY DEF Edited, Remains
<1> SUFFICES ASSUME I!Isolated
             PROVE  /\ cfg.meta => /\ Len(ns) = Len(talk) + 1
                                   /\ "policy" \in ns[1].added /\ {"begin", "end"} \subseteq ns[1].marks
                    /\ \A i \in 1..Len(ns) : ns[i].role = "system" =>
                         \/ ns[i].from = 0 \/ ns[i].added = {}
                         \/ ~cfg.meta /\ "begin" \in ns[i].marks
  BY DEF Apart
<1>2. cfg.meta => /\ Len(ns) = Len(talk) + 1
                  /\ "policy" \in ns[1].added /\ {"begin", "end"} \subseteq ns[1].marks
  BY <1>1 DEF Apart
<1>3. \A i \in 1..Len(ns) : ns[i].role = "system" =>
         \/ ns[i].from = 0 \/ ns[i].added = {}
         \/ ~cfg.meta /\ "begin" \in ns[i].marks
  BY <1>1 DEF Apart
<1> QED
  BY <1>2, <1>3

\* Something other than context written into a system message.
LEMMA ExtendedSound ==
  ASSUME NEW ms, NEW talk, Listed(talk), Sound(ms, talk), NEW i \in 1..Len(ms), NEW what, what # "context",
         I!Isolated => ms[i].from = 0 \/ (~cfg.meta /\ "begin" \in ms[i].marks)
  PROVE  Sound(I!Extended(ms, i, what), talk)
<1> DEFINE ns == I!Extended(ms, i, what)
<1>1. Carried(ms, talk) /\ Placed(ms) /\ Apart(ms, talk)
  BY DEF Sound
<1>2. (\A j \in 1..Len(ms) : Fields(ms[j])) /\ Len(ms) \in Nat /\ Len(talk) \in Nat /\ Listed(ms)
  BY <1>1, CarriedFields
<1>3. /\ Edited(ms, ns) /\ ns[i].added = ms[i].added \cup {what}
      /\ \A j \in 1..Len(ms) : j # i => ns[j].added = ms[j].added
  BY <1>2, ExtendedFacts
<1> HIDE DEF ns
<1>4. Carried(ns, talk)
  BY <1>1, <1>3, EditedCarries
<1>5. \A j \in 1..Len(ms) : "context" \in ns[j].added => "context" \in ms[j].added
  BY <1>3
<1>6. Placed(ns)
  BY <1>1, <1>2, <1>3, <1>5, EditedPlaces
<1>7. \A j \in 1..Len(ms) : ms[j].added \subseteq ns[j].added /\ (j = i \/ ns[j].added = ms[j].added)
  BY <1>3
<1>8. Apart(ns, talk)
  BY <1>1, <1>2, <1>3, <1>7, EditedApart
<1> QED
  BY <1>4, <1>6, <1>8 DEF Sound, ns

\* A message of the proxy's put in front of a conversation that has none.
LEMMA FrontSound ==
  ASSUME NEW ms, NEW talk, Listed(talk), Sound(ms, talk), Len(ms) = Len(talk), NEW m, Ours(m),
         "context" \notin m.added, I!Isolated => ~cfg.meta
  PROVE  Sound(<<m>> \o ms, talk)
<1> DEFINE ns == <<m>> \o ms
<1>1. Carried(ms, talk) /\ Placed(ms) /\ Apart(ms, talk)
  BY DEF Sound
<1>2. Len(ms) \in Nat /\ Len(talk) \in Nat /\ Listed(ms)
  BY <1>1, CarriedFields
<1>3. Carried(ns, talk)
  BY <1>1, FrontCarries
<1>4. Placed(ns)
  BY <1>1, <1>2, FrontPlaces DEF Ours
<1>5. /\ Len(ns) = Len(ms) + 1 /\ ns[1] = m /\ \A i \in 1..Len(ms) : ns[i + 1] = ms[i]
  BY <1>2, PutInFront
<1> HIDE DEF ns
<1>6. ASSUME I!Isolated, NEW i \in 1..Len(ns), ns[i].role = "system"
      PROVE  ns[i].from = 0 \/ ns[i].added = {} \/ (~cfg.meta /\ "begin" \in ns[i].marks)
  <2>1. CASE i = 1
    BY <2>1, <1>5 DEF Ours
  <2>2. CASE i # 1
    <3>1. i - 1 \in 1..Len(ms) /\ (i - 1) + 1 = i
      BY <2>2, <1>2, <1>5
    <3>2. ns[i] = ms[i - 1]
      BY <3>1, <1>5
    <3> QED
      BY <3>1, <3>2, <1>1, <1>6 DEF Apart
  <2> QED
    BY <2>1, <2>2
<1>7. Apart(ns, talk)
  BY <1>6 DEF Apart
<1> QED
  BY <1>3, <1>4, <1>7 DEF Sound, ns

\* What the proxy writes of its own.
LEMMA NoteFacts ==
  ASSUME NEW what
  PROVE  /\ Ours(I!Note(what)) /\ I!Note(what).added = {what}
         /\ Ours([I!Note(what) EXCEPT !.marks = {"begin", "end"}])
         /\ [I!Note(what) EXCEPT !.marks = {"begin", "end"}].added = {what}
         /\ [I!Note(what) EXCEPT !.marks = {"begin", "end"}].marks = {"begin", "end"}
BY DEF I!Note, Ours, Fields, I!NoWords

\* What a client sent is a sound conversation of its own, unless a policy is due.
LEMMA FreshSound ==
  ASSUME NEW talk, Fresh(talk)
  PROVE  Carried(talk, talk) /\ Placed(talk) /\ (~(I!Isolated /\ cfg.meta) => Sound(talk, talk))
<1>1. Listed(talk) /\ \A i \in 1..Len(talk) : Remains(talk[i], talk[i])
  BY DEF Fresh, Remains
<1>2. Carried(talk, talk) /\ Placed(talk)
  BY <1>1 DEF Carried, Placed, Fresh
<1>3. ~(I!Isolated /\ cfg.meta) => Apart(talk, talk)
  BY DEF Apart, Fresh
<1> QED
  BY <1>2, <1>3 DEF Sound

\* Prompt engineering makes a sound conversation of what a client sent.
LEMMA EngineerSound ==
  ASSUME NEW talk, Fresh(talk), NEW ns,
         ns = IF I!Isolated THEN I!ApplyPromptEngineeringIsolated(talk) ELSE I!ApplyPromptEngineering(talk)
  PROVE  Sound(ns, talk) /\ (~cfg.meta => Len(ns) = Len(talk))
<1>1. Listed(talk) /\ Carried(talk, talk) /\ Placed(talk)
  BY FreshSound DEF Fresh
<1>2. CASE ~cfg.meta
  <2>1. ns = talk
    BY <1>2 DEF I!ApplyPromptEngineeringIsolated, I!ApplyPromptEngineering
  <2> QED
    BY <2>1, <1>2, FreshSound
<1>3. CASE cfg.meta /\ I!Isolated
  <2>1. PICK m : m = [I!Note("policy") EXCEPT !.marks = {"begin", "end"}]
    OBVIOUS
  <2>2. ns = <<m>> \o talk
    BY <2>1, <1>3 DEF I!ApplyPromptEngineeringIsolated
  <2>3. Ours(m) /\ m.added = {"policy"} /\ m.marks = {"begin", "end"}
    BY <2>1, NoteFacts
  <2>4. Carried(ns, talk)
    BY <2>2, <2>3, <1>1, FrontCarries
  <2>5. Placed(ns)
    <3>1. m.role = "system" /\ "context" \notin m.added
      BY <2>3 DEF Ours
    <3> QED
      BY <3>1, <2>2, <1>1, FrontPlaces
  <2>6. Len(ns) = Len(talk) + 1 /\ ns[1] = m /\ Len(talk) \in Nat /\ \A i \in 1..Len(talk) : ns[i + 1] = talk[i]
    BY <2>2, <1>1, PutInFront, ListedFacts
  <2>7. ASSUME NEW i \in 1..Len(ns)
        PROVE  ns[i].from = 0 \/ ns[i].added = {}
    <3>1. CASE i = 1
      BY <3>1, <2>3, <2>6 DEF Ours
    <3>2. CASE i # 1
      <4>1. i - 1 \in 1..Len(talk) /\ (i - 1) + 1 = i
        BY <3>2, <2>6
      <4>2. ns[i] = talk[i - 1]
        BY <4>1, <2>6
      <4> QED
        BY <4>1, <4>2 DEF Fresh
    <3> QED
      BY <3>1, <3>2
  <2>8. Apart(ns, talk)
    BY <2>3, <2>6, <2>7 DEF Apart
  <2> QED
    BY <2>4, <2>5, <2>8, <1>3 DEF Sound
<1>4. CASE cfg.meta /\ ~I!Isolated
  <2> DEFINE W == I!Where(talk, "system", I!AnyContent)
  <2>1. Sound(talk, talk)
    BY <1>4, FreshSound
  <2>2. CASE W = {}
    <3>1. ns = <<I!Note("policy")>> \o talk
      BY <2>2, <1>4 DEF I!ApplyPromptEngineering
    <3>2. Ours(I!Note("policy")) /\ I!Note("policy").added = {"policy"}
      BY NoteFacts
    <3> QED
      BY <3>1, <3>2, <2>1, <1>1, <1>4, FrontSound
  <2>3. CASE W # {}
    <3>1. PICK i : i = I!Min(W)
      OBVIOUS
    <3>2. ns = I!Extended(talk, i, "policy")
      BY <3>1, <2>3, <1>4 DEF I!ApplyPromptEngineering
    <3>3. W = {j \in 1..Len(talk) : talk[j].role = "system"} /\ W \in SUBSET Nat
      BY <1>1, WhereFacts
    <3>4. i \in 1..Len(talk)
      BY <3>1, <3>3, <2>3, MinOf
    <3> QED
      BY <3>2, <3>4, <2>1, <1>1, <1>4, ExtendedSound
  <2> QED
    BY <2>2, <2>3
<1> QED
  BY <1>2, <1>3, <1>4

\* Injecting the retrieved block keeps a conversation sound.
LEMMA InjectSound ==
  ASSUME NEW ms, NEW talk, Listed(talk), Sound(ms, talk), NEW size
  PROVE  Sound(I!InjectRAG(ms, size), talk) /\ Len(I!InjectRAG(ms, size)) = Len(ms)
<1> DEFINE ns == I!InjectRAG(ms, size)
<1>1. Carried(ms, talk) /\ Placed(ms) /\ Apart(ms, talk)
  BY DEF Sound
<1>2. (\A i \in 1..Len(ms) : Fields(ms[i])) /\ Len(ms) \in Nat /\ Len(talk) \in Nat /\ Listed(ms)
  BY <1>1, CarriedFields
<1>3. CASE ns = ms
  BY <1>3
<1>4. CASE ns # ms
  <2>1. Edited(ms, ns) /\ GetsContext(ms, ns)
    BY <1>2, <1>4, InjectFacts
  <2>2. PICK i : /\ LastUser(ms, i) /\ ns[i].added = ms[i].added \cup {"context"}
                 /\ \A j \in 1..Len(ms) : j # i => ns[j].added = ms[j].added
    BY <2>1 DEF GetsContext
  <2> HIDE DEF ns
  <2>3. Carried(ns, talk)
    BY <2>1, <1>1, EditedCarries
  <2>4. \A j \in 1..Len(ms) : "context" \in ns[j].added => "context" \in ms[j].added \/ LastUser(ms, j)
    BY <2>2
  <2>5. Placed(ns)
    BY <2>1, <2>4, <1>1, <1>2, EditedPlaces
  <2>6. \A j \in 1..Len(ms) : /\ ms[j].added \subseteq ns[j].added
                              /\ ms[j].role = "system" => ns[j].added = ms[j].added
    BY <2>2 DEF LastUser
  <2>7. Apart(ns, talk)
    BY <2>1, <2>6, <1>1, <1>2, EditedApart
  <2>8. Len(ns) = Len(ms)
    BY <2>1 DEF Edited
  <2> QED
    BY <2>3, <2>5, <2>7, <2>8 DEF Sound, ns
<1> QED
  BY <1>3, <1>4

\* So does compressing its JSON.
LEMMA BlocksSound ==
  ASSUME NEW ms, NEW talk, Listed(talk), Sound(ms, talk)
  PROVE  Sound(I!CompressJSONBlocks(ms), talk) /\ Len(I!CompressJSONBlocks(ms)) = Len(ms)
<1> DEFINE ns == I!CompressJSONBlocks(ms)
<1>1. Carried(ms, talk) /\ Placed(ms) /\ Apart(ms, talk)
  BY DEF Sound
<1>2. (\A i \in 1..Len(ms) : Fields(ms[i])) /\ Len(ms) \in Nat /\ Len(talk) \in Nat /\ Listed(ms)
  BY <1>1, CarriedFields
<1>3. Edited(ms, ns) /\ \A j \in 1..Len(ms) : ns[j].added = ms[j].added
  BY <1>2, CompressFacts
<1> HIDE DEF ns
<1>4. Carried(ns, talk)
  BY <1>1, <1>3, EditedCarries
<1>5. Placed(ns)
  BY <1>1, <1>2, <1>3, EditedPlaces
<1>6. \A j \in 1..Len(ms) : ms[j].added \subseteq ns[j].added
  BY <1>3
<1>7. Apart(ns, talk)
  BY <1>1, <1>2, <1>3, <1>6, EditedApart
<1>8. Len(ns) = Len(ms)
  BY <1>3 DEF Edited
<1> QED
  BY <1>4, <1>5, <1>7, <1>8 DEF Sound, ns

\* A conversation that is longer than the client's begins with a message of the proxy's.
LEMMA LongerIsOurs ==
  ASSUME NEW ms, NEW talk, Listed(talk), Sound(ms, talk), Len(ms) # Len(talk)
  PROVE  /\ Len(ms) = Len(talk) + 1 /\ 1 \in 1..Len(ms)
         /\ ms[1].role = "system" /\ ms[1].text /\ ms[1].from = 0
<1>1. Len(ms) = Len(talk) + 1 /\ Ours(ms[1])
  BY DEF Sound, Carried
<1> QED
  BY <1>1, ListedFacts DEF Ours

\* So does the notice that tells the model of it.
LEMMA CompressedSound ==
  ASSUME NEW ms, NEW talk, Listed(talk), Sound(ms, talk), ~cfg.meta => Len(ms) = Len(talk)
  PROVE  Sound(I!Compressed(ms), talk)
<1>1. PICK c : c = I!CompressJSONBlocks(ms)
  OBVIOUS
<1>2. Sound(c, talk) /\ Len(c) = Len(ms)
  BY <1>1, BlocksSound
<1>3. Listed(c) /\ Len(c) \in Nat /\ DOMAIN c = 1..Len(c)
  BY <1>2, ListedFacts DEF Sound, Carried
<1>4. CASE I!Compressed(ms) = ms
  BY <1>4
<1>5. CASE I!Isolated /\ I!Compressed(ms) = I!AppendSystemNoteIsolated(c)
  <2> DEFINE P == I!Where(c, "system", LAMBDA m : m.text /\ "begin" \in m.marks)
  <2>1. P = {i \in 1..Len(c) : c[i].role = "system" /\ c[i].text /\ "begin" \in c[i].marks}
    BY <1>3 DEF I!Where
  <2>2. cfg.meta => 1 \in P /\ c[1].from = 0
    <3> SUFFICES ASSUME cfg.meta
                 PROVE  1 \in P /\ c[1].from = 0
      OBVIOUS
    <3>1. Len(c) = Len(talk) + 1 /\ "begin" \in c[1].marks
      BY <1>2, <1>5 DEF Sound, Apart
    <3>2. Len(c) # Len(talk)
      BY <3>1, ListedFacts
    <3> QED
      BY <3>1, <3>2, <2>1, <1>2, LongerIsOurs
  <2>3. CASE P = {}
    <3>1. PICK m : m = [I!Note("notice") EXCEPT !.marks = {"begin", "end"}]
      OBVIOUS
    <3>2. I!Compressed(ms) = <<m>> \o c
      BY <3>1, <2>3, <1>5 DEF I!AppendSystemNoteIsolated
    <3>3. Ours(m) /\ m.added = {"notice"}
      BY <3>1, NoteFacts
    <3>4. "context" \notin m.added /\ ~cfg.meta /\ Len(c) = Len(talk)
      BY <3>3, <2>2, <2>3, <1>2
    <3> QED
      BY <3>2, <3>3, <3>4, <1>2, FrontSound
  <2>4. CASE P # {}
    <3>1. PICK i : i = I!Min(P)
      OBVIOUS
    <3>2. I!Compressed(ms) = c \/ I!Compressed(ms) = I!Extended(c, i, "notice")
      BY <3>1, <2>4, <1>5 DEF I!AppendSystemNoteIsolated
    <3> HIDE DEF P
    <3>3. P \in SUBSET Nat
      BY <2>1, <1>3
    <3>4. i \in P /\ \A j \in P : i <= j
      BY <3>1, <3>3, <2>4, MinOf
    <3>5. i \in 1..Len(c) /\ "begin" \in c[i].marks
      BY <3>4, <2>1
    <3>6. c[i].from = 0 \/ (~cfg.meta /\ "begin" \in c[i].marks)
      BY <3>4, <3>5, <2>1, <2>2
    <3>7. Sound(I!Extended(c, i, "notice"), talk)
      BY <3>5, <3>6, <1>2, ExtendedSound
    <3> QED
      BY <3>2, <3>7, <1>2
  <2> QED
    BY <2>3, <2>4
<1>6. CASE ~I!Isolated /\ I!Compressed(ms) = I!AppendSystemNote(c)
  <2> DEFINE W == I!Where(c, "system", I!AnyContent)
  <2>1. W = {i \in 1..Len(c) : c[i].role = "system"} /\ W \in SUBSET Nat
    BY <1>3, WhereFacts
  <2>2. CASE W = {}
    <3>1. Len(c) = Len(talk)
      BY <2>1, <2>2, <1>2, LongerIsOurs
    <3>2. I!Compressed(ms) = <<I!Note("notice")>> \o c
      BY <2>2, <1>6 DEF I!AppendSystemNote
    <3>3. Ours(I!Note("notice")) /\ I!Note("notice").added = {"notice"}
      BY NoteFacts
    <3> QED
      BY <3>1, <3>2, <3>3, <1>2, <1>6, FrontSound
  <2>3. CASE W # {}
    <3>1. PICK i : i = I!Min(W)
      OBVIOUS
    <3>2. I!Compressed(ms) = I!Extended(c, i, "notice")
      BY <3>1, <2>3, <1>6 DEF I!AppendSystemNote
    <3>3. i \in 1..Len(c)
      BY <3>1, <2>1, <2>3, MinOf
    <3> QED
      BY <3>2, <3>3, <1>2, <1>6, ExtendedSound
  <2> QED
    BY <2>2, <2>3
<1> QED
  BY <1>1, <1>4, <1>5, <1>6 DEF I!Compressed

\* The greater of nothing and a number.
LEMMA AtLeastZero ==
  ASSUME NEW k \in Nat
  PROVE  I!Max({0, k}) = k
<1>1. I!Max({0, k}) \in {0, k} /\ \A y \in {0, k} : y <= I!Max({0, k})
  BY MaxOf
<1> QED
  BY <1>1

\* What a planned request must satisfy, apart from what the planner is told.
Delivered(ms, talk, extra) ==
  /\ extra \in {0, 1} /\ \A i \in DOMAIN ms : ms[i].from = I!Max({0, i - extra})
  /\ \A i \in 1..Len(talk) : talk[i].text => ms[i + extra].text /\ ms[i + extra].own
  /\ \A i \in DOMAIN ms : "context" \in ms[i].added => i = I!Latest(ms)
  /\ I!Isolated =>
       /\ cfg.meta => extra = 1 /\ "policy" \in ms[1].added
       /\ \A i \in I!Where(ms, "system", I!AnyContent) :
            ms[i].from = 0 \/ ms[i].added = {} \/ (~cfg.meta /\ "begin" \in ms[i].marks)

\* A conversation that is sound satisfies it.
LEMMA SoundIsKept ==
  ASSUME NEW ms, NEW talk, Fresh(talk), Sound(ms, talk), NEW extra, extra = Len(ms) - Len(talk)
  PROVE  Delivered(ms, talk, extra)
<1>1. Listed(talk) /\ Listed(ms) /\ Len(ms) \in Nat /\ Len(talk) \in Nat /\ DOMAIN ms = 1..Len(ms)
  BY ListedFacts DEF Fresh, Sound, Carried
<1>2. \A i \in 1..Len(talk) : talk[i].from = i /\ talk[i].own
  BY DEF Fresh
<1>3. /\ extra \in {0, 1} /\ Len(ms) = Len(talk) + extra
  BY <1>1 DEF Sound, Carried
<1>4. /\ extra = 1 => Ours(ms[1])
      /\ \A i \in 1..Len(talk) : Remains(talk[i], ms[i + extra])
  <2>1. CASE extra = 0
    <3>1. Len(ms) = Len(talk) /\ \A i \in 1..Len(talk) : i + extra = i
      BY <2>1, <1>1, <1>3
    <3>a. \A k \in Nat : k # k + 1
      OBVIOUS
    <3>2. Len(ms) # Len(talk) + 1
      BY <3>a, <3>1, <1>1, Zenon
    <3>3. \A i \in 1..Len(talk) : Remains(talk[i], ms[i])
      BY <3>2, Zenon DEF Sound, Carried
    <3> QED
      BY <3>1, <3>3, <2>1
  <2>2. CASE extra = 1
    BY <2>2, <1>1, <1>3 DEF Sound, Carried
  <2> QED
    BY <2>1, <2>2, <1>3
<1>5. ASSUME NEW i \in 1..Len(ms)
      PROVE  ms[i].from = I!Max({0, i - extra})
  <2>1. i - extra \in Nat
    BY <1>1, <1>3
  <2>2. I!Max({0, i - extra}) = i - extra
    BY <2>1, AtLeastZero
  <2>3. CASE i - extra = 0
    <3>1. i = 1 /\ extra = 1
      BY <2>3, <1>1, <1>3
    <3> QED
      BY <3>1, <2>2, <2>3, <1>4 DEF Ours
  <2>4. CASE i - extra # 0
    <3>1. i - extra \in 1..Len(talk) /\ (i - extra) + extra = i
      BY <2>1, <2>4, <1>1, <1>3
    <3>2. Remains(talk[i - extra], ms[(i - extra) + extra])
      BY <3>1, <1>4
    <3> QED
      BY <3>1, <3>2, <2>2, <1>2 DEF Remains
  <2> QED
    BY <2>3, <2>4
<1>6. \A i \in 1..Len(talk) : talk[i].text => ms[i + extra].text /\ ms[i + extra].own
  BY <1>2, <1>4 DEF Remains
<1>7. ASSUME NEW i \in 1..Len(ms), "context" \in ms[i].added
      PROVE  i = I!Latest(ms)
  <2>1. LastUser(ms, i)
    BY <1>7 DEF Sound, Placed
  <2> DEFINE U == I!Where(ms, "user", I!AnyContent)
  <2>2. U = {j \in 1..Len(ms) : ms[j].role = "user"} /\ U \in SUBSET (0..Len(ms))
    BY <1>1, WhereFacts
  <2> HIDE DEF U
  <2>3. i \in U /\ \A j \in U : j <= i
    BY <2>1, <2>2 DEF LastUser
  <2>4. {0} \cup U \in SUBSET (0..Len(ms)) /\ {0} \cup U # {}
    BY <2>2, <1>1
  <2>5. I!Max({0} \cup U) \in {0} \cup U /\ \A j \in {0} \cup U : j <= I!Max({0} \cup U)
    BY <2>4, <1>1, MaxOf
  <2>6. I!Max({0} \cup U) = i
    BY <2>2, <2>3, <2>5, <1>1
  <2> QED
    BY <2>6 DEF I!Latest, U
<1>8. I!Isolated =>
        /\ cfg.meta => extra = 1 /\ "policy" \in ms[1].added
        /\ \A i \in I!Where(ms, "system", I!AnyContent) :
             ms[i].from = 0 \/ ms[i].added = {} \/ (~cfg.meta /\ "begin" \in ms[i].marks)
  BY <1>1, WhereFacts DEF Sound, Apart
<1> QED
  BY <1>1, <1>3, <1>5, <1>6, <1>7, <1>8 DEF Delivered

\* The greater of one and a number.
LEMMA AtLeastOne ==
  ASSUME NEW k \in Int
  PROVE  I!Max({1, k}) \in Int /\ I!Max({1, k}) >= 1
<1> DEFINE T == {1, k}
<1>1. \E x \in T : \A y \in T : x >= y
  OBVIOUS
<1> HIDE DEF T
<1>2. I!Max(T) \in T /\ \A y \in T : I!Max(T) >= y
  BY <1>1, Zenon DEF I!Max
<1> QED
  BY <1>2 DEF T

\* The planner is told the prompt as context only where an earlier message stands in
\* for a latest user message that has no string.
LEMMA PromptToldOnce ==
  ASSUME NEW ms, NEW talk, Fresh(talk), Sound(ms, talk), NEW extra, extra = Len(ms) - Len(talk),
         I!Prompt(ms) \in I!Context(ms)
  PROVE  ~talk[I!Latest(ms) - extra].text
<1> DEFINE U == I!Where(ms, "user", I!AnyContent)
           V == I!Where(ms, "user", LAMBDA m : m.text)
           end == IF U = {} THEN Len(ms) + 1 ELSE I!Max(U)
<1>1. Listed(ms) /\ Len(ms) \in Nat /\ Len(talk) \in Nat /\ DOMAIN ms = 1..Len(ms)
  BY ListedFacts DEF Fresh, Sound, Carried
<1>2. U = {i \in 1..Len(ms) : ms[i].role = "user"} /\ U \in SUBSET (0..Len(ms))
  BY <1>1, WhereFacts
<1>3. V = {i \in 1..Len(ms) : ms[i].role = "user" /\ ms[i].text}
  BY <1>1 DEF I!Where
<1>4. I!Prompt(ms) = IF V = {} THEN 0 ELSE I!Max(V)
  BY DEF I!Prompt
<1>5. I!Prompt(ms) \in I!Max({1, end - Turns})..(end - 1)
  BY DEF I!Context
<1>6. I!Latest(ms) = I!Max({0} \cup U)
  BY DEF I!Latest
<1> HIDE DEF U, V
<1>7. end \in Int
  <2>1. CASE U = {}
    BY <2>1, <1>1
  <2>2. CASE U # {}
    <3>1. I!Max(U) \in U
      BY <2>2, <1>1, <1>2, MaxOf, Zenon
    <3>2. I!Max(U) \in Int
      BY <3>1, <1>1, <1>2
    <3> QED
      BY <3>2, <2>2
  <2> QED
    BY <2>1, <2>2
<1>8. I!Max({1, end - Turns}) \in Int /\ I!Max({1, end - Turns}) >= 1
  <2>1. end - Turns \in Int
    BY <1>7, AdmissionAssumption
  <2> QED
    BY <2>1, AtLeastOne
<1>9. I!Prompt(ms) \in Int /\ 1 <= I!Prompt(ms) /\ I!Prompt(ms) < end
  BY <1>5, <1>7, <1>8
<1>10. V # {} /\ V \in SUBSET (0..Len(ms)) /\ V \subseteq U
  BY <1>2, <1>3, <1>4, <1>9
<1>11. I!Prompt(ms) = I!Max(V) /\ \A y \in V : y <= I!Max(V)
  BY <1>1, <1>4, <1>10, MaxOf
<1>12. U # {} /\ end = I!Max(U) /\ I!Max(U) \in U /\ \A y \in U : y <= I!Max(U)
  BY <1>1, <1>2, <1>10, MaxOf
<1>13. I!Max(U) \notin V
  BY <1>2, <1>9, <1>11, <1>12
<1>14. I!Max(U) \in 1..Len(ms) /\ ms[I!Max(U)].role = "user" /\ ~ms[I!Max(U)].text
  BY <1>2, <1>3, <1>12, <1>13
<1>15. I!Latest(ms) = I!Max(U)
  <2>1. {0} \cup U \in SUBSET (0..Len(ms)) /\ {0} \cup U # {}
    BY <1>1, <1>2
  <2>2. I!Max({0} \cup U) \in {0} \cup U /\ \A y \in {0} \cup U : y <= I!Max({0} \cup U)
    BY <2>1, <1>1, MaxOf
  <2> QED
    BY <2>2, <1>1, <1>2, <1>6, <1>12
<1>16. extra \in {0, 1} /\ \A i \in 1..Len(talk) : talk[i].text => ms[i + extra].text
  BY SoundIsKept DEF Delivered
<1>17. I!Max(U) - extra \in 1..Len(talk) /\ (I!Max(U) - extra) + extra = I!Max(U)
  <2>1. CASE extra = 0
    BY <2>1, <1>1, <1>14
  <2>2. CASE extra = 1
    <3>1. Len(ms) = Len(talk) + 1 /\ Len(ms) # Len(talk)
      BY <2>2, <1>1
    <3>2. ms[1].role = "system"
      BY <3>1, LongerIsOurs DEF Fresh
    <3>3. I!Max(U) # 1
      BY <3>2, <1>14
    <3> QED
      BY <3>1, <3>3, <2>2, <1>1, <1>14
  <2> QED
    BY <2>1, <2>2, <1>16
<1>18. talk[I!Max(U) - extra].text => ms[(I!Max(U) - extra) + extra].text
  BY <1>16, <1>17
<1> QED
  BY <1>14, <1>15, <1>17, <1>18

-----------------------------------------------------------------------------
\* What a client can send: numbered messages of its own, nothing of the proxy's in them.
Shape(m) == Fields(m) /\ m.added = {} /\ m.own

\* The messages clients are given to send are of that shape.
LEMMA ClientShapes ==
  /\ \A m \in Shapes : Shape(m)
  /\ Shape(Plain)
<1>1. \A role, says, size, json, marks : Shape(Msg(role, says, size, json, marks))
  BY DEF Msg, Shape, Fields
<1> QED
  BY <1>1 DEF Shapes, Plain

\* Numbered, a list of them is a fresh conversation.
LEMMA NumberedFresh ==
  ASSUME NEW n \in Nat, NEW t \in [1..n -> {m : m \in Shapes \cup {Plain}}]
  PROVE  Fresh(Numbered(t))
<1> DEFINE ns == Numbered(t)
<1>1. DOMAIN t = 1..n /\ \A i \in 1..n : Shape(t[i])
  BY ClientShapes
<1>2. ns = [i \in 1..n |-> [t[i] EXCEPT !.from = i]]
  BY <1>1 DEF Numbered
<1>3. \A i \in 1..n : LET m == [t[i] EXCEPT !.from = i]
                      IN  Fields(m) /\ m.from = i /\ m.added = {} /\ m.own
  BY <1>1 DEF Shape, Fields
<1> HIDE DEF ns
<1>4. \A i \in 1..n : Fields(ns[i]) /\ ns[i].from = i /\ ns[i].added = {} /\ ns[i].own
  BY <1>2, <1>3
<1>5. ns \in Seq({ns[i] : i \in 1..n}) /\ Len(ns) = n
  BY <1>2
<1> QED
  BY <1>4, <1>5 DEF Fresh, Listed, ns

\* So is all the traffic there is.
LEMMA TrafficFresh ==
  ASSUME NEW f \in Mixed, NEW r \in Requests
  PROVE  Fresh(f[r].talk)
<1> DEFINE T == {m : m \in Shapes \cup {Plain}}
<1>1. \A n \in Nat : \A t \in [1..n -> T] : \A model : Fresh(Chat(t, model).talk)
  BY NumberedFresh DEF Chat
<1>2. <<Plain>> \in [1..1 -> T]
  OBVIOUS
<1>3. ASSUME NEW q \in Asks
      PROVE  Fresh(q.talk)
  <2>1. CASE q \in {Chat(talk, "none") : talk \in SeqOf(Shapes, 2)}
    <3>1. PICK talk \in SeqOf(Shapes, 2) : q = Chat(talk, "none")
      BY <2>1
    <3>2. PICK n \in 0..2 : talk \in [1..n -> Shapes]
      BY <3>1 DEF SeqOf
    <3>3. n \in Nat /\ talk \in [1..n -> T]
      BY <3>2
    <3> QED
      BY <3>1, <3>3, <1>1
  <2>2. CASE \E m \in Shapes, n \in Shapes : q = Chat(<<m, Plain, n>>, "none")
    <3>1. PICK m \in Shapes, n \in Shapes : q = Chat(<<m, Plain, n>>, "none")
      BY <2>2
    <3>2. <<m, Plain, n>> \in [1..3 -> T]
      OBVIOUS
    <3> QED
      BY <3>1, <3>2, <1>1
  <2>3. CASE \E model : q = Chat(<<Plain>>, model)
    BY <2>3, <1>1, <1>2
  <2>4. CASE \E k : q = [kind |-> k, talk |-> <<>>, model |-> "none"]
    <3>1. q.talk = <<>>
      BY <2>4
    <3>2. <<>> \in Seq({}) /\ Len(<<>>) = 0
      OBVIOUS
    <3> QED
      BY <3>1, <3>2 DEF Fresh, Listed
  <2> QED
    BY <2>1, <2>2, <2>3, <2>4 DEF Asks
<1>4. Fresh(Chat(<<Plain>>, "none").talk)
  BY <1>1, <1>2
<1> QED
  BY <1>3, <1>4 DEF Mixed

-----------------------------------------------------------------------------
\* Where a request's handler stands, and what its conversation is by then.
Progress(st, ms, talk, p) ==
  /\ st = "new" => ms = talk
  /\ st \in {"retrieve", "count"} => Sound(ms, talk) /\ (~cfg.meta => Len(ms) = Len(talk))
  /\ st = "planned" => Sound(ms, talk) /\ p.prompt = I!Prompt(ms) /\ p.context = I!Context(ms)

IntakeInv ==
  /\ DOMAIN stage = Requests /\ DOMAIN msgs = Requests /\ DOMAIN plan = Requests
  /\ \A r \in Requests : /\ Fresh(asked[r].talk)
                         /\ Progress(stage[r], msgs[r], asked[r].talk, plan[r])

\* The conversation of one request becomes another, and no other conversation does.
Becomes(r, ms) ==
  DOMAIN msgs' = Requests /\ msgs'[r] = ms /\ \A q \in Requests : q # r => msgs'[q] = msgs[q]

\* A request moves on and the others stay where they are.
LEMMA OneMoves ==
  ASSUME IntakeInv, NEW r \in Requests, NEW st, NEW ms,
         stage' = [stage EXCEPT ![r] = st], Becomes(r, ms), UNCHANGED <<cfg, asked>>, DOMAIN plan' = Requests, \A q \in Requests : q # r => plan'[q] = plan[q],
         Progress(st, ms, asked[r].talk, plan'[r])
  PROVE  IntakeInv'
<1>1. /\ stage'[r] = st /\ msgs'[r] = ms
      /\ \A q \in Requests : q # r => stage'[q] = stage[q] /\ msgs'[q] = msgs[q]
      /\ DOMAIN stage' = Requests /\ DOMAIN msgs' = Requests
  BY DEF IntakeInv, Becomes
<1>2. ASSUME NEW q \in Requests
      PROVE  Fresh(asked[q].talk)' /\ Progress(stage'[q], msgs'[q], asked[q].talk, plan'[q])
  <2>1. CASE q = r
    BY <2>1, <1>1 DEF IntakeInv
  <2>2. CASE q # r
    BY <2>2, <1>1 DEF IntakeInv
  <2> QED
    BY <2>1, <2>2
<1>3. ASSUME NEW q \in Requests
      PROVE  Progress(stage[q], msgs[q], asked[q].talk, plan[q])'
  BY <1>2 DEF Progress, Sound, Apart, I!Isolated
<1> QED
  BY <1>1, <1>2, <1>3 DEF IntakeInv

\* Every stage of a handler leaves its request at a place of its progress.
LEMMA IntakeMoves ==
  ASSUME IntakeInv, [I!IntakeNext]_intakeVars
  PROVE  IntakeInv'
<1>1. CASE UNCHANGED intakeVars
  BY <1>1 DEF intakeVars, IntakeInv, Progress, Sound, Apart, I!Isolated
<1> SUFFICES ASSUME NEW r \in Requests, I!IntakeStep(r)
             PROVE  IntakeInv'
  BY <1>1 DEF I!IntakeNext
<1>2. /\ Fresh(asked[r].talk) /\ Listed(asked[r].talk)
      /\ Progress(stage[r], msgs[r], asked[r].talk, plan[r])
      /\ DOMAIN plan = Requests /\ DOMAIN msgs = Requests
  BY DEF IntakeInv, Fresh
<1>3. /\ UNCHANGED msgs => Becomes(r, msgs[r])
      /\ \A ms : msgs' = [msgs EXCEPT ![r] = ms] => Becomes(r, ms)
  BY <1>2 DEF Becomes
<1>4. CASE I!Reject(r)
  <2>1. /\ stage' = [stage EXCEPT ![r] = "rejected"] /\ UNCHANGED msgs
        /\ UNCHANGED <<cfg, asked, plan>>
    BY <1>4, Zenon DEF I!Reject
  <2>2. Progress("rejected", msgs[r], asked[r].talk, plan'[r])
    BY DEF Progress
  <2> QED
    BY <2>1, <2>2, <1>2, <1>3, OneMoves
<1>5. CASE I!Engineer(r)
  <2>1. PICK ns : ns = IF I!Isolated THEN I!ApplyPromptEngineeringIsolated(msgs[r])
                       ELSE I!ApplyPromptEngineering(msgs[r])
    OBVIOUS
  <2>2. /\ stage[r] = "new" /\ stage' = [stage EXCEPT ![r] = "retrieve"]
        /\ msgs' = [msgs EXCEPT ![r] = ns] /\ UNCHANGED <<cfg, asked, plan>>
    BY <2>1, <1>5, Zenon DEF I!Engineer
  <2>3. msgs[r] = asked[r].talk
    BY <2>2, <1>2 DEF Progress
  <2>4. Sound(ns, asked[r].talk) /\ (~cfg.meta => Len(ns) = Len(asked[r].talk))
    BY <2>1, <2>3, <1>2, EngineerSound
  <2>5. Progress("retrieve", ns, asked[r].talk, plan'[r])
    BY <2>4 DEF Progress
  <2> QED
    BY <2>2, <2>5, <1>2, <1>3, OneMoves
<1>6. CASE I!RetrieveNothing(r) \/ I!RetrieveFails(r) \/ I!RetrieveMisses(r)
  <2>1. /\ stage[r] = "retrieve" /\ stage' = [stage EXCEPT ![r] = "count"]
        /\ UNCHANGED msgs /\ UNCHANGED <<cfg, asked, plan>>
    BY <1>6, Zenon DEF I!RetrieveNothing, I!RetrieveFails, I!RetrieveMisses, I!Retrieved
  <2>2. Progress("count", msgs[r], asked[r].talk, plan'[r])
    BY <2>1, <1>2 DEF Progress
  <2> QED
    BY <2>1, <2>2, <1>2, <1>3, OneMoves
<1>7. CASE I!RetrieveFinds(r)
  <2>1. PICK found \in Examples :
          LET ms == I!InjectRAG(msgs[r], I!Block(found)) IN
          /\ msgs' = [msgs EXCEPT ![r] = ms]
          /\ I!Retrieved(r, IF ms = msgs[r] THEN "size_limit" ELSE "hit")
    BY <1>7 DEF I!RetrieveFinds
  <2>2. PICK ns : ns = I!InjectRAG(msgs[r], I!Block(found))
    OBVIOUS
  <2>3. /\ stage[r] = "retrieve" /\ stage' = [stage EXCEPT ![r] = "count"]
        /\ msgs' = [msgs EXCEPT ![r] = ns] /\ UNCHANGED <<cfg, asked, plan>>
    BY <2>1, <2>2, Zenon DEF I!Retrieved
  <2>4. Sound(msgs[r], asked[r].talk) /\ (~cfg.meta => Len(msgs[r]) = Len(asked[r].talk))
    BY <2>3, <1>2 DEF Progress
  <2>5. Sound(ns, asked[r].talk) /\ Len(ns) = Len(msgs[r])
    BY <2>2, <2>4, <1>2, InjectSound
  <2>6. Progress("count", ns, asked[r].talk, plan'[r])
    BY <2>4, <2>5 DEF Progress
  <2> QED
    BY <2>3, <2>6, <1>2, <1>3, OneMoves
<1>8. CASE I!Route(r)
  <2>1. PICK ns : ns = I!Compressed(msgs[r])
    OBVIOUS
  <2>2. /\ stage[r] = "count" /\ stage' = [stage EXCEPT ![r] = "planned"]
        /\ msgs' = [msgs EXCEPT ![r] = ns] /\ UNCHANGED <<cfg, asked>>
        /\ \E route \in Routes :
             plan' = [plan EXCEPT ![r] =
                [prompt |-> I!Prompt(ns), context |-> I!Context(ns), told |-> route,
                 route |-> IF I!ResolveAlias(asked[r].model) THEN "frontier" ELSE route]]
    BY <2>1, <1>8, Zenon DEF I!Route
  <2>3. Sound(ns, asked[r].talk)
    BY <2>1, <2>2, <1>2, CompressedSound DEF Progress
  <2>4. /\ DOMAIN plan' = Requests /\ \A q \in Requests : q # r => plan'[q] = plan[q]
        /\ plan'[r].prompt = I!Prompt(ns) /\ plan'[r].context = I!Context(ns)
    BY <2>2, <1>2
  <2>5. Progress("planned", ns, asked[r].talk, plan'[r])
    BY <2>3, <2>4 DEF Progress
  <2> QED
    BY <2>2, <2>4, <2>5, <1>3, OneMoves
<1> QED
  BY <1>4, <1>5, <1>6, <1>7, <1>8 DEF I!IntakeStep

\* Handlers that have come so far keep the client's conversation.
LEMMA ProgressKeeps ==
  ASSUME IntakeInv
  PROVE  I!ConversationKept
<1> SUFFICES ASSUME NEW r \in Requests, stage[r] = "planned", NEW extra,
                    extra = Len(msgs[r]) - Len(asked[r].talk)
             PROVE  /\ extra \in {0, 1} /\ \A i \in DOMAIN msgs[r] : msgs[r][i].from = I!Max({0, i - extra})
                    /\ \A i \in 1..Len(asked[r].talk) : asked[r].talk[i].text => msgs[r][i + extra].own
                    /\ \A i \in DOMAIN msgs[r] : "context" \in msgs[r][i].added => i = I!Latest(msgs[r])
                    /\ I!Isolated =>
                         /\ cfg.meta => extra = 1 /\ "policy" \in msgs[r][1].added
                         /\ \A i \in I!Where(msgs[r], "system", I!AnyContent) :
                              \/ msgs[r][i].from = 0 \/ msgs[r][i].added = {}
                              \/ ~cfg.meta /\ "begin" \in msgs[r][i].marks
                    /\ plan[r].prompt \in plan[r].context => ~asked[r].talk[I!Latest(msgs[r]) - extra].text
  BY Zenon DEF I!ConversationKept
<1>1. /\ Fresh(asked[r].talk) /\ Sound(msgs[r], asked[r].talk)
      /\ plan[r].prompt = I!Prompt(msgs[r]) /\ plan[r].context = I!Context(msgs[r])
  BY DEF IntakeInv, Progress
<1>2. plan[r].prompt \in plan[r].context => ~asked[r].talk[I!Latest(msgs[r]) - extra].text
  BY <1>1, PromptToldOnce
<1>3. Delivered(msgs[r], asked[r].talk, extra)
  BY <1>1, SoundIsKept
<1> QED
  BY <1>2, <1>3, Zenon DEF Delivered

\* What is sent on is the client's conversation, and a prompt the embedding cache
\* answered is reported so, whatever the requests do in between.
THEOREM ChatIntakeSound == AdmissionSpec => []IntakeSound
<1>1. AdmissionInit => HitsInv /\ IntakeInv
  <2> SUFFICES ASSUME AdmissionInit
               PROVE  HitsInv /\ IntakeInv
    OBVIOUS
  <2>1. I!IntakeInit
    BY DEF AdmissionInit
  <2>2. HitsInv
    BY <2>1 DEF I!IntakeInit, HitsInv, I!HitsReported
  <2>3. asked \in Mixed /\ \A r \in Requests : Fresh(asked[r].talk)
    BY <2>1, TrafficFresh DEF I!IntakeInit
  <2>4. /\ DOMAIN stage = Requests /\ DOMAIN msgs = Requests /\ DOMAIN plan = Requests
        /\ \A r \in Requests : stage[r] = "new" /\ msgs[r] = asked[r].talk
    BY <2>1 DEF I!IntakeInit
  <2>5. IntakeInv
    BY <2>3, <2>4 DEF IntakeInv, Progress
  <2> QED
    BY <2>2, <2>5
<1>2. HitsInv /\ IntakeInv /\ [AdmissionNext]_allVars => (HitsInv /\ IntakeInv)'
  <2> SUFFICES ASSUME HitsInv, IntakeInv, [AdmissionNext]_allVars
               PROVE  (HitsInv /\ IntakeInv)'
    OBVIOUS
  <2>1. [I!IntakeNext]_intakeVars
    BY DEF AdmissionNext, allVars
  <2> QED
    BY <2>1, HitsStep, IntakeMoves
<1>3. HitsInv /\ IntakeInv => IntakeSound
  BY ProgressKeeps DEF HitsInv, IntakeSound
<1> QED
  BY <1>1, <1>2, <1>3, PTL DEF AdmissionSpec
=============================================================================
