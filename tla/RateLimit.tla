------------------------------ MODULE RateLimit ------------------------------
(* internal/ratelimit/middleware.go: token buckets made on first sight of a   *)
(* client, refilled lazily, and reaped when idle, while requests hold them.   *)
EXTENDS Naturals, FiniteSets

CONSTANTS
  Clients,     \* bucket keys: an address, or an address with an API key
  Callers,     \* request goroutines
  Rates,       \* values of rpm, in refilled units per tick
  Bursts,      \* values of burst, in tokens
  Cost,        \* units in one token: a tick may refill a fraction of a token
  TTL,         \* idle ticks after which a bucket is reaped
  RateClock, MaxBuckets   \* bounds: ticks, buckets ever made

\* An idle period long enough to be reaped refills a bucket anyway, with a tick to
\* spare for a request whose clock was read before another's.
ASSUME TTLAssumption == \A r \in Rates \ {0}, b \in Bursts : (TTL - 1) * r >= b * Cost

ASSUME RateAssumption ==
  /\ Clients # {} /\ Rates \subseteq Nat /\ Rates \ {0} # {} /\ Bursts \subseteq Nat \ {0}
  /\ Cost \in Nat \ {0} /\ TTL \in Nat /\ RateClock \in Nat

VARIABLES
  tick, rpm, burst,
  buckets,     \* Middleware.buckets: the bucket a client has in the map, 0 for none
  bucket,      \* every bucket made: [tokens, lastRefill, lastSeen]
  made,        \* how many
  call,        \* each caller: [at: "idle" | "arrived" | "holds", client, now, id]
  share,       \* history: the client's bucket had it never been reaped: [tokens, since, rate]
  over         \* history: a request was allowed beyond the share

rateVars == <<tick, rpm, burst, buckets, bucket, made, call, share, over>>

None == [at |-> "idle", client |-> CHOOSE c \in Clients : TRUE, now |-> 0, id |-> 0]
New == [tokens |-> 0, since |-> RateClock + 1, rate |-> 0]
Full(t) == [tokens |-> burst * Cost, lastRefill |-> t, lastSeen |-> t]
Lesser(a, b) == IF a < b THEN a ELSE b

RateInit ==
  /\ tick = 0 /\ rpm \in Rates \ {0} /\ burst \in Bursts
  /\ buckets = [c \in Clients |-> 0] /\ bucket = <<>> /\ made = 0
  /\ call = [r \in Callers |-> None]
  /\ share = [c \in Clients |-> New]
  /\ over = [c \in Clients |-> FALSE]

\* Wrap: the clock is read before the bucket is looked up.
Arrive(r, c) ==
  /\ call[r].at = "idle"
  /\ call' = [call EXCEPT ![r] = [at |-> "arrived", client |-> c, now |-> tick, id |-> 0]]
  /\ UNCHANGED <<tick, rpm, burst, buckets, bucket, made, share, over>>

\* A share at a caller's clock: as Refill, at the highest rate since the last one.
Accrued(s, t) ==
  IF s = New THEN [tokens |-> burst * Cost, since |-> t, rate |-> rpm]
  ELSE IF t <= s.since THEN s
  ELSE [since |-> t, rate |-> rpm,
        tokens |-> IF s.rate = 0 THEN burst * Cost
                   ELSE Lesser(s.tokens + (t - s.since) * s.rate, burst * Cost)]

\* Under Middleware.mu; a new client starts with its whole burst.
bucketFor(r) ==
  LET c == call[r].client  IN
  /\ call[r].at = "arrived"
  /\ IF buckets[c] # 0
     THEN call' = [call EXCEPT ![r].at = "holds", ![r].id = buckets[c]]
          /\ UNCHANGED <<buckets, bucket, made, share>>
     ELSE /\ made < MaxBuckets /\ made' = made + 1
          /\ bucket' = [i \in 1..made + 1 |-> IF i <= made THEN bucket[i] ELSE Full(call[r].now)]
          /\ buckets' = [buckets EXCEPT ![c] = made + 1]
          /\ call' = [call EXCEPT ![r].at = "holds", ![r].id = made + 1]
          /\ share' = [share EXCEPT ![c] = Accrued(@, call[r].now)]
  /\ UNCHANGED <<tick, rpm, burst, over>>

BugRefill(b, t) ==
  IF t <= b.lastRefill THEN b
  ELSE [b EXCEPT !.lastRefill = t, !.tokens = @ + (t - b.lastRefill) * rpm]

\* The new rate and burst count for the whole time since the last refill.
Refill(b, t) ==
  IF t <= b.lastRefill THEN b
  ELSE [b EXCEPT !.lastRefill = t, !.tokens = Lesser(@ + (t - b.lastRefill) * rpm, burst * Cost)]

\* allow, under the bucket's own lock: the bucket may have been reaped meanwhile,
\* and the clock read may be older than another request's.
allow(r) ==
  LET c == call[r].client
      b == [Refill(bucket[call[r].id], call[r].now) EXCEPT !.lastSeen = call[r].now]
      ok == b.tokens >= Cost
      kept == buckets[c] = call[r].id
      had == Accrued(share[c], call[r].now)
  IN /\ call[r].at = "holds"
     /\ bucket' = [bucket EXCEPT ![call[r].id] = IF ok THEN [b EXCEPT !.tokens = @ - Cost] ELSE b]
     /\ share' = IF ~kept THEN share ELSE [share EXCEPT ![c] =
                    IF ok /\ had.tokens >= Cost THEN [had EXCEPT !.tokens = @ - Cost] ELSE had]
     /\ over' = [over EXCEPT ![c] = @ \/ (kept /\ ok /\ had.tokens < Cost)]
     /\ call' = [call EXCEPT ![r] = None]
     /\ UNCHANGED <<tick, rpm, burst, buckets, made>>

\* Each minute, with Middleware.mu held throughout.
reap ==
  LET idle == {c \in Clients : buckets[c] # 0 /\ tick > bucket[buckets[c]].lastSeen + TTL}
  IN /\ idle # {}
     /\ buckets' = [c \in Clients |-> IF c \in idle THEN 0 ELSE buckets[c]]
     /\ UNCHANGED <<tick, rpm, burst, bucket, made, call, share, over>>

\* SetRPM and SetBurst, from a SIGHUP; a burst of 0 would be ignored.
SetRates(r, b) ==
  /\ rpm' = r /\ burst' = b
  /\ share' = [c \in Clients |-> IF share[c] = New THEN New
                            ELSE [share[c] EXCEPT !.rate = IF 0 \in {@, r} THEN 0 ELSE IF r > @ THEN r ELSE @]]
  /\ UNCHANGED <<tick, buckets, bucket, made, call, over>>

\* A request does not stay in the limiter for longer than a tick.
RateTick ==
  /\ tick < RateClock /\ \A r \in Callers : call[r].at = "idle" \/ call[r].now = tick
  /\ tick' = tick + 1
  /\ UNCHANGED <<rpm, burst, buckets, bucket, made, call, share, over>>

RateNext ==
  \/ \E r \in Callers : (\E c \in Clients : Arrive(r, c)) \/ bucketFor(r) \/ allow(r)
  \/ reap \/ RateTick
  \/ \E r \in Rates, b \in Bursts : <<r, b>> # <<rpm, burst>> /\ SetRates(r, b)

-----------------------------------------------------------------------------
\* Reaping buckets, making them again and reading the clock out of order never
\* lets a client have more than from one bucket kept for it all along; only a
\* request that holds a bucket while the reaper throws it away takes from none.
RateKept == \A c \in Clients : ~over[c]
=============================================================================
