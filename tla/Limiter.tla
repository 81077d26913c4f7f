------------------------------ MODULE Limiter ------------------------------
(***************************************************************************)
(* The VRAM-aware concurrency limiter of the local route                   *)
(* (src/internal/concurrencylimit/limiter.go, type Limiter).               *)
(*                                                                         *)
(* The code between mu.Lock and the next mu.Unlock or cond.Wait is one     *)
(* atomic action.  sync.Cond keeps its waiters in arrival order: Signal    *)
(* wakes the longest waiting goroutine, Broadcast all of them, and a woken *)
(* goroutine still has to take the mutex again before it looks around.     *)
(*                                                                         *)
(* context.CancelFunc makes ctx.Err() non-nil first and starts the         *)
(* registered AfterFunc callbacks afterwards, so stop() can still cancel a *)
(* callback in between.  Both halves are actions here.                     *)
(***************************************************************************)
EXTENDS Integers, FiniteSets, Sequences

CONSTANTS
  Requests,      \* goroutines that call Acquire once each
  Cancellable,   \* the requests whose client may disconnect
  Ceiling,       \* NEXUS_LOCAL_MAX_CONCURRENT
  BytesPerSlot,  \* NEXUS_LOCAL_VRAM_BYTES_PER_SLOT
  Readings       \* what the VRAM probe may report; <= 0 is "unavailable"

ASSUME LimiterAssumption ==
  /\ IsFiniteSet(Requests)
  /\ Cancellable \subseteq Requests
  /\ Ceiling \in Nat \ {0}
  /\ BytesPerSlot \in Nat \ {0}
  /\ Readings \subseteq Int /\ Readings # {}

VARIABLES
  inFlight,   \* Limiter.inFlight
  free,       \* the latest probe snapshot, what FreeVRAM() returns
  pc,         \* where each request stands in Acquire and release
  waiters,    \* the notify list of Limiter.cond, longest waiting first
  cancelled,  \* requests whose ctx.Err() is non-nil
  callback    \* the AfterFunc registered by each request

vars == <<inFlight, free, pc, waiters, cancelled, callback>>

\* "trying" and "woken" goroutines are about to take l.mu in the Acquire loop;
\* "granted" and "refused" ones have left it and still have to call stop().
Positions == {"new", "trying", "parked", "woken", "granted", "refused",
              "holding", "released", "gone"}

CallbackStates == {"none", "armed", "running", "stopped", "finished"}

Parked  == {r \in Requests : pc[r] = "parked"}
Awake   == {r \in Requests : pc[r] \in {"trying", "woken"}}
Holders == {r \in Requests : pc[r] \in {"granted", "holding"}}

\* The clamp to the ceiling forgotten.
BugEffective(f) ==
  IF f <= 0 THEN Ceiling
  ELSE IF f \div BytesPerSlot < 1 THEN 1 ELSE f \div BytesPerSlot

\* effectiveLocked: min(Ceiling, max(1, free / BytesPerSlot)), and the whole
\* ceiling when the probe is unavailable.
Effective(f) ==
  LET slots == f \div BytesPerSlot
  IN  IF f <= 0 \/ slots > Ceiling THEN Ceiling
      ELSE IF slots < 1 THEN 1 ELSE slots

Init ==
  /\ inFlight = 0
  /\ free \in Readings
  /\ pc = [r \in Requests |-> "new"]
  /\ waiters = <<>>
  /\ cancelled = {}
  /\ callback = [r \in Requests |-> "none"]

\* cond.Broadcast and cond.Signal: pcs is the program counters after the
\* caller's own move.
BroadcastOn(pcs) ==
  /\ waiters' = <<>>
  /\ pc' = [r \in Requests |-> IF pcs[r] = "parked" THEN "woken" ELSE pcs[r]]

SignalOn(pcs) ==
  IF waiters = <<>>
  THEN /\ waiters' = waiters
       /\ pc' = pcs
  ELSE /\ waiters' = Tail(waiters)
       /\ pc' = [pcs EXCEPT ![Head(waiters)] = "woken"]

-----------------------------------------------------------------------------
\* Acquire up to the first l.mu.Lock(): registering the AfterFunc on a context
\* that is already done starts its callback at once.
Register(r) ==
  /\ pc[r] = "new"
  /\ pc' = [pc EXCEPT ![r] = "trying"]
  /\ callback' = [callback EXCEPT ![r] =
                    IF r \in cancelled THEN "running" ELSE "armed"]
  /\ UNCHANGED <<inFlight, free, waiters, cancelled>>

\* One turn of the loop under l.mu: give up, take a slot, or park.
Refuse(r) ==
  /\ pc[r] \in {"trying", "woken"}
  /\ r \in cancelled
  /\ pc' = [pc EXCEPT ![r] = "refused"]
  /\ UNCHANGED <<inFlight, free, waiters, cancelled, callback>>

\* Off by one at the limit.
BugTakeSlot(r) ==
  /\ pc[r] \in {"trying", "woken"}
  /\ r \notin cancelled
  /\ inFlight <= Effective(free)
  /\ inFlight' = inFlight + 1
  /\ pc' = [pc EXCEPT ![r] = "granted"]
  /\ UNCHANGED <<free, waiters, cancelled, callback>>

TakeSlot(r) ==
  /\ pc[r] \in {"trying", "woken"}
  /\ r \notin cancelled
  /\ inFlight < Effective(free)
  /\ inFlight' = inFlight + 1
  /\ pc' = [pc EXCEPT ![r] = "granted"]
  /\ UNCHANGED <<free, waiters, cancelled, callback>>

Park(r) ==
  /\ pc[r] \in {"trying", "woken"}
  /\ r \notin cancelled
  /\ inFlight >= Effective(free)
  /\ waiters' = Append(waiters, r)
  /\ pc' = [pc EXCEPT ![r] = "parked"]
  /\ UNCHANGED <<inFlight, free, cancelled, callback>>

\* A client that left after its slot was taken is told so, and the slot stays
\* taken.
BugStop(r) ==
  /\ pc[r] \in {"granted", "refused"}
  /\ pc' = [pc EXCEPT ![r] = IF pc[r] = "granted" /\ r \notin cancelled
                             THEN "holding" ELSE "gone"]
  /\ callback' = [callback EXCEPT ![r] = IF @ = "armed" THEN "stopped" ELSE @]
  /\ UNCHANGED <<inFlight, free, waiters, cancelled>>

\* stop() outside the mutex: it only prevents a callback that has not started.
Stop(r) ==
  /\ pc[r] \in {"granted", "refused"}
  /\ pc' = [pc EXCEPT ![r] = IF pc[r] = "granted" THEN "holding" ELSE "gone"]
  /\ callback' = [callback EXCEPT ![r] = IF @ = "armed" THEN "stopped" ELSE @]
  /\ UNCHANGED <<inFlight, free, waiters, cancelled>>

\* Waiters are woken only when the effective count has grown.
BugRelease(r) ==
  /\ pc[r] = "holding"
  /\ inFlight' = IF inFlight > 0 THEN inFlight - 1 ELSE inFlight
  /\ free' \in Readings
  /\ LET left == [pc EXCEPT ![r] = "released"]
     IN  IF Effective(free') > Effective(free)
         THEN BroadcastOn(left)
         ELSE waiters' = waiters /\ pc' = left
  /\ UNCHANGED <<cancelled, callback>>

\* release: both effective counts are read here, under the mutex; the probe may
\* publish a reading between them.
Release(r) ==
  /\ pc[r] = "holding"
  /\ inFlight' = IF inFlight > 0 THEN inFlight - 1 ELSE inFlight
  /\ free' \in Readings
  /\ LET left == [pc EXCEPT ![r] = "released"]
     IN  IF Effective(free') > Effective(free)
         THEN BroadcastOn(left)
         ELSE SignalOn(left)
  /\ UNCHANGED <<cancelled, callback>>

\* The environment: a client disconnects, the runtime starts the callback, the
\* probe manager publishes a new snapshot.
Cancel(r) ==
  /\ r \in Cancellable \ cancelled
  /\ cancelled' = cancelled \cup {r}
  /\ UNCHANGED <<inFlight, free, pc, waiters, callback>>

StartCallback(r) ==
  /\ r \in cancelled /\ callback[r] = "armed"
  /\ callback' = [callback EXCEPT ![r] = "running"]
  /\ UNCHANGED <<inFlight, free, pc, waiters, cancelled>>

\* Signal where Broadcast is needed: the wake-up may reach somebody else.
BugRunCallback(r) ==
  /\ callback[r] = "running"
  /\ callback' = [callback EXCEPT ![r] = "finished"]
  /\ SignalOn(pc)
  /\ UNCHANGED <<inFlight, free, cancelled>>

\* The AfterFunc body: lock, Broadcast, unlock.
RunCallback(r) ==
  /\ callback[r] = "running"
  /\ callback' = [callback EXCEPT ![r] = "finished"]
  /\ BroadcastOn(pc)
  /\ UNCHANGED <<inFlight, free, cancelled>>

Publish ==
  /\ free' \in Readings \ {free}
  /\ UNCHANGED <<inFlight, pc, waiters, cancelled, callback>>

\* Every request came and went.
Finished ==
  /\ \A r \in Requests : pc[r] \in {"released", "gone"}
  /\ UNCHANGED vars

\* The rest of Acquire once the request is in it.
AcquireLoop(r) == Refuse(r) \/ TakeSlot(r) \/ Park(r) \/ Stop(r)

Next ==
  \/ \E r \in Requests : \/ Register(r) \/ AcquireLoop(r) \/ Release(r)
                         \/ Cancel(r) \/ StartCallback(r) \/ RunCallback(r)
  \/ Publish
  \/ Finished

Spec == Init /\ [][Next]_vars

\* Goroutines inside Acquire keep running and the runtime starts the callbacks of
\* a cancelled context; a holder may keep its slot for ever, nobody has to
\* disconnect and the probe need not change its mind.
AcquireSpec == Spec /\ \A r \in Requests :
  WF_vars(AcquireLoop(r)) /\ WF_vars(StartCallback(r)) /\ WF_vars(RunCallback(r))

\* The upstream call inside a slot ends as well: its client has a timeout.
FairSpec == AcquireSpec /\ \A r \in Requests : WF_vars(Release(r))
-----------------------------------------------------------------------------
TypeOK ==
  /\ inFlight \in Nat
  /\ free \in Readings
  /\ pc \in [Requests -> Positions]
  /\ waiters \in Seq(Requests)
  /\ cancelled \subseteq Cancellable
  /\ callback \in [Requests -> CallbackStates]

\* inFlight counts exactly the requests that own a slot: no path of Acquire
\* leaks one (a cancelled waiter, a spurious wake-up) or returns one twice.
SlotsAccounted == inFlight = Cardinality(Holders)

\* NEXUS_LOCAL_MAX_CONCURRENT is a hard ceiling, whatever the probe reports
\* while requests are queued and in flight.
CeilingRespected == Cardinality(Holders) <= Ceiling

\* The notify list and the parked goroutines are the same thing: nobody parks
\* without being reachable by Signal, and nobody is listed twice.
WaitersParked ==
  /\ \A i \in 1..Len(waiters) : pc[waiters[i]] = "parked"
  /\ \A r \in Parked : \E i \in 1..Len(waiters) : waiters[i] = r
  /\ \A i, j \in 1..Len(waiters) : waiters[i] = waiters[j] => i = j

\* No lost wake-up: while somebody is parked, the slots in use and the
\* goroutines on their way to take one fill the effective count, or the
\* broadcast of a cancellation is still to come.
BroadcastDue ==
  \E r \in Requests : \/ callback[r] = "running"
                      \/ callback[r] = "armed" /\ r \in cancelled

NoLostWakeup ==
  \/ Parked = {}
  \/ inFlight + Cardinality(Awake) >= Effective(free)
  \/ BroadcastDue

\* A request whose client is gone never stays parked in cond.Wait, even if no
\* slot is ever given back.
CancelledReturns ==
  \A r \in Requests : (r \in cancelled /\ pc[r] = "parked") ~> (pc[r] = "gone")

\* Whoever calls Acquire gets a slot and gives it back in the end.
EveryoneServed ==
  \A r \in Requests : (pc[r] = "trying") ~> (pc[r] = "released")

\* The limiter is a counting semaphore as far as its callers can see.
Phase == [r \in Requests |->
  CASE pc[r] = "new"                            -> "idle"
    [] pc[r] \in {"trying", "parked", "woken"}  -> "waiting"
    [] pc[r] \in {"granted", "holding"}         -> "holding"
    [] pc[r] \in {"refused", "released", "gone"} -> "done"]

Sem == INSTANCE Semaphore WITH phase <- Phase

RefinesSemaphore == Sem!SemSpec
=============================================================================
