------------------------------ MODULE Breaker ------------------------------
(***************************************************************************)
(* The embedder circuit breaker (src/internal/health/breaker.go) and the   *)
(* goroutines that use it: embedders, which ask IsOpen and then report     *)
(* RecordFailure or RecordSuccess (src/internal/rag/rag.go, Embed and      *)
(* EmbedBatch), and observers, which only ask IsOpen (IsBreakerOpen, called *)
(* by the /status snapshot and by the chat handler after a failed          *)
(* retrieval).                                                             *)
(*                                                                         *)
(* The breaker has no lock: every atomic Load, Store, Add and              *)
(* CompareAndSwap is an action of its own, so the actions of several       *)
(* goroutines interleave inside IsOpen, RecordFailure and RecordSuccess.   *)
(* The clock only matters through "now < cooldownUntil", so the deadline   *)
(* is "zero", "running" or "elapsed".  The trip counter that RecordFailure *)
(* feeds is left out.                                                      *)
(***************************************************************************)
EXTENDS Integers, FiniteSets

CONSTANTS
  Embedders,     \* goroutines that embed a text
  Observers,     \* goroutines that only read the breaker through IsOpen
  Threshold,     \* NEXUS_RAG_CIRCUIT_BREAKER_THRESHOLD, 0 would disable it
  MaxFailures    \* bound on failureCount, for model checking only

ASSUME BreakerAssumption ==
  /\ Threshold \in Nat \ {0}
  /\ MaxFailures \in Nat
  /\ Embedders \cap Observers = {}

VARIABLES
  state,          \* Breaker.state
  failureCount,   \* Breaker.failureCount
  cooldownUntil,  \* Breaker.cooldownUntil against the clock
  pc,             \* the next atomic operation of each goroutine
  count,          \* RecordFailure: the result of failureCount.Add(1)
  lastProbe,      \* whose CompareAndSwap succeeded last, {} before the first
  up              \* do calls to the embedding service succeed?

shared == <<state, failureCount, cooldownUntil>>
vars == <<state, failureCount, cooldownUntil, pc, count, lastProbe, up>>

Users == Embedders \cup Observers

States    == {"closed", "half_open", "open"}
Deadlines == {"zero", "running", "elapsed"}

\* IsOpen: load, deadline, cas, clear_count, clear_deadline.
\* RecordFailure: add, check, arm, open.
\* RecordSuccess: ok_count, ok_deadline, ok_state.
InIsOpen  == {"load", "deadline", "cas", "clear_count", "clear_deadline"}
InFailure == {"add", "check", "arm", "open"}
InSuccess == {"ok_count", "ok_deadline", "ok_state"}
Positions == {"idle", "calling"} \cup InIsOpen \cup InFailure \cup InSuccess

Init ==
  /\ state = "closed" /\ failureCount = 0 /\ cooldownUntil = "zero"
  /\ pc = [u \in Users |-> "idle"]
  /\ count = [u \in Users |-> 0]
  /\ lastProbe = {}
  /\ up \in BOOLEAN

Goto(u, here, there) == pc[u] = here /\ pc' = [pc EXCEPT ![u] = there]

\* IsOpen returned: true ends the call, false lets an embedder go upstream.
Admitted(u) == IF u \in Embedders THEN "calling" ELSE "idle"

-----------------------------------------------------------------------------
\* IsOpen.
Ask(u) ==
  /\ Goto(u, "idle", "load")
  /\ UNCHANGED <<shared, count, lastProbe, up>>

\* A closed breaker forgets the failures counted so far.
BugLoadState(u) ==
  /\ Goto(u, "load", CASE state = "closed"    -> Admitted(u)
                       [] state = "half_open" -> "idle"
                       [] state = "open"      -> "deadline")
  /\ failureCount' = IF state = "closed" THEN 0 ELSE failureCount
  /\ UNCHANGED <<state, cooldownUntil, count, lastProbe, up>>

LoadState(u) ==
  /\ Goto(u, "load", CASE state = "closed"    -> Admitted(u)
                       [] state = "half_open" -> "idle"
                       [] state = "open"      -> "deadline")
  /\ UNCHANGED <<shared, count, lastProbe, up>>

LoadDeadline(u) ==
  /\ Goto(u, "deadline", IF cooldownUntil = "elapsed" THEN "cas" ELSE "idle")
  /\ UNCHANGED <<shared, count, lastProbe, up>>

HalfOpen(u) ==
  /\ pc[u] = "cas"
  /\ IF state = "open"
     THEN /\ state' = "half_open" /\ lastProbe' = {u}
          /\ pc' = [pc EXCEPT ![u] = "clear_count"]
     ELSE /\ UNCHANGED <<state, lastProbe>>
          /\ pc' = [pc EXCEPT ![u] = "load"]
  /\ UNCHANGED <<failureCount, cooldownUntil, count, up>>

ClearCount(u) ==
  /\ Goto(u, "clear_count", "clear_deadline")
  /\ failureCount' = 0
  /\ UNCHANGED <<state, cooldownUntil, count, lastProbe, up>>

ClearDeadline(u) ==
  /\ Goto(u, "clear_deadline", Admitted(u))
  /\ cooldownUntil' = "zero"
  /\ UNCHANGED <<state, failureCount, count, lastProbe, up>>

-----------------------------------------------------------------------------
\* Embed and EmbedBatch after IsOpen: every failure (transport, which includes a
\* caller that went away, oversized body, status, decoding, empty or ragged
\* vectors) is recorded, and so is success.  A request that cannot be built at
\* all needs a malformed base URL, which no run of the proxy starts with.
Embed(u) ==
  /\ Goto(u, "calling", IF up THEN "ok_count" ELSE "add")
  /\ UNCHANGED <<shared, count, lastProbe, up>>

\* RecordFailure.
AddFailure(u) ==
  /\ failureCount < MaxFailures
  /\ Goto(u, "add", "check")
  /\ failureCount' = failureCount + 1
  /\ count' = [count EXCEPT ![u] = failureCount + 1]
  /\ UNCHANGED <<state, cooldownUntil, lastProbe, up>>

CheckTrip(u) ==
  /\ Goto(u, "check", IF state = "half_open" \/ count[u] >= Threshold
                      THEN "arm" ELSE "idle")
  /\ count' = [count EXCEPT ![u] = 0]   \* not read again
  /\ UNCHANGED <<shared, lastProbe, up>>

Arm(u) ==
  /\ Goto(u, "arm", "open")
  /\ cooldownUntil' = "running"
  /\ UNCHANGED <<state, failureCount, count, lastProbe, up>>

\* A breaker that trips asks for a probe at once.
BugOpen(u) ==
  /\ Goto(u, "open", "idle")
  /\ state' = "half_open"
  /\ UNCHANGED <<failureCount, cooldownUntil, count, lastProbe, up>>

Open(u) ==
  /\ Goto(u, "open", "idle")
  /\ state' = "open"
  /\ UNCHANGED <<failureCount, cooldownUntil, count, lastProbe, up>>

\* RecordSuccess, by an embedder whose call succeeded or by the chat handler
\* (RecordBreakerSuccess) after a retrieval that found an example, which the
\* embedding cache may have answered without any call.
RetrievalHit(u) ==
  /\ u \in Embedders
  /\ Goto(u, "idle", "ok_count")
  /\ UNCHANGED <<shared, count, lastProbe, up>>

SuccessCount(u) ==
  /\ Goto(u, "ok_count", "ok_deadline")
  /\ failureCount' = 0
  /\ UNCHANGED <<state, cooldownUntil, count, lastProbe, up>>

SuccessDeadline(u) ==
  /\ Goto(u, "ok_deadline", "ok_state")
  /\ cooldownUntil' = "zero"
  /\ UNCHANGED <<state, failureCount, count, lastProbe, up>>

SuccessState(u) ==
  /\ Goto(u, "ok_state", "idle")
  /\ state' = "closed"
  /\ UNCHANGED <<failureCount, cooldownUntil, count, lastProbe, up>>

-----------------------------------------------------------------------------
\* The environment: the cooldown passes, the embedding service fails or
\* recovers.
Elapse ==
  /\ cooldownUntil = "running"
  /\ cooldownUntil' = "elapsed"
  /\ UNCHANGED <<state, failureCount, pc, count, lastProbe, up>>

ServiceChange ==
  /\ up' = ~up
  /\ UNCHANGED <<shared, pc, count, lastProbe>>

\* A goroutine inside one of the breaker's methods, or waiting for the answer
\* of the embedding service.
Proceed(u) ==
  \/ LoadState(u) \/ LoadDeadline(u) \/ HalfOpen(u)
  \/ ClearCount(u) \/ ClearDeadline(u) \/ Embed(u)
  \/ AddFailure(u) \/ CheckTrip(u) \/ Arm(u) \/ Open(u)
  \/ SuccessCount(u) \/ SuccessDeadline(u) \/ SuccessState(u)

Next ==
  \/ \E u \in Users : Ask(u) \/ RetrievalHit(u) \/ Proceed(u)
  \/ Elapse
  \/ ServiceChange

Spec == Init /\ [][Next]_vars

\* Goroutines run to the end of the call they are in, time passes, and the
\* embedders keep being asked for texts.  Nothing makes an observer ask, a
\* retrieval hit or the service change.
FairSpec ==
  /\ Spec
  /\ \A u \in Users : WF_vars(Proceed(u))
  /\ \A u \in Embedders : WF_vars(Ask(u))
  /\ WF_vars(Elapse)
-----------------------------------------------------------------------------
TypeOK ==
  /\ state \in States
  /\ failureCount \in Nat
  /\ cooldownUntil \in Deadlines
  /\ pc \in [Users -> Positions]
  /\ count \in [Users -> Nat]
  /\ lastProbe \subseteq Users
  /\ up \in BOOLEAN

\* A goroutine that will still take the breaker out of half-open.
Probing(u) ==
  u \in Embedders
    /\ pc[u] \in {"clear_count", "clear_deadline", "calling", "add", "check",
                  "arm", "open"} \cup InSuccess

\* Half-open always has an owner: IsOpen answers true to everybody while the
\* state is half-open, so the goroutine it let through must be on its way to
\* close the breaker or to open it again, whatever the others do.
HalfOpenOwned ==
  state = "half_open" => \E u \in lastProbe : Probing(u)

\* An open breaker has a deadline: with none, IsOpen answers true for ever and
\* no goroutine inside a call is left to change that.
\* The code does not keep this: IsOpen may erase a deadline just armed.
OpenHasDeadline ==
  (state = "open" /\ \A u \in Users : pc[u] = "idle") => cooldownUntil # "zero"

\* A service that stays down is noticed: however the calls interleave, the
\* breaker does not stay closed, unless cached retrievals keep resetting it.
DownIsNoticed ==
  (<>[](~up /\ \A u \in Users : pc[u] \notin InSuccess)) => []<>(state # "closed")

\* "After NEXUS_RAG_CIRCUIT_BREAKER_COOLDOWN the breaker closes automatically and
\* RAG resumes": once the service answers again for good, so does the breaker.
\* The code does not keep this once an observer may become the probe.
Recovers == (<>[]up) => <>[](state = "closed")
=============================================================================
