----------------------------- MODULE Semaphore -----------------------------
(***************************************************************************)
(* What internal/concurrencylimit promises the chat handler, with no       *)
(* mutex, condition variable or context in sight: a request asks for a     *)
(* slot, is granted one while fewer than Ceiling are held, or gives up.    *)
(***************************************************************************)
EXTENDS Naturals, FiniteSets

CONSTANTS Requests,  \* the goroutines of the chat handler's local route
          Ceiling    \* NEXUS_LOCAL_MAX_CONCURRENT

VARIABLE phase       \* what each request sees of the limiter

Phases == {"idle", "waiting", "holding", "done"}

Held == {r \in Requests : phase[r] = "holding"}

SemInit == phase = [r \in Requests |-> "idle"]

\* The request calls Acquire.
Ask(r) ==
  /\ phase[r] = "idle"
  /\ phase' = [phase EXCEPT ![r] = "waiting"]

\* Acquire returns a release function: never beyond the hard ceiling.
Grant(r) ==
  /\ phase[r] = "waiting"
  /\ Cardinality(Held) < Ceiling
  /\ phase' = [phase EXCEPT ![r] = "holding"]

\* Acquire returns ctx.Err(), or the release function is called.
Leave(r) ==
  /\ phase[r] \in {"waiting", "holding"}
  /\ phase' = [phase EXCEPT ![r] = "done"]

SemNext == \E r \in Requests : Ask(r) \/ Grant(r) \/ Leave(r)

SemSpec == SemInit /\ [][SemNext]_phase
=============================================================================
