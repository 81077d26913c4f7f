------------------------------- MODULE Pollers -------------------------------
(* The health pollers (internal/health/health.go and frontier.go): Ollama    *)
(* is probed by its own loop, the frontier providers all at once by another. *)
(* The router and /readyz read the verdicts while probes are out, and the    *)
(* trip and recovery callbacks feed the circuit metrics.                     *)
EXTENDS Integers, FiniteSets

CONSTANTS
  Providers,      \* frontier providers that are probed
  BreakerAfter,   \* breakerThreshold
  MaxBackoff,     \* maxBackoffMultiplier
  FailureCap,     \* bound on the failure count
  MaxFlips        \* bound on the changes of the services

Ollama == "ollama"
Targets == Providers \cup {Ollama}
Owner(t) == IF t = Ollama THEN Ollama ELSE "frontier"
Loops == {Owner(t) : t \in Targets}

VARIABLES
  service,   \* target -> "up", "down" or "nomodel" (reachable, but 4xx)
  healthy,   \* target -> the verdict readers see
  failures,  \* target -> failureCount
  interval,  \* Health.currentInterval, in poll intervals
  ticker,    \* what Ollama's ticker really runs at
  probing,   \* target -> "idle", "tags", "chat" or "out"
  loop,      \* loop -> "boot", "idle", "wait" or "exited"
  told,      \* provider -> the last callback
  stopping,  \* loop -> "no", "closing" or "yes"
  flips

pollVars == <<service, healthy, failures, interval, ticker, probing, loop, told, stopping, flips>>

PollInit ==
  /\ service \in [Targets -> {"up", "down"}] /\ flips = 0
  /\ healthy = [t \in Targets |-> TRUE] /\ failures = [t \in Targets |-> 0]
  /\ interval = 1 /\ ticker = 1
  /\ probing = [t \in Targets |-> "idle"] /\ told = [p \in Providers |-> "none"]
  /\ loop = [l \in Loops |-> "boot"] /\ stopping = [l \in Loops |-> "no"]

\* 1 << tier in a 64-bit int: negative at 63, zero from 64 on, and neither is
\* above the cap.
calcBackoffInterval(count) ==
  LET tier == IF count < 1 THEN 0 ELSE (count - 1) \div 2
  IN CASE tier > 63 -> 0 [] tier = 63 -> -1 [] tier > 4 /\ tier < 63 -> MaxBackoff
       [] tier <= 4 -> IF 2 ^ tier > MaxBackoff THEN MaxBackoff ELSE 2 ^ tier

\* The boot probe of Run, or a tick: the targets of the loop are probed.
probeAll(l) ==
  /\ loop[l] \in {"boot", "idle"} /\ \A t \in Targets : Owner(t) = l => probing[t] = "idle"
  /\ loop' = [loop EXCEPT ![l] = "wait"]
  /\ probing' = [t \in Targets |-> IF Owner(t) # l THEN probing[t]
                                   ELSE IF t = Ollama THEN "tags" ELSE "out"]
  /\ UNCHANGED <<service, healthy, failures, interval, ticker, told, stopping, flips>>

recordFailure(t) ==
  LET n == IF failures[t] < FailureCap THEN failures[t] + 1 ELSE failures[t]
      trips == n >= BreakerAfter
  IN /\ failures' = [failures EXCEPT ![t] = n]
     /\ healthy' = [healthy EXCEPT ![t] = @ /\ ~trips]
     /\ interval' = IF trips /\ t = Ollama THEN calcBackoffInterval(n) ELSE interval
     /\ told' = IF trips /\ healthy[t] /\ t # Ollama THEN [told EXCEPT ![t] = "trip"] ELSE told

BugRecordSuccess(t) ==
  /\ failures' = failures /\ healthy' = [healthy EXCEPT ![t] = TRUE]
  /\ interval' = IF t = Ollama THEN 1 ELSE interval
  /\ told' = IF ~healthy[t] /\ t # Ollama THEN [told EXCEPT ![t] = "recovery"] ELSE told

recordSuccess(t) ==
  /\ failures' = [failures EXCEPT ![t] = 0]
  /\ healthy' = [healthy EXCEPT ![t] = TRUE]
  /\ interval' = IF t = Ollama THEN 1 ELSE interval
  /\ told' = IF ~healthy[t] /\ t # Ollama THEN [told EXCEPT ![t] = "recovery"] ELSE told

\* GET /models: anything below 500 is a success.
probeOne(p) ==
  /\ probing[p] = "out" /\ probing' = [probing EXCEPT ![p] = "idle"]
  /\ IF service[p] = "down" THEN recordFailure(p) ELSE recordSuccess(p)
  /\ UNCHANGED <<service, ticker, loop, stopping, flips>>

\* GET /api/tags, then a chat with the model, which a 4xx fails as well.
probe ==
  /\ \/ /\ probing[Ollama] = "tags" /\ service[Ollama] # "down"
        /\ probing' = [probing EXCEPT ![Ollama] = "chat"]
        /\ UNCHANGED <<healthy, failures, interval, told>>
     \/ /\ probing[Ollama] = "tags" /\ service[Ollama] = "down" /\ recordFailure(Ollama)
        /\ probing' = [probing EXCEPT ![Ollama] = "idle"]
     \/ /\ probing[Ollama] = "chat" /\ probing' = [probing EXCEPT ![Ollama] = "idle"]
        /\ IF service[Ollama] = "up" THEN recordSuccess(Ollama) ELSE recordFailure(Ollama)
  /\ UNCHANGED <<service, ticker, loop, stopping, flips>>

\* The probes are back.  Ollama's loop compares the backoff with the interval
\* recordFailure has already stored, and makes a new ticker if they differ.
ProbesBack(l) ==
  /\ loop[l] = "wait" /\ \A t \in Targets : Owner(t) = l => probing[t] = "idle"
  /\ loop' = [loop EXCEPT ![l] = "idle"]
  /\ ticker' = IF /\ l = Ollama /\ ~healthy[Ollama] /\ failures[Ollama] >= BreakerAfter
                  /\ calcBackoffInterval(failures[Ollama]) # interval
               THEN calcBackoffInterval(failures[Ollama]) ELSE ticker
  /\ UNCHANGED <<service, healthy, failures, interval, probing, told, stopping, flips>>

Close(l) ==
  /\ stopping[l] = "no" /\ stopping' = [stopping EXCEPT ![l] = "closing"]
  /\ UNCHANGED <<service, healthy, failures, interval, ticker, probing, loop, told, flips>>

BugLoopExits(l) ==
  /\ l = Ollama /\ loop[l] = "idle" /\ stopping[l] # "no" /\ loop' = [loop EXCEPT ![l] = "exited"]
  /\ UNCHANGED <<service, healthy, failures, interval, ticker, probing, told, stopping, flips>>

LoopExits(l) ==
  /\ loop[l] = "idle" /\ stopping[l] # "no" /\ loop' = [loop EXCEPT ![l] = "exited"]
  /\ UNCHANGED <<service, healthy, failures, interval, ticker, probing, told, stopping, flips>>

CloseReturns(l) ==
  /\ stopping[l] = "closing" /\ loop[l] \in {"boot", "exited"}
  /\ stopping' = [stopping EXCEPT ![l] = "yes"]
  /\ UNCHANGED <<service, healthy, failures, interval, ticker, probing, loop, told, flips>>

ServiceChanges(t) ==
  /\ flips < MaxFlips /\ flips' = flips + 1
  /\ \E s \in {"up", "down", "nomodel"} : s # service[t] /\ service' = [service EXCEPT ![t] = s]
  /\ UNCHANGED <<healthy, failures, interval, ticker, probing, loop, told, stopping>>

LoopNext(l) ==
  \/ probeAll(l) \/ ProbesBack(l) \/ Close(l) \/ LoopExits(l) \/ CloseReturns(l)
  \/ l = Ollama /\ probe
  \/ \E p \in Providers : l = Owner(p) /\ probeOne(p)
  \/ \E t \in Targets : l = Owner(t) /\ ServiceChanges(t)

PollNext == \E l \in Loops : LoopNext(l)

\* ReadyzHandler.
Readyz(mode, frontier) ==
  IF mode = "strict" /\ ~healthy[Ollama] /\ ~frontier THEN "not_ready" ELSE "ready"

-----------------------------------------------------------------------------
\* Verdict, count and callbacks agree after every probe: a target is unhealthy
\* exactly when the last BreakerAfter probes of it failed, the metrics were told
\* of a trip and not yet of a recovery just then, and /readyz gives up only then.
VerdictsAgree ==
  /\ \A t \in Targets : healthy[t] <=> failures[t] < BreakerAfter
  /\ \A p \in Providers : told[p] = "trip" <=> ~healthy[p]
  /\ Readyz("strict", FALSE) = "not_ready" <=> failures[Ollama] >= BreakerAfter

\* "After the breaker trips, the ticker interval is increased via exponential
\* backoff": the loop polls at the interval PollingInterval reports.
\* The code does not keep this: recordFailure has already stored the
\* interval the loop compares with, so no new ticker is ever made.
BackoffApplied == loop[Ollama] = "idle" => ticker = interval

\* "capped at 15x pollInterval": the interval is one the table of tiers allows.
\* The code does not keep this: 1 << tier wraps after some 126 failures.
IntervalCapped == interval \in 1..MaxBackoff

\* A service that stays as it is gets its verdict, and a closed poller ends
\* though a probe is out: in the end every loop that runs on has the right
\* verdict of each of its targets.
VerdictsSettle ==
  <>[](\A t \in Targets :
         \/ stopping[Owner(t)] = "yes"
         \/ /\ stopping[Owner(t)] = "no"
            /\ healthy[t] <=> IF t = Ollama THEN service[t] = "up" ELSE service[t] # "down")
=============================================================================
