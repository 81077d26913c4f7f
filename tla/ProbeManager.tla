---------------------------- MODULE ProbeManager ----------------------------
(***************************************************************************)
(* The VRAM probe manager (src/internal/probe/probe.go) and the budget it  *)
(* computes (src/internal/probe/ollama.go).  Its snapshot feeds the local  *)
(* limiter (free VRAM) and the token guardrail (tokens).                   *)
(*                                                                         *)
(* Three goroutines write the snapshot: Run's boot probe, the poll loop    *)
(* and the NVIDIA refresh.  A probe reads its signals some time before it  *)
(* publishes, and the refresh loads the snapshot, changes it and stores it *)
(* back without a lock; each of these is an action.                        *)
(***************************************************************************)
EXTENDS Integers

CONSTANTS
  Contexts,        \* context windows Ollama may report; 0: no model is loaded
  Frees,           \* free VRAM the sysfs nodes or nvidia-smi may report
  BytesPerToken,   \* NEXUS_PROBE_BYTES_PER_TOKEN
  DefaultBytesPerToken,
  Interval,        \* NEXUS_PROBE_INTERVAL
  NvidiaInterval,  \* NEXUS_PROBE_NVIDIA_INTERVAL, 0 disables the refresh
  Sysfs,           \* are there AMD sysfs nodes on this host?
  Thermal          \* may the GPU get too hot?

Error == -1        \* a signal that cannot be read

ASSUME ProbeAssumption ==
  /\ Contexts \subseteq Nat /\ Frees \subseteq Nat
  /\ BytesPerToken \in Nat \ {0} /\ DefaultBytesPerToken \in Nat \ {0}
  /\ Interval \in Nat /\ NvidiaInterval \in Nat
  /\ Sysfs \in BOOLEAN /\ Thermal \in BOOLEAN

VARIABLES
  ollama,    \* what /api/ps would answer now
  sysfs,     \* what the sysfs nodes would say now
  smi,       \* what nvidia-smi would say now, summed over its GPUs
  hot,       \* is the GPU above the thermal threshold?
  latest,    \* Manager.latest
  pc,        \* where each goroutine stands
  reading,   \* what each goroutine has in hand
  closed     \* "no", "closing" (the channel is closed) or "yes" (Close returned)

vars == <<ollama, sysfs, smi, hot, latest, pc, reading, closed>>
signals == <<ollama, sysfs, smi, hot>>

Tokens(free, bpt) == IF free <= 0 \/ bpt <= 0 THEN 0 ELSE free \div bpt

\* The smaller of the model context and what the free VRAM holds.
Combine(context, free, bpt) ==
  IF Tokens(free, bpt) > 0 /\ (context = 0 \/ Tokens(free, bpt) < context)
  THEN Tokens(free, bpt) ELSE context

Snapshot(tokens, context, free) ==
  [tokens |-> tokens, context |-> context, free |-> free, bpt |-> BytesPerToken]

\* What Get answers while nothing has been published.
Static == [tokens |-> 0, context |-> 0, free |-> 0, bpt |-> 0]

Failed == Snapshot(Error, 0, 0)

\* OllamaProbe.Budget.
Budget ==
  CASE hot                                   -> Snapshot(0, 0, 0)
    [] ~hot /\ ollama = Error /\ sysfs = Error -> Failed
    [] ~hot /\ ollama = Error /\ sysfs # Error -> Snapshot(Tokens(sysfs, BytesPerToken), 0, sysfs)
    [] ~hot /\ ollama # Error /\ sysfs = Error ->
         IF ollama <= 0 THEN Failed ELSE Snapshot(ollama, ollama, 0)
    [] ~hot /\ ollama # Error /\ sysfs # Error ->
         Snapshot(Combine(ollama, sysfs, BytesPerToken), ollama, sysfs)

\* NewManager replaces a non-positive interval by a minute.
PollInterval == IF Interval <= 0 THEN 60 ELSE Interval

SysfsReadings == IF Sysfs THEN Frees ELSE {Error}
SmiReadings   == IF NvidiaInterval > 0 THEN Frees \cup {Error} ELSE {Error}

Init ==
  /\ ollama \in Contexts \cup {Error} /\ sysfs \in SysfsReadings
  /\ smi \in SmiReadings /\ hot = FALSE
  /\ latest = Static
  /\ pc = [run |-> "probe", poll |-> "off", nvidia |-> "off"]
  /\ reading = [run |-> Static, poll |-> Static, nvidia |-> Static]
  /\ closed = "no"

Goto(g, here, there) == pc[g] = here /\ pc' = [pc EXCEPT ![g] = there]

Drop(g) == reading' = [reading EXCEPT ![g] = Static]

-----------------------------------------------------------------------------
\* doProbe, first half: read the signals, within the probe timeout.
Read(g) ==
  /\ g \in {"run", "poll"}
  /\ Goto(g, "probe", "publish")
  /\ reading' = [reading EXCEPT ![g] = Budget]
  /\ UNCHANGED <<signals, latest, closed>>

\* A failed or empty probe is published like any other.
BugPublish(b) ==
  latest' = IF b.tokens = Error THEN latest ELSE b

\* doProbe, second half: an error or an empty budget keeps the previous one.
Publish(b) ==
  latest' = IF b.tokens <= 0 THEN latest ELSE b

\* The end of the boot probe; Run then starts the loops.
BootPublish ==
  /\ pc.run = "publish"
  /\ Publish(reading.run) /\ Drop("run")
  /\ pc' = [run |-> "done",
            poll |-> IF PollInterval > 0 THEN "idle" ELSE "off",
            nvidia |-> IF NvidiaInterval > 0 THEN "idle" ELSE "off"]
  /\ UNCHANGED <<signals, closed>>

PollPublish ==
  /\ Goto("poll", "publish", "idle")
  /\ Publish(reading.poll) /\ Drop("poll")
  /\ UNCHANGED <<signals, closed>>

\* A ticker fires, or the loop sees that it is to end.
LoopTick(g) ==
  /\ g \in {"poll", "nvidia"}
  /\ Goto(g, "idle", "probe")
  /\ UNCHANGED <<signals, latest, reading, closed>>

LoopExit(g) ==
  /\ g \in {"poll", "nvidia"}
  /\ closed # "no"
  /\ Goto(g, "idle", "exited")
  /\ UNCHANGED <<signals, latest, reading, closed>>

\* mergeNVIDIA: run nvidia-smi; without a positive sum there is nothing to do.
RefreshRead ==
  /\ \/ smi <= 0 /\ Goto("nvidia", "probe", "idle") /\ UNCHANGED reading
     \/ smi > 0 /\ Goto("nvidia", "probe", "load")
        /\ reading' = [reading EXCEPT !.nvidia.free = smi]
  /\ UNCHANGED <<signals, latest, closed>>

\* cur := m.Get(); a snapshot without a bytes-per-token figure gets the default.
RefreshLoad ==
  /\ Goto("nvidia", "load", "publish")
  /\ reading' = [reading EXCEPT !.nvidia =
       [latest EXCEPT !.free = reading.nvidia.free,
                      !.bpt = IF @ <= 0 THEN DefaultBytesPerToken ELSE @]]
  /\ UNCHANGED <<signals, latest, closed>>

RefreshStore ==
  /\ Goto("nvidia", "publish", "idle")
  /\ latest' = [reading.nvidia EXCEPT !.tokens =
       Combine(reading.nvidia.context, reading.nvidia.free, reading.nvidia.bpt)]
  /\ Drop("nvidia")
  /\ UNCHANGED <<signals, closed>>

\* Close: close the channel, then wait for the loops that have been started.
Close ==
  /\ closed = "no" /\ closed' = "closing"
  /\ UNCHANGED <<signals, latest, pc, reading>>

CloseReturns ==
  /\ closed = "closing" /\ closed' = "yes"
  /\ pc.poll \in {"off", "exited"} /\ pc.nvidia \in {"off", "exited"}
  /\ UNCHANGED <<signals, latest, pc, reading>>

\* The environment: a model is swapped, VRAM is taken or freed, the GPU heats up.
SignalsChange ==
  /\ \/ ollama' \in Contexts \cup {Error} /\ UNCHANGED <<sysfs, smi, hot>>
     \/ sysfs' \in SysfsReadings /\ UNCHANGED <<ollama, smi, hot>>
     \/ smi' \in SmiReadings /\ UNCHANGED <<ollama, sysfs, hot>>
     \/ Thermal /\ hot' = ~hot /\ UNCHANGED <<ollama, sysfs, smi>>
  /\ UNCHANGED <<latest, pc, reading, closed>>

Refresh == RefreshRead \/ RefreshLoad \/ RefreshStore

Next ==
  \/ \E g \in {"run", "poll", "nvidia"} : LoopTick(g) \/ LoopExit(g) \/ Read(g)
  \/ BootPublish \/ PollPublish \/ Refresh
  \/ Close \/ CloseReturns \/ SignalsChange

Spec == Init /\ [][Next]_vars

\* Tickers fire and probes end (they have a timeout).  Once the channel is closed
\* a loop sees it, though the ticker may be ready as well and select prefers
\* neither: it chooses at random, for ever.
FairSpec ==
  /\ Spec
  /\ WF_vars(BootPublish) /\ WF_vars(PollPublish) /\ WF_vars(Refresh)
  /\ \A g \in {"run", "poll", "nvidia"} :
       WF_vars(Read(g)) /\ WF_vars(LoopTick(g)) /\ SF_vars(LoopExit(g))
  /\ WF_vars(CloseReturns)
-----------------------------------------------------------------------------
Budgets ==
  [tokens : Nat \cup {Error}, context : Contexts \cup {0}, free : Frees \cup {0},
   bpt : {0, BytesPerToken, DefaultBytesPerToken}]

TypeOK ==
  /\ ollama \in Contexts \cup {Error} /\ sysfs \in SysfsReadings
  /\ smi \in SmiReadings /\ hot \in BOOLEAN
  /\ latest \in Budgets /\ latest.tokens >= 0
  /\ pc \in [{"run", "poll", "nvidia"} ->
               {"off", "idle", "probe", "load", "publish", "done", "exited"}]
  /\ reading \in [{"run", "poll", "nvidia"} -> Budgets]
  /\ closed \in {"no", "closing", "yes"}

\* "Keep the budget internally consistent": whoever published it, and whatever
\* was published in between, the tokens are the minimum of what the snapshot's
\* own context and free VRAM allow.
BudgetConsistent ==
  latest.tokens = Combine(latest.context, latest.free, latest.bpt)

\* A transient failure of the probe never takes a published budget away; only a
\* refresh that loaded no context and finds less than one token of VRAM can.
BudgetKept ==
  [][latest.tokens > 0 =>
       \/ latest'.tokens > 0
       \/ pc.nvidia = "publish" /\ reading.nvidia.context = 0]_vars

\* Close comes back, even if the channel is closed while a probe is running.
CloseEnds == (closed = "closing") ~> (closed = "yes")

\* A model swap is noticed: once Ollama keeps naming one context window, the
\* snapshot shows it again and again.  Not for good: a refresh stores the context
\* it loaded over a probe that was published while it worked, but every later
\* poll puts that right.
SwapNoticed ==
  \A k \in Contexts \ {0} :
    <>[](ollama = k /\ ~hot /\ closed = "no") => []<>(latest.context = k)

\* "The probe collapses the budget to zero and lets the router fall back to the
\* static guardrail": a GPU that stays hot is not offered its old budget.
\* The code does not keep this: doProbe takes the zero budget for an empty one.
ThrottleHeeded == (<>[]hot) => <>[](latest.tokens = 0)
=============================================================================
