----------------------------- MODULE MCMonitors -----------------------------
(* What watches the proxy's surroundings, on small instances: the VRAM     *)
(* probe, the health pollers and the spend accounts.  A behaviour is about *)
(* one of them.                                                            *)
EXTENDS ProbeManager

CONSTANTS Providers, BreakerAfter, MaxBackoff, FailureCap, MaxFlips,
          Window, Minute, Costs, Limits, MaxClock, MaxSpends

VARIABLES focus, service, healthy, failures, interval, ticker, probing, loop, told, stopping, flips,
          clock, log, window, limit, sent, alerts, buckets, total

H == INSTANCE Pollers
B == INSTANCE Spend

pollVars == <<service, healthy, failures, interval, ticker, probing, loop, told, stopping, flips>>
spendVars == <<clock, log, window, limit, sent, alerts, buckets, total>>
allVars == <<focus, vars, pollVars, spendVars>>

\* breakerThreshold is a positive constant, and no provider is called like the poller.
ASSUME MonitorsAssumption ==
  BreakerAfter \in Nat \ {0} /\ FailureCap \in Nat /\ H!Ollama \notin Providers

\* A spend costs something, a bucket is a minute long and a limit is not negative.
ASSUME SpendAssumption ==
  /\ Window \in Nat /\ Minute \in Nat \ {0}
  /\ Costs \subseteq Nat /\ Limits \subseteq Nat

\* One initial state of the parts a behaviour is not about.
Quiet ==
  /\ focus # "probe" => ollama = Error /\ smi = Error /\ sysfs = (CHOOSE x \in SysfsReadings : TRUE)
  /\ \A t \in H!Targets : focus # H!Owner(t) => service[t] = "up"
  /\ focus # "spend" => limit = (CHOOSE l \in Limits : TRUE)

MonitorsInit ==
  focus \in {"probe", "spend"} \cup H!Loops /\ Init /\ H!PollInit /\ B!SpendInit /\ Quiet

MonitorsNext ==
  /\ UNCHANGED focus
  /\ \/ focus = "probe" /\ Next /\ UNCHANGED <<pollVars, spendVars>>
     \/ focus \in H!Loops /\ H!LoopNext(focus) /\ UNCHANGED <<vars, spendVars>>
     \/ focus = "spend" /\ B!SpendNext /\ UNCHANGED <<vars, pollVars>>

Probe(A) == focus = "probe" /\ A
Poll(l, A) == focus = l /\ A

\* Tickers fire, probes end (they have a timeout), and a loop whose channel is
\* closed sees it, though select may prefer the ticker some of the time.  The
\* steps of one goroutine share a condition: they come one after the other.
MonitorsSpec ==
  /\ MonitorsInit /\ [][MonitorsNext]_allVars
  /\ WF_vars(Probe(Read("run") \/ BootPublish))
  /\ WF_vars(Probe(LoopTick("poll") \/ Read("poll") \/ PollPublish))
  /\ WF_vars(Probe(LoopTick("nvidia") \/ Refresh))
  /\ \A g \in {"poll", "nvidia"} : SF_vars(Probe(LoopExit(g)))
  /\ WF_vars(Probe(CloseReturns))
  /\ WF_pollVars(Poll("ollama", H!probe) \/ Poll("frontier", \E p \in Providers : H!probeOne(p)))
  /\ WF_pollVars(\E l \in H!Loops : Poll(l, H!probeAll(l) \/ H!ProbesBack(l) \/ H!CloseReturns(l)))
  /\ SF_pollVars(\E l \in H!Loops : Poll(l, H!LoopExits(l)))

\* Health verdicts, failure counts, callbacks and /readyz agree.
VerdictsAgree == H!VerdictsAgree

\* Services that stay as they are get their verdicts, a lasting model swap is noticed
\* (probe/probe.go:364-470), and closed pollers and probes end.
MonitorsSettle == H!VerdictsSettle /\ SwapNoticed /\ CloseEnds

\* What the probe publishes agrees with itself, and a failed probe takes no budget away
\* (probe/probe.go:364-470).
BudgetSound == []BudgetConsistent /\ BudgetKept

\* The spend accounts cover the window up to one minute's bucket.
AccountsBound == B!AccountsBound
=============================================================================
