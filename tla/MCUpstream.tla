----------------------------- MODULE MCUpstream -----------------------------
(* The coalescer and the fusion panel on small instances: every endpoint   *)
(* has a key of its own, and a behaviour is about one of the two.          *)
EXTENDS Coalescer

CONSTANTS Requests, Texts, ArbiterEntries, ArbiterTTL, PanelClock, MaxPanels

VARIABLES focus, stage, mode, results, texts, wire, outcome, left, items, lru, time, panels

F == INSTANCE FusionPanel WITH MaxEntries <- ArbiterEntries, CacheTTL <- ArbiterTTL

\* NewArbiterCache replaces a cap of zero by the default one.
ASSUME UpstreamAssumption ==
  /\ ArbiterEntries \in Nat \ {0} /\ ArbiterTTL \in Nat /\ PanelClock \in Nat /\ MaxPanels \in Nat
  /\ F!NoText \in Texts

panelVars == <<stage, mode, results, texts, wire, outcome, left, items, lru, time, panels>>

OwnKeys == [e \in Endpoints |-> e]

\* One initial state of the part a behaviour is not about.
UpstreamInit ==
  /\ focus \in {"coalescer", "panel"}
  /\ Init /\ F!PanelInit
  /\ focus = "coalescer" => lru = <<>>
  /\ focus = "panel" => target = [c \in Callers |-> CHOOSE e \in Endpoints : TRUE]

UpstreamNext ==
  /\ UNCHANGED focus
  /\ \/ focus = "coalescer" /\ Next /\ UNCHANGED panelVars
     \/ focus = "panel" /\ F!PanelNext /\ UNCHANGED vars

\* Goroutines run on and exchanges end: each has a timeout.
UpstreamFairness ==
  /\ \A c \in Callers : WF_vars(focus = "coalescer" /\ Do(c))
  /\ \A r \in Requests : WF_panelVars(focus = "panel" /\ F!PanelStep(r))

UpstreamSpec == UpstreamInit /\ [][UpstreamNext]_<<focus, vars, panelVars>> /\ UpstreamFairness

\* What a run leaves out of UpstreamSpec.  The members of a panel answer while another
\* waits before the cache: they share nothing with it, so when they answer makes no
\* difference to it.  Idle requests are all alike: the first of them is launched.  Only who
\* stands before the cache or the arbiter reads the clock: it waits for them.
InTurn ==
  /\ \A r \in Requests : stage'[r] = "members" =>
       /\ \A q \in Requests \ {r} : stage'[q] \in {"idle", "arbiter"}
       /\ stage[r] = "idle" => \A q \in Requests : q < r => stage[q] # "idle"
  /\ time' # time => \E r \in Requests : stage[r] \in {"arbiter", "synthesis"}

\* A cache that is warm knows what members said that differ.
RunInit == UpstreamInit /\ lru \in {<<>>, <<Texts>>}

UpstreamRun ==
  RunInit /\ [][UpstreamNext /\ InTurn]_<<focus, vars, panelVars>> /\ UpstreamFairness

\* One exchange per key at a time, each with the endpoint its caller meant, and eviction
\* can reach whatever is cached (upstream/coalesce.go).
FlightsSound == OneFlight /\ OwnEndpoint /\ OrderCovers

\* Clients of the panel get what its members and the arbiter said; the arbiter cache is
\* bounded and its order names what it holds (upstream/upstream.go, arbiter_cache.go).
PanelSound == F!PanelHonest /\ F!ArbiterCacheSound

\* A reply is shared only within its window, and the first chunk of a panel is from a
\* member that did not fail and brings its tool calls.
RepliesHonest == SharedInWindow /\ F!WinnerHonest

\* Whoever calls the coalescer or launches a panel gets out of it.
UpstreamReturns == DoReturns /\ F!PanelEnds
=============================================================================
