-------------------------- MODULE Monitors_proofs --------------------------
(***************************************************************************)
(* Proofs about what watches the proxy's surroundings: the verdicts of the *)
(* health pollers, for any providers and any threshold; the budget the     *)
(* VRAM probe publishes, for any readings, whichever of its goroutines     *)
(* publishes it; and the two accounts of what was spent, for any window,   *)
(* any length of a bucket and any costs.                                   *)
(***************************************************************************)
EXTENDS MCMonitors, SequenceTheorems, WellFoundedInduction, TLAPS

-----------------------------------------------------------------------------
(* The health pollers. *)

VerdictTypes ==
  /\ healthy \in [H!Targets -> BOOLEAN]
  /\ failures \in [H!Targets -> Nat]
  /\ told \in [Providers -> {"none", "trip", "recovery"}]

VerdictInv == VerdictTypes /\ VerdictsAgree

\* Everybody is healthy and nobody was told anything.
LEMMA VerdictStarts == H!PollInit => VerdictInv
  BY MonitorsAssumption
  DEF H!PollInit, VerdictInv, VerdictTypes, VerdictsAgree, H!VerdictsAgree, H!Readyz,
      H!Targets, H!Ollama

\* What a probe that failed leaves behind.
LEMMA FailureKeeps ==
  ASSUME VerdictInv, NEW t \in H!Targets, H!recordFailure(t)
  PROVE  VerdictInv'
  <1> USE MonitorsAssumption DEF H!Targets, H!Ollama
  <1> DEFINE n == IF failures[t] < FailureCap THEN failures[t] + 1 ELSE failures[t]
  <1>1. n \in Nat /\ n >= failures[t] /\ (n # failures[t] => n = failures[t] + 1)
    BY DEF VerdictInv, VerdictTypes
  <1>2. /\ failures' = [failures EXCEPT ![t] = n]
        /\ healthy' = [healthy EXCEPT ![t] = @ /\ ~(n >= BreakerAfter)]
        /\ told' = IF n >= BreakerAfter /\ healthy[t] /\ t # H!Ollama
                   THEN [told EXCEPT ![t] = "trip"] ELSE told
    BY DEF H!recordFailure
  <1> HIDE DEF n
  <1>3. failures' \in [H!Targets -> Nat]
    BY <1>1, <1>2 DEF VerdictInv, VerdictTypes
  <1>4. healthy' \in [H!Targets -> BOOLEAN]
    BY <1>2, Zenon DEF VerdictInv, VerdictTypes
  <1>5. told' \in [Providers -> {"none", "trip", "recovery"}]
    BY <1>2 DEF VerdictInv, VerdictTypes
  <1>6. \A u \in H!Targets : healthy'[u] <=> failures'[u] < BreakerAfter
    <2> TAKE u \in H!Targets
    <2>1. CASE u # t
      BY <1>2, <2>1 DEF VerdictInv, VerdictTypes, VerdictsAgree, H!VerdictsAgree
    <2>2. CASE u = t
      <3>1. healthy'[t] <=> (healthy[t] /\ ~(n >= BreakerAfter))
        BY <1>2 DEF VerdictInv, VerdictTypes
      <3>2. failures'[t] = n
        BY <1>2 DEF VerdictInv, VerdictTypes
      <3>3. healthy[t] <=> failures[t] < BreakerAfter
        BY DEF VerdictInv, VerdictsAgree, H!VerdictsAgree
      <3>4. failures[t] \in Nat
        BY DEF VerdictInv, VerdictTypes
      <3> QED BY <1>1, <2>2, <3>1, <3>2, <3>3, <3>4
    <2> QED BY <2>1, <2>2
  <1>7. \A p \in Providers : told'[p] = "trip" <=> ~healthy'[p]
    <2> TAKE p \in Providers
    <2>1. told[p] = "trip" <=> ~healthy[p]
      BY DEF VerdictInv, VerdictsAgree, H!VerdictsAgree
    <2>2. CASE p # t
      BY <1>2, <2>1, <2>2 DEF VerdictInv, VerdictTypes
    <2>3. CASE p = t
      <3>1. healthy'[t] <=> (healthy[t] /\ ~(n >= BreakerAfter))
        BY <1>2 DEF VerdictInv, VerdictTypes
      <3>2. told'[t] = IF n >= BreakerAfter /\ healthy[t] THEN "trip" ELSE told[t]
        BY <1>2, <2>3 DEF VerdictInv, VerdictTypes
      <3> QED BY <2>1, <2>3, <3>1, <3>2
    <2> QED BY <2>2, <2>3
  <1>8. H!Readyz("strict", FALSE)' = "not_ready" <=> failures'[H!Ollama] >= BreakerAfter
    BY <1>3, <1>6 DEF H!Readyz
  <1> QED
    BY <1>3, <1>4, <1>5, <1>6, <1>7, <1>8
    DEF VerdictInv, VerdictTypes, VerdictsAgree, H!VerdictsAgree

\* What a probe that succeeded leaves behind.
LEMMA SuccessKeeps ==
  ASSUME VerdictInv, NEW t \in H!Targets, H!recordSuccess(t)
  PROVE  VerdictInv'
  <1> USE MonitorsAssumption DEF H!Targets, H!Ollama
  <1>1. /\ failures' = [failures EXCEPT ![t] = 0]
        /\ healthy' = [healthy EXCEPT ![t] = TRUE]
        /\ told' = IF ~healthy[t] /\ t # H!Ollama THEN [told EXCEPT ![t] = "recovery"] ELSE told
    BY DEF H!recordSuccess
  <1>2. failures' \in [H!Targets -> Nat] /\ healthy' \in [H!Targets -> BOOLEAN]
    BY <1>1 DEF VerdictInv, VerdictTypes
  <1>3. told' \in [Providers -> {"none", "trip", "recovery"}]
    BY <1>1 DEF VerdictInv, VerdictTypes
  <1>4. \A u \in H!Targets : healthy'[u] <=> failures'[u] < BreakerAfter
    BY <1>1 DEF VerdictInv, VerdictTypes, VerdictsAgree, H!VerdictsAgree
  <1>5. \A p \in Providers : told'[p] = "trip" <=> ~healthy'[p]
    BY <1>1 DEF VerdictInv, VerdictTypes, VerdictsAgree, H!VerdictsAgree
  <1>6. H!Readyz("strict", FALSE)' = "not_ready" <=> failures'[H!Ollama] >= BreakerAfter
    BY <1>2, <1>4 DEF H!Readyz
  <1> QED
    BY <1>2, <1>3, <1>4, <1>5, <1>6
    DEF VerdictInv, VerdictTypes, VerdictsAgree, H!VerdictsAgree

\* Only the end of a probe touches verdicts, counts and callbacks.
LEMMA VerdictsSame ==
  ASSUME VerdictInv, UNCHANGED <<healthy, failures, told>>
  PROVE  VerdictInv'
  BY DEF VerdictInv, VerdictTypes, VerdictsAgree, H!VerdictsAgree, H!Readyz

\* Every step of a loop keeps verdicts, counts and callbacks in agreement.
LEMMA VerdictStep ==
  ASSUME VerdictInv, NEW l, H!LoopNext(l)
  PROVE  VerdictInv'
  <1>1. CASE H!probeAll(l) \/ H!ProbesBack(l) \/ H!Close(l) \/ H!LoopExits(l) \/ H!CloseReturns(l)
    BY <1>1, VerdictsSame
    DEF H!probeAll, H!ProbesBack, H!Close, H!LoopExits, H!CloseReturns
  <1>2. CASE H!probe
    BY <1>2, VerdictsSame, FailureKeeps, SuccessKeeps DEF H!probe, H!Targets
  <1>3. ASSUME NEW p \in Providers, H!probeOne(p) PROVE VerdictInv'
    BY <1>3, FailureKeeps, SuccessKeeps DEF H!probeOne, H!Targets
  <1>4. ASSUME NEW t \in H!Targets, H!ServiceChanges(t) PROVE VerdictInv'
    BY <1>4, VerdictsSame DEF H!ServiceChanges
  <1> QED BY <1>1, <1>2, <1>3, <1>4 DEF H!LoopNext

\* For every set of providers and every threshold: a target is unhealthy exactly when as
\* many probes of it failed in a row as the threshold says, the circuit metrics were told
\* of a trip and not yet of a recovery just then, and /readyz in strict mode gives up
\* exactly when Ollama is unhealthy, though probes of several targets end in any order
\* while the loops are started, closed and waited for (internal/health).
THEOREM HealthVerdictsAgree == MonitorsSpec => []VerdictsAgree
  <1>1. MonitorsInit => VerdictInv
    BY VerdictStarts DEF MonitorsInit
  <1>2. VerdictInv /\ [MonitorsNext]_allVars => VerdictInv'
    <2> SUFFICES ASSUME VerdictInv, [MonitorsNext]_allVars PROVE VerdictInv'
      OBVIOUS
    <2>1. CASE UNCHANGED pollVars
      BY <2>1, VerdictsSame DEF pollVars
    <2>2. CASE \E l \in H!Loops : H!LoopNext(l)
      BY <2>2, VerdictStep
    <2> QED BY <2>1, <2>2 DEF MonitorsNext, allVars
  <1>3. VerdictInv => VerdictsAgree
    BY DEF VerdictInv
  <1> QED BY <1>1, <1>2, <1>3, PTL DEF MonitorsSpec

-----------------------------------------------------------------------------
(* The VRAM probe. *)

\* What a goroutine is about to publish agrees with itself, if it says anything.
ProbedConsistent ==
  \A g \in {"run", "poll"} : reading[g].tokens > 0 =>
    reading[g].tokens = Combine(reading[g].context, reading[g].free, reading[g].bpt)

BudgetInv == TypeOK /\ BudgetConsistent /\ ProbedConsistent

\* The figures of a budget are natural numbers, but for the mark of a failure.
LEMMA BudgetFigures ==
  ASSUME NEW b \in Budgets
  PROVE  b.context \in Nat /\ b.free \in Nat /\ b.bpt \in Nat /\ b.tokens \in Nat \cup {-1}
  <1>1. b.context \in Contexts \cup {0} /\ b.free \in Frees \cup {0} /\ b.tokens \in Nat \cup {-1}
    BY DEF Budgets, Error
  <1>2. b.bpt \in {0, BytesPerToken, DefaultBytesPerToken}
    BY DEF Budgets
  <1>3. b.context \in Nat /\ b.free \in Nat
    <2>1. Contexts \cup {0} \subseteq Nat /\ Frees \cup {0} \subseteq Nat
      BY ProbeAssumption
    <2> QED BY <1>1, <2>1, Zenon
  <1>4. b.bpt \in Nat
    BY <1>2, ProbeAssumption
  <1> QED BY <1>1, <1>3, <1>4

\* A quotient of natural numbers is one.
LEMMA TokensNat ==
  ASSUME NEW free \in Nat, NEW bpt \in Nat
  PROVE  Tokens(free, bpt) \in Nat
  BY DEF Tokens

\* The combined budget is a natural number, and positive if there is a context.
LEMMA CombineNat ==
  ASSUME NEW context \in Nat, NEW free \in Nat, NEW bpt \in Nat
  PROVE  /\ Combine(context, free, bpt) \in Nat
         /\ context # 0 => Combine(context, free, bpt) > 0
  BY TokensNat DEF Combine

\* What the probe computes is a budget and agrees with itself.
LEMMA BudgetSays ==
  ASSUME TypeOK
  PROVE  /\ Budget \in Budgets
         /\ Budget.tokens > 0 => Budget.tokens = Combine(Budget.context, Budget.free, Budget.bpt)
  <1> USE ProbeAssumption DEF Error, Snapshot, Failed, Budgets
  <1>1. hot \in BOOLEAN /\ ollama \in Contexts \cup {-1} /\ sysfs \in Frees \cup {-1}
    BY DEF TypeOK, SysfsReadings
  <1>2. CASE hot
    BY <1>2 DEF Budget
  <1>3. CASE ~hot /\ ollama = Error /\ sysfs = Error
    BY <1>3 DEF Budget
  <1>4. CASE ~hot /\ ollama = Error /\ sysfs # Error
    <2>1. Budget = Snapshot(Tokens(sysfs, BytesPerToken), 0, sysfs)
      BY <1>4 DEF Budget
    <2>2. sysfs \in Frees /\ Tokens(sysfs, BytesPerToken) \in Nat
      BY <1>1, <1>4, TokensNat
    <2> HIDE DEF Budgets
    <2>3. Combine(0, sysfs, BytesPerToken) = Tokens(sysfs, BytesPerToken)
      BY <2>2 DEF Combine
    <2>4. Budget \in Budgets
      BY <2>1, <2>2 DEF Budgets
    <2> QED BY <2>1, <2>3, <2>4
  <1>5. CASE ~hot /\ ollama # Error /\ sysfs = Error
    <2>1. Budget = IF ollama <= 0 THEN Failed ELSE Snapshot(ollama, ollama, 0)
      BY <1>5 DEF Budget
    <2>2. ollama \in Contexts /\ ollama \in Nat
      BY <1>1, <1>5
    <2>3. Combine(ollama, 0, BytesPerToken) = ollama
      BY <2>2 DEF Combine, Tokens
    <2> QED BY <2>1, <2>2, <2>3
  <1>6. CASE ~hot /\ ollama # Error /\ sysfs # Error
    <2>1. Budget = Snapshot(Combine(ollama, sysfs, BytesPerToken), ollama, sysfs)
      BY <1>6 DEF Budget
    <2>2. ollama \in Contexts /\ sysfs \in Frees /\ Combine(ollama, sysfs, BytesPerToken) \in Nat
      BY <1>1, <1>6, CombineNat
    <2> QED BY <2>1, <2>2
  <1> QED BY <1>1, <1>2, <1>3, <1>4, <1>5, <1>6

\* Nothing has been published.
LEMMA BudgetStarts == Init => BudgetInv
  <1> SUFFICES ASSUME Init PROVE BudgetInv
    OBVIOUS
  <1> USE ProbeAssumption DEF Init
  <1>1. Static \in Budgets /\ Static.tokens = 0 /\ Combine(0, 0, 0) = 0
    BY DEF Static, Budgets, Combine, Tokens, Error
  <1>2. TypeOK
    <2>1. latest \in Budgets /\ latest.tokens >= 0
      BY <1>1
    <2>2. reading \in [{"run", "poll", "nvidia"} -> Budgets]
      BY <1>1
    <2>3. pc \in [{"run", "poll", "nvidia"} ->
                    {"off", "idle", "probe", "load", "publish", "done", "exited"}]
      OBVIOUS
    <2> QED BY <2>1, <2>2, <2>3 DEF TypeOK
  <1>3. BudgetConsistent
    BY <1>1 DEF BudgetConsistent, Static
  <1>4. ProbedConsistent
    BY <1>1 DEF ProbedConsistent
  <1> QED BY <1>2, <1>3, <1>4 DEF BudgetInv

\* Publishing keeps the snapshot a budget that agrees with itself, and never takes one away.
LEMMA PublishKeeps ==
  ASSUME BudgetInv, NEW g \in {"run", "poll"}, Publish(reading[g])
  PROVE  /\ latest' \in Budgets /\ latest'.tokens >= 0
         /\ BudgetConsistent'
         /\ latest.tokens > 0 => latest'.tokens > 0
  <1>1. reading[g] \in Budgets /\ latest \in Budgets /\ latest.tokens >= 0
    BY DEF BudgetInv, TypeOK
  <1>2. reading[g].tokens \in Int /\ latest.tokens \in Int
    BY <1>1, BudgetFigures
  <1>3. CASE reading[g].tokens <= 0
    BY <1>1, <1>3 DEF Publish, BudgetInv, BudgetConsistent
  <1>4. CASE ~(reading[g].tokens <= 0)
    <2>1. latest' = reading[g] /\ reading[g].tokens > 0
      BY <1>2, <1>4 DEF Publish
    <2> QED BY <1>1, <1>2, <2>1 DEF BudgetInv, BudgetConsistent, ProbedConsistent
  <1> QED BY <1>3, <1>4

\* A refresh publishes what the context and the VRAM it has in hand allow.
LEMMA RefreshKeeps ==
  ASSUME BudgetInv, RefreshStore
  PROVE  /\ latest' \in Budgets /\ latest'.tokens >= 0
         /\ BudgetConsistent'
         /\ reading.nvidia.context # 0 => latest'.tokens > 0
  <1> DEFINE b == reading["nvidia"]
             t == Combine(b.context, b.free, b.bpt)
  <1>1. b \in Budgets
    BY DEF BudgetInv, TypeOK
  <1>2. t \in Nat /\ (b.context # 0 => t > 0)
    BY <1>1, BudgetFigures, CombineNat
  <1>3. latest' = [b EXCEPT !.tokens = t]
    BY DEF RefreshStore
  <1> HIDE DEF t
  <1>4. /\ latest' \in Budgets /\ latest'.tokens = t /\ latest'.context = b.context
        /\ latest'.free = b.free /\ latest'.bpt = b.bpt
    BY <1>1, <1>2, <1>3 DEF Budgets
  <1>5. BudgetConsistent'
    BY <1>4 DEF BudgetConsistent, t
  <1> QED BY <1>2, <1>4, <1>5

\* A goroutine puts down what it had in hand.
LEMMA DropKeeps ==
  ASSUME BudgetInv, NEW g \in {"run", "poll", "nvidia"}, Drop(g)
  PROVE  reading' \in [{"run", "poll", "nvidia"} -> Budgets] /\ ProbedConsistent'
  <1>1. Static \in Budgets /\ Static.tokens = 0
    BY ProbeAssumption DEF Static, Budgets, Error
  <1>2. reading' \in [{"run", "poll", "nvidia"} -> Budgets]
    BY <1>1 DEF Drop, BudgetInv, TypeOK
  <1>3. \A h \in {"run", "poll"} : reading'[h] = reading[h] \/ reading'[h] = Static
    BY DEF Drop, BudgetInv, TypeOK
  <1> QED BY <1>1, <1>2, <1>3 DEF ProbedConsistent, BudgetInv

\* Every step of the probe, its refresh and its surroundings keeps the invariant.
LEMMA BudgetStep ==
  ASSUME BudgetInv, Next
  PROVE  BudgetInv'
  <1> USE DEF signals
  <1>1. ASSUME NEW g \in {"run", "poll", "nvidia"}, LoopTick(g) \/ LoopExit(g) PROVE BudgetInv'
    BY <1>1 DEF LoopTick, LoopExit, Goto, BudgetInv, TypeOK, BudgetConsistent, ProbedConsistent
  <1>2. ASSUME NEW g \in {"run", "poll", "nvidia"}, Read(g) PROVE BudgetInv'
    <2>1. g \in {"run", "poll"} /\ reading' = [reading EXCEPT ![g] = Budget] /\ TypeOK
      BY <1>2 DEF Read, BudgetInv
    <2>2. reading' \in [{"run", "poll", "nvidia"} -> Budgets]
      BY <2>1, BudgetSays DEF TypeOK
    <2>3. \A h \in {"run", "poll"} : reading'[h] = IF h = g THEN Budget ELSE reading[h]
      BY <2>1 DEF TypeOK
    <2>4. ProbedConsistent'
      BY <2>1, <2>3, BudgetSays DEF ProbedConsistent, BudgetInv
    <2>5. pc' \in [{"run", "poll", "nvidia"} ->
                     {"off", "idle", "probe", "load", "publish", "done", "exited"}]
      BY <1>2, <2>1 DEF Read, Goto, TypeOK
    <2> QED BY <1>2, <2>2, <2>4, <2>5 DEF Read, BudgetInv, TypeOK, BudgetConsistent
  <1>3. CASE BootPublish
    <2>1. Publish(reading["run"]) /\ Drop("run")
      BY <1>3 DEF BootPublish
    <2>2. pc' \in [{"run", "poll", "nvidia"} ->
                     {"off", "idle", "probe", "load", "publish", "done", "exited"}]
      BY <1>3 DEF BootPublish
    <2> QED
      BY <1>3, <2>1, <2>2, PublishKeeps, DropKeeps DEF BootPublish, BudgetInv, TypeOK
  <1>4. CASE PollPublish
    <2>1. Publish(reading["poll"]) /\ Drop("poll")
      BY <1>4 DEF PollPublish
    <2>2. pc' \in [{"run", "poll", "nvidia"} ->
                     {"off", "idle", "probe", "load", "publish", "done", "exited"}]
      BY <1>4 DEF PollPublish, Goto, BudgetInv, TypeOK
    <2> QED
      BY <1>4, <2>1, <2>2, PublishKeeps, DropKeeps DEF PollPublish, BudgetInv, TypeOK
  <1>5. CASE RefreshRead
    <2>1. CASE UNCHANGED reading
      BY <1>5, <2>1 DEF RefreshRead, Goto, BudgetInv, TypeOK, BudgetConsistent, ProbedConsistent
    <2>2. CASE smi > 0 /\ reading' = [reading EXCEPT !.nvidia.free = smi]
      <3>1. smi \in Frees
        BY <2>2, ProbeAssumption DEF BudgetInv, TypeOK, SmiReadings, Error
      <3>2. [reading["nvidia"] EXCEPT !.free = smi] \in Budgets
        BY <3>1 DEF BudgetInv, TypeOK, Budgets
      <3>3. reading' \in [{"run", "poll", "nvidia"} -> Budgets]
        BY <2>2, <3>2 DEF BudgetInv, TypeOK
      <3>4. ProbedConsistent'
        BY <2>2 DEF BudgetInv, TypeOK, ProbedConsistent
      <3> QED BY <1>5, <3>3, <3>4 DEF RefreshRead, Goto, BudgetInv, TypeOK, BudgetConsistent
    <2> QED BY <1>5, <2>1, <2>2 DEF RefreshRead
  <1>6. CASE RefreshLoad
    <2> DEFINE b == [latest EXCEPT !.free = reading.nvidia.free,
                                   !.bpt = IF @ <= 0 THEN DefaultBytesPerToken ELSE @]
    <2>1. b \in Budgets
      BY DEF BudgetInv, TypeOK, Budgets
    <2>2. reading' = [reading EXCEPT !.nvidia = b]
      BY <1>6 DEF RefreshLoad
    <2> HIDE DEF b
    <2>3. reading' \in [{"run", "poll", "nvidia"} -> Budgets]
      BY <2>1, <2>2 DEF BudgetInv, TypeOK
    <2>4. ProbedConsistent'
      BY <2>2 DEF BudgetInv, TypeOK, ProbedConsistent
    <2> QED BY <1>6, <2>3, <2>4 DEF RefreshLoad, Goto, BudgetInv, TypeOK, BudgetConsistent
  <1>7. CASE RefreshStore
    <2>1. Drop("nvidia")
      BY <1>7 DEF RefreshStore
    <2>2. pc' \in [{"run", "poll", "nvidia"} ->
                     {"off", "idle", "probe", "load", "publish", "done", "exited"}]
      BY <1>7 DEF RefreshStore, Goto, BudgetInv, TypeOK
    <2> QED BY <1>7, <2>1, <2>2, RefreshKeeps, DropKeeps DEF RefreshStore, BudgetInv, TypeOK
  <1>8. CASE Close \/ CloseReturns
    BY <1>8 DEF Close, CloseReturns, BudgetInv, TypeOK, BudgetConsistent, ProbedConsistent
  <1>9. CASE SignalsChange
    BY <1>9 DEF SignalsChange, BudgetInv, TypeOK, BudgetConsistent, ProbedConsistent
  <1> QED BY <1>1, <1>2, <1>3, <1>4, <1>5, <1>6, <1>7, <1>8, <1>9 DEF Next, Refresh

\* A step takes a budget away only when a refresh that loaded no context publishes.
LEMMA BudgetKeptStep ==
  ASSUME BudgetInv, Next, latest.tokens > 0
  PROVE  latest'.tokens > 0 \/ (pc.nvidia = "publish" /\ reading.nvidia.context = 0)
  <1>1. CASE UNCHANGED latest
    BY <1>1
  <1>2. CASE BootPublish
    BY <1>2, PublishKeeps DEF BootPublish
  <1>3. CASE PollPublish
    BY <1>3, PublishKeeps DEF PollPublish
  <1>4. CASE RefreshStore
    BY <1>4, RefreshKeeps DEF RefreshStore, Goto
  <1> QED
    BY <1>1, <1>2, <1>3, <1>4
    DEF Next, Refresh, LoopTick, LoopExit, Read, RefreshRead, RefreshLoad, Close, CloseReturns,
        SignalsChange

\* For every set of readings: whichever goroutine published the budget, and whatever the
\* others published while it worked, its tokens are what its own context and free VRAM
\* allow; and no failed, empty or overheated probe takes a published budget away
\* (internal/probe/probe.go:364-470).
THEOREM ProbeBudgetSound == MonitorsSpec => BudgetSound
  <1>1. MonitorsInit => BudgetInv
    BY BudgetStarts DEF MonitorsInit
  <1>2. BudgetInv /\ [MonitorsNext]_allVars => BudgetInv'
    <2> SUFFICES ASSUME BudgetInv, [MonitorsNext]_allVars PROVE BudgetInv'
      OBVIOUS
    <2>1. CASE UNCHANGED vars
      BY <2>1 DEF vars, BudgetInv, TypeOK, BudgetConsistent, ProbedConsistent
    <2>2. CASE Next
      BY <2>2, BudgetStep
    <2> QED BY <2>1, <2>2 DEF MonitorsNext, allVars
  <1>3. BudgetInv => BudgetConsistent
    BY DEF BudgetInv
  <1>4. BudgetInv /\ [MonitorsNext]_allVars =>
          [latest.tokens > 0 => \/ latest'.tokens > 0
                                \/ pc.nvidia = "publish" /\ reading.nvidia.context = 0]_vars
    <2> SUFFICES ASSUME BudgetInv, [MonitorsNext]_allVars, vars' # vars, latest.tokens > 0
                 PROVE  \/ latest'.tokens > 0
                        \/ pc.nvidia = "publish" /\ reading.nvidia.context = 0
      OBVIOUS
    <2>1. Next
      BY DEF MonitorsNext, allVars
    <2> QED BY <2>1, BudgetKeptStep
  <1> QED BY <1>1, <1>2, <1>3, <1>4, PTL DEF MonitorsSpec, BudgetSound, BudgetKept

-----------------------------------------------------------------------------
(* The spend accounts. *)

\* A property of 0 that every number hands on to the next holds of all: induction with
\* the property as a set.
LEMMA ByInduction ==
  ASSUME NEW T, 0 \in T, \A n \in Nat : n \in T => n + 1 \in T
  PROVE  \A n \in Nat : n \in T
<1> SUFFICES ASSUME Nat \ T # {} PROVE FALSE
  OBVIOUS
<1>1. PICK x \in Nat \ T : \A y \in Nat \ T : ~ (<<y, x>> \in OpToRel(<, Nat))
  BY WFMin, NatLessThanWellFounded
<1>2. \A y \in Nat \ T : ~ (y < x)
  BY <1>1 DEF OpToRel
<1>3. x - 1 \in Nat /\ x - 1 \in T
  BY <1>2
<1> QED
  BY <1>3

\* g is the running total of the costs c.
Runs(c, g) == g = [i \in 0..Len(c) |-> IF i = 0 THEN 0 ELSE g[i - 1] + c[i]]

\* A running total is a number at every place.
LEMMA RunTyped ==
  ASSUME NEW c \in Seq(Nat), NEW g, Runs(c, g)
  PROVE  /\ g \in [0..Len(c) -> Nat]
         /\ g[0] = 0
         /\ \A i \in 1..Len(c) : g[i] = g[i - 1] + c[i]
<1>1. g[0] = 0 /\ \A i \in 1..Len(c) : g[i] = g[i - 1] + c[i]
  BY DEF Runs
<1> DEFINE T == {i \in Nat : i <= Len(c) => g[i] \in Nat}
<1>2. 0 \in T
  BY <1>1
<1>3. ASSUME NEW n \in Nat, n \in T PROVE n + 1 \in T
  <2> SUFFICES ASSUME n + 1 <= Len(c) PROVE g[n + 1] \in Nat
    OBVIOUS
  <2>1. c[n + 1] \in Nat
    OBVIOUS
  <2>2. g[n + 1] = g[n] + c[n + 1] /\ g[n] \in Nat
    BY <1>1, <1>3
  <2> QED
    BY <2>1, <2>2
<1>4. \A i \in 0..Len(c) : g[i] \in Nat
  <2> HIDE DEF T
  <2>1. \A i \in Nat : i \in T
    BY <1>2, <1>3, ByInduction
  <2> QED
    BY <2>1 DEF T
<1> QED
  BY <1>1, <1>4 DEF Runs

\* There is only one.
LEMMA RunOnce ==
  ASSUME NEW c \in Seq(Nat), NEW g, NEW h, Runs(c, g), Runs(c, h)
  PROVE  g = h
<1>1. /\ g \in [0..Len(c) -> Nat] /\ g[0] = 0 /\ (\A i \in 1..Len(c) : g[i] = g[i - 1] + c[i])
      /\ h \in [0..Len(c) -> Nat] /\ h[0] = 0 /\ (\A i \in 1..Len(c) : h[i] = h[i - 1] + c[i])
  BY RunTyped
<1> DEFINE T == {i \in Nat : i <= Len(c) => g[i] = h[i]}
<1>2. 0 \in T
  BY <1>1
<1>3. ASSUME NEW n \in Nat, n \in T PROVE n + 1 \in T
  <2> SUFFICES ASSUME n + 1 <= Len(c) PROVE g[n + 1] = h[n + 1]
    OBVIOUS
  <2>1. n + 1 \in 1..Len(c) /\ (n + 1) - 1 = n /\ g[n] = h[n]
    BY <1>3
  <2> QED
    BY <1>1, <2>1
<1>4. \A i \in 0..Len(c) : g[i] = h[i]
  <2> HIDE DEF T
  <2>1. \A i \in Nat : i \in T
    BY <1>2, <1>3, ByInduction
  <2> QED
    BY <2>1 DEF T
<1> QED
  BY <1>1, <1>4

\* Whatever runs like it is the running total, and Total is its last value.
LEMMA TotalIsRun ==
  ASSUME NEW c \in Seq(Nat), NEW g, Runs(c, g)
  PROVE  B!Total(c) = g[Len(c)] /\ B!Total(c) \in Nat
<1> DEFINE f == CHOOSE f : f = [i \in 0..Len(c) |-> IF i = 0 THEN 0 ELSE f[i - 1] + c[i]]
<1>1. Runs(c, f)
  BY DEF Runs
<1>2. f = g
  BY <1>1, RunOnce
<1>3. B!Total(c) = f[Len(c)]
  BY DEF B!Total
<1>4. g[Len(c)] \in Nat
  <2>1. g \in [0..Len(c) -> Nat] /\ Len(c) \in 0..Len(c)
    BY RunTyped
  <2> QED
    BY <2>1
<1> QED
  BY <1>2, <1>3, <1>4

\* Every sequence has one.
LEMMA RunExists == \A c \in Seq(Nat) : \E g : Runs(c, g)
<1> DEFINE T == {n \in Nat : \A c \in Seq(Nat) : Len(c) = n => \E g : Runs(c, g)}
<1>1. 0 \in T
  <2>1. ASSUME NEW c \in Seq(Nat), Len(c) = 0 PROVE Runs(c, [i \in {0} |-> 0])
    BY <2>1 DEF Runs
  <2> QED
    BY <2>1
<1>2. ASSUME NEW n \in Nat, n \in T PROVE n + 1 \in T
  <2> SUFFICES ASSUME NEW c \in Seq(Nat), Len(c) = n + 1 PROVE \E g : Runs(c, g)
    OBVIOUS
  <2> DEFINE t == SubSeq(c, 1, n)
  <2>1. t \in Seq(Nat) /\ Len(t) = n /\ \A i \in 1..n : t[i] = c[i]
    OBVIOUS
  <2>2. PICK g : Runs(t, g)
    BY <1>2, <2>1
  <2>3. g \in [0..n -> Nat] /\ g[0] = 0 /\ \A i \in 1..n : g[i] = g[i - 1] + c[i]
    <3> HIDE DEF t
    <3>1. g \in [0..Len(t) -> Nat] /\ g[0] = 0 /\ \A i \in 1..Len(t) : g[i] = g[i - 1] + t[i]
      BY <2>1, <2>2, RunTyped
    <3> QED
      BY <2>1, <3>1
  <2> DEFINE h == [i \in 0..n + 1 |-> IF i = n + 1 THEN g[n] + c[n + 1] ELSE g[i]]
  <2>4. \A i \in 0..n + 1 : h[i] = IF i = 0 THEN 0 ELSE h[i - 1] + c[i]
    <3>1. h[0] = 0 /\ h[n + 1] = g[n] + c[n + 1] /\ \A i \in 0..n : h[i] = g[i]
      BY <2>3
    <3> HIDE DEF h, t
    <3> SUFFICES ASSUME NEW i \in 0..n + 1 PROVE h[i] = IF i = 0 THEN 0 ELSE h[i - 1] + c[i]
      OBVIOUS
    <3>2. CASE i = 0
      BY <3>1, <3>2
    <3>3. CASE i \in 1..n
      <4>1. h[i] = g[i] /\ i - 1 \in 0..n /\ i # 0
        BY <3>1, <3>3
      <4> QED
        BY <2>3, <3>1, <3>3, <4>1
    <3>4. CASE i = n + 1
      <4>1. i - 1 = n /\ n \in 0..n /\ i # 0
        BY <3>4
      <4> QED
        BY <3>1, <3>4, <4>1
    <3> QED
      BY <3>2, <3>3, <3>4
  <2>5. Runs(c, h)
    <3>1. h = [i \in 0..n + 1 |-> h[i]]
      OBVIOUS
    <3> HIDE DEF h
    <3> QED
      BY <2>1, <2>4, <3>1 DEF Runs
  <2> QED
    BY <2>5
<1>3. \A n \in Nat : n \in T
  <2> HIDE DEF T
  <2> QED
    BY <1>1, <1>2, ByInduction
<1> QED
  BY <1>3

\* d is what c holds after its first n elements.
Follows(c, n, d) == n + Len(d) <= Len(c) /\ \A i \in 1..Len(d) : d[i] = c[n + i]

\* The cost of a stretch of the costs is the difference of two running totals.
LEMMA StretchTotal ==
  ASSUME NEW c \in Seq(Nat), NEW g, Runs(c, g), NEW d \in Seq(Nat), NEW a \in Nat, Follows(c, a, d)
  PROVE  B!Total(d) = g[a + Len(d)] - g[a]
<1>1. g \in [0..Len(c) -> Nat] /\ g[0] = 0 /\ \A i \in 1..Len(c) : g[i] = g[i - 1] + c[i]
  BY RunTyped
<1>0. /\ Len(c) \in Nat /\ Len(d) \in Nat /\ a + Len(d) <= Len(c) /\ a \in 0..Len(c)
      /\ g[a] \in Nat /\ \A i \in 1..Len(d) : d[i] = c[a + i]
  <2>1. Len(c) \in Nat /\ Len(d) \in Nat
    OBVIOUS
  <2>2. a + Len(d) <= Len(c) /\ \A i \in 1..Len(d) : d[i] = c[a + i]
    BY DEF Follows
  <2>3. a \in 0..Len(c)
    BY <2>1, <2>2
  <2> QED
    BY <1>1, <2>1, <2>2, <2>3
<1> DEFINE h == [i \in 0..Len(d) |-> g[a + i] - g[a]]
<1>2. \A i \in 0..Len(d) : h[i] = IF i = 0 THEN 0 ELSE h[i - 1] + d[i]
  <2> SUFFICES ASSUME NEW i \in 0..Len(d) PROVE h[i] = IF i = 0 THEN 0 ELSE h[i - 1] + d[i]
    OBVIOUS
  <2>1. CASE i = 0
    <3>1. h[0] = g[a + 0] - g[a] /\ a + 0 = a
      BY <1>0
    <3> HIDE DEF h
    <3> QED
      BY <1>0, <2>1, <3>1
  <2>2. CASE i # 0
    <3>1. a + i \in 1..Len(c) /\ (a + i) - 1 = a + (i - 1) /\ i - 1 \in 0..Len(d) /\ i \in 1..Len(d)
          /\ a \in 0..Len(c) /\ a + (i - 1) \in 0..Len(c)
      <4> DEFINE y == Len(c)
                 z == Len(d)
      <4>1. i \in Nat /\ i >= 1 /\ i <= z /\ z \in Nat /\ y \in Nat /\ a + z <= y /\ a \in Nat
        BY <1>0, <2>2
      <4> HIDE DEF y, z
      <4>2. /\ a + i \in 1..y /\ (a + i) - 1 = a + (i - 1) /\ i - 1 \in 0..z /\ i \in 1..z
            /\ a \in 0..y /\ a + (i - 1) \in 0..y
        BY <4>1
      <4> QED
        BY <4>2 DEF y, z
    <3>2. g[a + i] = g[a + (i - 1)] + c[a + i] /\ d[i] = c[a + i] /\ c[a + i] \in Nat
      <4>1. c[a + i] \in Nat
        BY <3>1
      <4> QED
        BY <1>0, <1>1, <3>1, <4>1
    <3>3. h[i] = g[a + i] - g[a] /\ h[i - 1] = g[a + (i - 1)] - g[a]
      BY <3>1
    <3>4. g[a] \in Nat /\ g[a + (i - 1)] \in Nat
      BY <1>1, <3>1
    <3> HIDE DEF h
    <3> QED
      BY <2>2, <3>2, <3>3, <3>4
  <2> QED
    BY <2>1, <2>2
<1>3. h = [i \in 0..Len(d) |-> h[i]]
  OBVIOUS
<1>4. h[Len(d)] = g[a + Len(d)] - g[a]
  BY <1>0
<1> HIDE DEF h
<1>5. Runs(d, h)
  BY <1>2, <1>3 DEF Runs
<1> QED
  BY <1>4, <1>5, TotalIsRun

\* Higher costs do not come to less.
LEMMA TotalGrows ==
  ASSUME NEW c \in Seq(Nat), NEW d \in Seq(Nat), Len(c) = Len(d), \A i \in 1..Len(c) : c[i] <= d[i]
  PROVE  B!Total(c) <= B!Total(d)
<1>1. PICK g : Runs(c, g)
  BY RunExists
<1>2. PICK h : Runs(d, h)
  BY RunExists
<1>3. /\ g \in [0..Len(c) -> Nat] /\ g[0] = 0 /\ (\A i \in 1..Len(c) : g[i] = g[i - 1] + c[i])
      /\ h \in [0..Len(c) -> Nat] /\ h[0] = 0 /\ (\A i \in 1..Len(c) : h[i] = h[i - 1] + d[i])
  BY <1>1, <1>2, RunTyped
<1> DEFINE T == {i \in Nat : i <= Len(c) => g[i] <= h[i]}
<1>4. 0 \in T
  BY <1>3
<1>5. ASSUME NEW n \in Nat, n \in T PROVE n + 1 \in T
  <2> SUFFICES ASSUME n + 1 <= Len(c) PROVE g[n + 1] <= h[n + 1]
    OBVIOUS
  <2>1. n + 1 \in 1..Len(c) /\ (n + 1) - 1 = n /\ g[n] <= h[n] /\ n \in 0..Len(c)
    BY <1>5
  <2>2. g[n + 1] = g[n] + c[n + 1] /\ h[n + 1] = h[n] + d[n + 1] /\ c[n + 1] <= d[n + 1]
        /\ c[n + 1] \in Nat /\ d[n + 1] \in Nat /\ g[n] \in Nat /\ h[n] \in Nat
    <3>1. c[n + 1] \in Nat /\ d[n + 1] \in Nat
      BY <2>1
    <3>2. g[n] \in Nat /\ h[n] \in Nat
      BY <1>3, <2>1
    <3> QED
      BY <1>3, <2>1, <3>1, <3>2
  <2> QED
    BY <2>1, <2>2
<1>6. g[Len(c)] <= h[Len(c)]
  <2> HIDE DEF T
  <2>1. \A i \in Nat : i \in T
    BY <1>4, <1>5, ByInduction
  <2> QED
    BY <2>1 DEF T
<1> QED
  BY <1>1, <1>2, <1>6, TotalIsRun

\* A spend of the log, with the time it was made.
Spends == [at : Nat, cost : Nat]
\* What the entries of l cost, in order.
CostList(l) == [i \in 1..Len(l) |-> l[i].cost]

\* Those are numbers, as many as there are entries.
LEMMA CostListTyped ==
  ASSUME NEW l \in Seq(Spends)
  PROVE  CostList(l) \in Seq(Nat) /\ Len(CostList(l)) = Len(l) /\ \A i \in 1..Len(l) : CostList(l)[i] = l[i].cost
<1>1. \A i \in 1..Len(l) : l[i].cost \in Nat
  <2>1. \A i \in 1..Len(l) : l[i] \in Spends
    OBVIOUS
  <2>2. \A e \in Spends : e.cost \in Nat
    BY DEF Spends
  <2> QED
    BY <2>1, <2>2
<1> QED
  BY <1>1 DEF CostList

\* What entries that follow the first n of the log cost together.
LEMMA SumFollows ==
  ASSUME NEW l \in Seq(Spends), NEW g, Runs(CostList(l), g), NEW es \in Seq(Spends), NEW n \in Nat,
         Follows(l, n, es)
  PROVE  B!Sum(es) = g[n + Len(es)] - g[n]
<1> DEFINE c == CostList(l)
           d == CostList(es)
<1>1. c \in Seq(Nat) /\ Len(c) = Len(l) /\ \A i \in 1..Len(l) : c[i] = l[i].cost
  BY CostListTyped
<1>2. d \in Seq(Nat) /\ Len(d) = Len(es) /\ \A i \in 1..Len(es) : d[i] = es[i].cost
  BY CostListTyped
<1>3. B!Sum(es) = B!Total(d)
  BY DEF B!Sum, CostList
<1>4. Runs(c, g)
  OBVIOUS
<1> HIDE DEF c, d
<1>5. Follows(c, n, d)
  <2>1. n + Len(es) <= Len(l) /\ \A i \in 1..Len(es) : es[i] = l[n + i]
    BY DEF Follows
  <2>2. \A i \in 1..Len(es) : n + i \in 1..Len(l)
    BY <2>1
  <2>3. \A i \in 1..Len(d) : d[i] = c[n + i]
    BY <1>1, <1>2, <2>1, <2>2
  <2> QED
    BY <1>1, <1>2, <2>1, <2>3 DEF Follows
<1>6. B!Total(d) = g[n + Len(d)] - g[n]
  BY <1>1, <1>2, <1>4, <1>5, StretchTotal
<1> QED
  BY <1>2, <1>3, <1>6

\* What the spends of l at the places of I cost.
CostIn(l, I) == B!Total([i \in 1..Len(l) |-> IF i \in I THEN l[i].cost ELSE 0])

\* What a log costs from a place on.
LEMMA TailCost ==
  ASSUME NEW l \in Seq(Spends), NEW g, Runs(CostList(l), g), NEW x \in 0..Len(l)
  PROVE  CostIn(l, x + 1 .. Len(l)) = g[Len(l)] - g[x]
<1> DEFINE c == CostList(l)
           n == Len(l)
           I == x + 1 .. n
           d == [i \in 1..n |-> IF i \in I THEN l[i].cost ELSE 0]
           h == [i \in 0..n |-> IF i <= x THEN 0 ELSE g[i] - g[x]]
<1>1. c \in Seq(Nat) /\ Len(c) = n /\ n \in Nat /\ x <= n /\ x \in Nat /\ \A i \in 1..n : c[i] = l[i].cost /\ c[i] \in Nat
  BY CostListTyped
<1>2. g \in [0..n -> Nat] /\ g[0] = 0 /\ \A i \in 1..n : g[i] = g[i - 1] + c[i]
  BY <1>1, RunTyped
<1>3. \A i \in 1..n : d[i] = IF i <= x THEN 0 ELSE c[i]
  BY <1>1
<1>4. d \in Seq(Nat) /\ Len(d) = n
  <2>1. d \in [1..n -> Nat]
    BY <1>1
  <2> QED
    BY <1>1, <2>1
<1>5. CostIn(l, I) = B!Total(d)
  BY DEF CostIn
<1>6. \A i \in 0..n : h[i] = IF i <= x THEN 0 ELSE g[i] - g[x]
  OBVIOUS
<1>7. h = [i \in 0..n |-> h[i]]
  OBVIOUS
<1>8. h[n] = g[n] - g[x]
  <2>1. n \in 0..n /\ g[n] \in Nat
    BY <1>1, <1>2
  <2> QED
    BY <1>1, <1>6, <2>1
<1> HIDE DEF c, d, h, n, I
<1>9. \A i \in 0..n : h[i] = IF i = 0 THEN 0 ELSE h[i - 1] + d[i]
  <2> SUFFICES ASSUME NEW i \in 0..n PROVE h[i] = IF i = 0 THEN 0 ELSE h[i - 1] + d[i]
    OBVIOUS
  <2>1. CASE i = 0
    BY <1>1, <1>6, <2>1
  <2>2. CASE i # 0
    <3>1. i \in 1..n /\ i - 1 \in 0..n
      BY <1>1, <2>2
    <3>2. g[i] = g[i - 1] + c[i] /\ c[i] \in Nat /\ g[i - 1] \in Nat /\ g[x] \in Nat
      BY <1>1, <1>2, <3>1
    <3>3. CASE i <= x
      <4>1. h[i] = 0 /\ h[i - 1] = 0 /\ d[i] = 0
        BY <1>1, <1>3, <1>6, <3>1, <3>3
      <4> QED
        BY <2>2, <4>1
    <3>4. CASE i = x + 1
      <4>1. i - 1 = x /\ ~(i <= x) /\ i - 1 <= x
        BY <1>1, <3>4
      <4>2. h[i] = g[i] - g[x] /\ h[i - 1] = 0 /\ d[i] = c[i]
        BY <1>3, <1>6, <3>1, <4>1
      <4> QED
        BY <2>2, <3>2, <4>1, <4>2
    <3>5. CASE i > x + 1
      <4>1. ~(i - 1 <= x) /\ ~(i <= x)
        BY <1>1, <3>5
      <4>2. h[i] = g[i] - g[x] /\ h[i - 1] = g[i - 1] - g[x] /\ d[i] = c[i]
        BY <1>3, <1>6, <3>1, <4>1
      <4> QED
        BY <2>2, <3>2, <4>2
    <3> QED
      BY <1>1, <3>3, <3>4, <3>5
  <2> QED
    BY <2>1, <2>2
<1>10. Runs(d, h)
  BY <1>4, <1>7, <1>9 DEF Runs
<1> QED
  BY <1>4, <1>5, <1>8, <1>10, TotalIsRun DEF I, n

\* The same of the log.
LEMMA SuffixCost ==
  ASSUME log \in Seq(Spends), NEW g, Runs(CostList(log), g), NEW x \in 0..Len(log)
  PROVE  B!CostOf(x + 1 .. Len(log)) = g[Len(log)] - g[x]
<1>1. B!CostOf(x + 1 .. Len(log)) = CostIn(log, x + 1 .. Len(log))
  BY DEF B!CostOf, CostIn
<1> QED
  BY <1>1, TailCost

\* A spend more adds its cost.
LEMMA OneMore ==
  ASSUME NEW l \in Seq(Spends), NEW e \in Spends, NEW x \in 0..Len(l)
  PROVE  CostIn(Append(l, e), x + 1 .. Len(l) + 1) = CostIn(l, x + 1 .. Len(l)) + e.cost
<1> DEFINE q == Append(l, e)
           n == Len(l)
<1>1. q \in Seq(Spends) /\ Len(q) = n + 1 /\ n \in Nat /\ q[n + 1] = e /\ e.cost \in Nat
      /\ \A i \in 1..n : q[i] = l[i]
  BY DEF Spends
<1> HIDE DEF q, n
<1>2. CostList(q) \in Seq(Nat) /\ Len(CostList(q)) = n + 1 /\ \A i \in 1..n + 1 : CostList(q)[i] = q[i].cost
  BY <1>1, CostListTyped
<1>3. PICK g : Runs(CostList(q), g)
  BY <1>2, RunExists
<1>4. g \in [0..n + 1 -> Nat] /\ g[0] = 0 /\ \A i \in 1..n + 1 : g[i] = g[i - 1] + q[i].cost
  <2> DEFINE c == CostList(q)
  <2>1. c \in Seq(Nat) /\ Runs(c, g) /\ Len(c) = n + 1 /\ \A i \in 1..n + 1 : c[i] = q[i].cost
    BY <1>2, <1>3
  <2> HIDE DEF c
  <2>2. g \in [0..Len(c) -> Nat] /\ g[0] = 0 /\ \A i \in 1..Len(c) : g[i] = g[i - 1] + c[i]
    BY <2>1, RunTyped
  <2> QED
    BY <2>1, <2>2
<1> DEFINE h == [i \in 0..n |-> g[i]]
<1>5. Len(CostList(l)) = n /\ \A i \in 1..n : CostList(l)[i] = l[i].cost
  BY CostListTyped DEF n
<1>6. Runs(CostList(l), h)
  <2>1. \A i \in 0..n : h[i] = IF i = 0 THEN 0 ELSE h[i - 1] + CostList(l)[i]
    <3> SUFFICES ASSUME NEW i \in 0..n PROVE h[i] = IF i = 0 THEN 0 ELSE h[i - 1] + CostList(l)[i]
      OBVIOUS
    <3>1. CASE i = 0
      BY <1>1, <1>4, <3>1
    <3>2. CASE i # 0
      <4>1. i \in 1..n /\ i \in 1..n + 1 /\ i - 1 \in 0..n
        BY <1>1, <3>2
      <4>2. h[i] = g[i] /\ h[i - 1] = g[i - 1] /\ g[i] = g[i - 1] + q[i].cost
        BY <1>4, <4>1
      <4>3. CostList(l)[i] = q[i].cost
        BY <1>1, <1>5, <4>1
      <4> QED
        BY <3>2, <4>2, <4>3
    <3> QED
      BY <3>1, <3>2
  <2>2. h = [i \in 0..n |-> h[i]]
    OBVIOUS
  <2> HIDE DEF h
  <2> QED
    BY <1>5, <2>1, <2>2 DEF Runs
<1>7. h[n] = g[n] /\ h[x] = g[x] /\ g[n] \in Nat /\ g[x] \in Nat /\ g[n + 1] = g[n] + e.cost /\ x \in 0..n + 1
  <2>1. n \in 0..n /\ n \in 0..n + 1 /\ x \in 0..n /\ x \in 0..n + 1 /\ n + 1 \in 1..n + 1 /\ (n + 1) - 1 = n
    BY <1>1 DEF n
  <2>2. g[n + 1] = g[n] + q[n + 1].cost
    BY <1>4, <2>1
  <2> QED
    BY <1>1, <1>4, <2>1, <2>2
<1> HIDE DEF h
<1>8. CostIn(l, x + 1 .. n) = h[n] - h[x]
  BY <1>6, TailCost DEF n
<1>9. CostIn(q, x + 1 .. n + 1) = g[n + 1] - g[x]
  BY <1>1, <1>3, <1>7, TailCost
<1>10. CostIn(q, x + 1 .. n + 1) = CostIn(l, x + 1 .. n) + e.cost
  BY <1>1, <1>7, <1>8, <1>9
<1> QED
  BY <1>10 DEF q, n

\* What spends of the log cost is a number.
LEMMA CostTyped ==
  ASSUME log \in Seq(Spends), NEW I
  PROVE  B!CostOf(I) \in Nat
<1> DEFINE c == [i \in 1..Len(log) |-> IF i \in I THEN log[i].cost ELSE 0]
<1>1. \A i \in 1..Len(log) : log[i].cost \in Nat
  <2>1. \A i \in 1..Len(log) : log[i] \in Spends
    OBVIOUS
  <2>2. \A e \in Spends : e.cost \in Nat
    BY DEF Spends
  <2> QED
    BY <2>1, <2>2
<1>2. c \in [1..Len(log) -> Nat] /\ Len(log) \in Nat
  BY <1>1
<1>3. c \in Seq(Nat)
  BY <1>2
<1>4. B!CostOf(I) = B!Total(c)
  BY DEF B!CostOf
<1> HIDE DEF c
<1>5. PICK f : Runs(c, f)
  BY <1>3, RunExists
<1> QED
  BY <1>3, <1>4, <1>5, TotalIsRun

\* More of the log does not cost less.
LEMMA CostMonotone ==
  ASSUME log \in Seq(Spends), NEW I, NEW J, I \cap (1..Len(log)) \subseteq J
  PROVE  B!CostOf(I) <= B!CostOf(J)
<1> DEFINE n == Len(log)
           c == [i \in 1..n |-> IF i \in I THEN log[i].cost ELSE 0]
           d == [i \in 1..n |-> IF i \in J THEN log[i].cost ELSE 0]
<1>1. \A i \in 1..n : log[i].cost \in Nat
  <2>1. \A i \in 1..n : log[i] \in Spends
    OBVIOUS
  <2>2. \A e \in Spends : e.cost \in Nat
    BY DEF Spends
  <2> QED
    BY <2>1, <2>2
<1>2. n \in Nat /\ c \in [1..n -> Nat] /\ d \in [1..n -> Nat] /\ \A i \in 1..n : c[i] <= d[i]
  BY <1>1
<1>3. B!CostOf(I) = B!Total(c) /\ B!CostOf(J) = B!Total(d)
  BY DEF B!CostOf
<1> HIDE DEF c, d, n
<1>4. c \in Seq(Nat) /\ d \in Seq(Nat) /\ Len(c) = n /\ Len(d) = n
  BY <1>2
<1> QED
  BY <1>2, <1>3, <1>4, TotalGrows

\* Gone counts the times before the window.
LEMMA GoneMeans ==
  ASSUME NEW ats \in Seq(Nat)
  PROVE  /\ B!Gone(ats) \in 0..Len(ats)
         /\ \A i \in 1..B!Gone(ats) : B!Old(ats[i])
         /\ B!Gone(ats) < Len(ats) => ~B!Old(ats[B!Gone(ats) + 1])
<1> DEFINE X == {i \in 1..Len(ats) : ~B!Old(ats[i])}
           P(k) == (\A i \in 1..k : B!Old(ats[i])) /\ (k < Len(ats) => ~B!Old(ats[k + 1]))
<1>1. \E k \in 0..Len(ats) : P(k)
  <2>1. CASE X = {}
    BY <2>1
  <2>2. CASE X # {}
    <3>1. PICK m \in X : \A y \in X : ~ (<<y, m>> \in OpToRel(<, Nat))
      <4>1. X \subseteq Nat
        OBVIOUS
      <4> HIDE DEF X
      <4> QED
        BY <2>2, <4>1, WFMin, NatLessThanWellFounded
    <3>2. \A y \in X : ~ (y < m)
      <4>1. m \in Nat /\ \A y \in X : y \in Nat
        OBVIOUS
      <4> HIDE DEF X
      <4> QED
        BY <3>1, <4>1 DEF OpToRel
    <3>3. m - 1 \in 0..Len(ats) /\ m \in Nat
      OBVIOUS
    <3>4. P(m - 1)
      BY <3>2, <3>3
    <3> QED
      BY <3>3, <3>4
  <2> QED
    BY <2>1, <2>2
<1>2. B!Gone(ats) = CHOOSE k \in 0..Len(ats) : P(k)
  BY DEF B!Gone
<1> DEFINE k == B!Gone(ats)
<1>3. k \in 0..Len(ats) /\ P(k)
  <2> HIDE DEF P
  <2> QED
    BY <1>1, <1>2
<1> QED
  BY <1>3

\* A bucket of the tracker.
Bins == [key : Nat, oldest : Nat, entries : Seq(Spends)]

\* A spend was made in a minute in which an expired one was made too.
Lost(i) == \E x \in 1..Len(log) :
  B!Old(log[x].at) /\ log[x].at \div Minute = log[i].at \div Minute

\* A bucket holds what l holds after its first s entries up to the e-th.
Holds(l, b, s, e) ==
  /\ s < e /\ b.oldest = l[s + 1].at /\ Len(b.entries) = e - s /\ Follows(l, s, b.entries)
  /\ \A i \in s + 1 .. e : l[i].at \div Minute = b.key

\* The buckets hold the end of the log, in order.
Covers(bs, l, st) ==
  /\ st \in [1 .. Len(bs) + 1 -> 0..Len(l)] /\ st[Len(bs) + 1] = Len(l)
  /\ \A b \in 1..Len(bs) : Holds(l, bs[b], st[b], st[b + 1])

\* Every bucket is of a later minute than the one before it.
Ascending(bs) == \A a, b \in 1..Len(bs) : a < b => bs[a].key < bs[b].key

\* The spends were recorded in the order of time.
InTime ==
  /\ \A i, j \in 1..Len(log) : i <= j => log[i].at <= log[j].at
  /\ \A i \in 1..Len(log) : log[i].at <= clock

\* The guard's window is the end of the log, and what is before it has expired.
Windowed(ws) ==
  /\ ws \in Seq(Spends)
  /\ \E w \in 0..Len(log) : /\ Len(ws) = Len(log) - w /\ Follows(log, w, ws)
                            /\ \A i \in 1..w : B!Old(log[i].at)

\* What the log, the buckets, the clock and the limit are.
SpendTypes == clock \in Nat /\ log \in Seq(Spends) /\ buckets \in Seq(Bins) /\ limit \in Limits

\* What the tracker still counts is the end of the log.
Counted ==
  \E st : /\ Covers(buckets, log, st) /\ total = B!CostOf(st[1] + 1 .. Len(log))
          /\ \A i \in 1..st[1] : Lost(i)

\* The warning is given once, and sent says that it was.
Warned == alerts \in 0..1 /\ (alerts = 1 => sent)

\* The inductive invariant of the accounts.
SpendInv ==
  /\ SpendTypes /\ InTime /\ Ascending(buckets) /\ Counted /\ Warned
  /\ (0 \notin Limits => Windowed(window))

\* What a prune leaves: the buckets from the k-th on, which hold what is in the window,
\* and a total that is theirs.
Pruned(bs, t) ==
  \E st : /\ bs \in Seq(Bins) /\ Ascending(bs) /\ Covers(bs, log, st)
          /\ t = B!CostOf(st[1] + 1 .. Len(log))
          /\ \A i \in 1..st[1] : Lost(i)
          /\ \A i \in st[1] + 1 .. Len(log) : ~B!Old(log[i].at)

\* The prune of tracker.go:75-120 takes from the running total what the dropped buckets cost.
LEMMA PruneMeans ==
  ASSUME SpendInv
  PROVE  Pruned(B!pruneLocked.buckets, B!pruneLocked.total)
<1>0. SpendTypes /\ InTime /\ Ascending(buckets)
  BY DEF SpendInv
<1>1. PICK st : /\ Covers(buckets, log, st) /\ total = B!CostOf(st[1] + 1 .. Len(log))
                /\ \A i \in 1..st[1] : Lost(i)
  BY DEF SpendInv, Counted
<1> DEFINE n == Len(log)
           m == Len(buckets)
           k == B!Expired
           K == B!Kept
           su == [b \in 1 .. (m - k) + 1 |-> st[k + b]]
<1>2. log \in Seq(Spends) /\ buckets \in Seq(Bins) /\ n \in Nat /\ m \in Nat /\ clock \in Nat
  BY <1>0 DEF SpendTypes
<1>3. /\ st \in [1..m + 1 -> 0..n] /\ st[m + 1] = n
      /\ \A b \in 1..m : Holds(log, buckets[b], st[b], st[b + 1])
  BY <1>1 DEF Covers
<1>4. /\ k \in 0..m
      /\ \A b \in 1..k : B!Old(buckets[b].oldest)
      /\ k < m => ~B!Old(buckets[k + 1].oldest)
  <2> DEFINE ats == [i \in 1..Len(buckets) |-> buckets[i].oldest]
  <2>1. \A i \in 1..m : buckets[i].oldest \in Nat
    <3>1. \A i \in 1..m : buckets[i] \in Bins
      BY <1>2
    <3>2. \A b \in Bins : b.oldest \in Nat
      BY DEF Bins
    <3> QED
      BY <3>1, <3>2
  <2>2. ats \in Seq(Nat) /\ Len(ats) = m /\ \A i \in 1..m : ats[i] = buckets[i].oldest
    BY <1>2, <2>1
  <2>3. k = B!Gone(ats)
    BY DEF B!Expired
  <2> HIDE DEF ats, k, m
  <2>4. k \in 0..Len(ats) /\ (\A i \in 1..k : B!Old(ats[i])) /\ (k < Len(ats) => ~B!Old(ats[k + 1]))
    BY <2>2, <2>3, GoneMeans
  <2>5. \A i \in 1..k : i \in 1..m
    BY <1>2, <2>2, <2>4
  <2>6. k < m => k + 1 \in 1..m
    BY <1>2, <2>2, <2>4
  <2> QED
    BY <2>2, <2>4, <2>5, <2>6
<1>5. K \in Seq(Bins) /\ Len(K) = m - k /\ \A b \in 1..m - k : K[b] = buckets[k + b]
  <2>1. K = SubSeq(buckets, k + 1, m)
    BY DEF B!Kept
  <2> HIDE DEF k, K
  <2> QED
    BY <1>2, <1>4, <2>1
<1> HIDE DEF n, m, k, K
<1>6. Ascending(K)
  <2>1. ASSUME NEW a \in 1..m - k, NEW b \in 1..m - k, a < b PROVE K[a].key < K[b].key
    <3>1. k + a \in 1..m /\ k + b \in 1..m /\ k + a < k + b
      BY <1>2, <1>4, <2>1
    <3>2. buckets[k + a].key < buckets[k + b].key
      BY <1>0, <3>1 DEF Ascending, m
    <3> QED
      BY <1>5, <3>2
  <2>2. Len(K) = m - k
    BY <1>5
  <2> QED
    BY <2>1, <2>2 DEF Ascending
<1>7. /\ su \in [1 .. (m - k) + 1 -> 0..n] /\ su[(m - k) + 1] = n
      /\ \A b \in 1..m - k : su[b] = st[k + b] /\ su[b + 1] = st[(k + b) + 1]
      /\ su[1] = st[k + 1] /\ st[k + 1] \in 0..n
  BY <1>2, <1>3, <1>4
<1> HIDE DEF su
<1>8. Covers(K, log, su)
  <2>1. ASSUME NEW b \in 1..m - k PROVE Holds(log, K[b], su[b], su[b + 1])
    <3>1. k + b \in 1..m
      BY <1>2, <1>4
    <3> QED
      BY <1>3, <1>5, <1>7, <3>1
  <2> QED
    BY <1>5, <1>7, <2>1 DEF Covers, n
<1>9. PICK g : Runs(CostList(log), g)
  <2>1. CostList(log) \in Seq(Nat)
    BY <1>2, CostListTyped
  <2> QED
    BY <2>1, RunExists
<1>10. g \in [0..n -> Nat]
  <2>1. CostList(log) \in Seq(Nat) /\ Len(CostList(log)) = n
    BY <1>2, CostListTyped DEF n
  <2> QED
    BY <1>9, <2>1, RunTyped
<1>11. B!pruneLocked.total = B!CostOf(su[1] + 1 .. Len(log))
  <2> DEFINE D == [i \in 1..k |-> B!Sum(buckets[i].entries)]
             h == [b \in 0..k |-> g[st[b + 1]] - g[st[1]]]
  <2>1. \A b \in 1..k : /\ B!Sum(buckets[b].entries) = g[st[b + 1]] - g[st[b]]
                        /\ st[b] \in 0..n /\ st[b + 1] \in 0..n
                        /\ B!Sum(buckets[b].entries) \in Nat
    <3> SUFFICES ASSUME NEW b \in 1..k
                 PROVE  /\ B!Sum(buckets[b].entries) = g[st[b + 1]] - g[st[b]]
                        /\ st[b] \in 0..n /\ st[b + 1] \in 0..n
                        /\ B!Sum(buckets[b].entries) \in Nat
      OBVIOUS
    <3>1. b \in 1..m /\ b \in 1..m + 1 /\ b + 1 \in 1..m + 1
      BY <1>2, <1>4
    <3>2. st[b] \in 0..n /\ st[b + 1] \in 0..n /\ st[b] \in Nat
      BY <1>2, <1>3, <3>1
    <3> DEFINE es == buckets[b].entries
    <3>3. es \in Seq(Spends)
      <4>1. buckets[b] \in Bins
        BY <1>2, <3>1 DEF m
      <4> QED
        BY <4>1 DEF Bins
    <3>4. Len(es) = st[b + 1] - st[b] /\ Follows(log, st[b], es)
      BY <1>3, <3>1 DEF Holds
    <3> HIDE DEF es
    <3>5. B!Sum(es) = g[st[b] + Len(es)] - g[st[b]]
      BY <1>2, <1>9, <3>2, <3>3, <3>4, SumFollows
    <3>6. st[b] + Len(es) = st[b + 1]
      BY <3>2, <3>4
    <3>7. B!Sum(es) \in Nat
      <4>1. CostList(es) \in Seq(Nat)
        BY <3>3, CostListTyped
      <4>2. PICK f : Runs(CostList(es), f)
        BY <4>1, RunExists
      <4>3. B!Sum(es) = B!Total(CostList(es))
        BY DEF B!Sum, CostList
      <4> QED
        BY <4>1, <4>2, <4>3, TotalIsRun
    <3> QED
      BY <3>2, <3>5, <3>6, <3>7 DEF es
  <2>2. D \in Seq(Nat) /\ Len(D) = k /\ \A b \in 1..k : D[b] = g[st[b + 1]] - g[st[b]]
    <3>1. D \in [1..k -> Nat]
      BY <2>1
    <3> QED
      BY <1>2, <1>4, <2>1, <3>1
  <2>3. h = [b \in 0..k |-> h[b]] /\ h[k] = g[st[k + 1]] - g[st[1]]
    BY <1>2, <1>4
  <2>4. \A b \in 0..k : h[b] = IF b = 0 THEN 0 ELSE h[b - 1] + D[b]
    <3> SUFFICES ASSUME NEW b \in 0..k PROVE h[b] = IF b = 0 THEN 0 ELSE h[b - 1] + D[b]
      OBVIOUS
    <3>0. st[1] \in 0..n /\ g[st[1]] \in Nat
      <4>1. 1 \in 1..m + 1
        BY <1>2
      <4> QED
        BY <1>3, <1>10, <4>1
    <3>1. CASE b = 0
      <4>1. h[0] = g[st[0 + 1]] - g[st[1]] /\ 0 + 1 = 1
        BY <1>2, <1>4
      <4> HIDE DEF h
      <4> QED
        BY <3>0, <3>1, <4>1
    <3>2. CASE b # 0
      <4>1. b \in 1..k /\ b - 1 \in 0..k /\ (b - 1) + 1 = b
        BY <1>2, <1>4, <3>2
      <4>2. h[b] = g[st[b + 1]] - g[st[1]] /\ h[b - 1] = g[st[b]] - g[st[1]]
        BY <4>1
      <4>3. g[st[b]] \in Nat /\ g[st[b + 1]] \in Nat
        BY <1>10, <2>1, <4>1
      <4> HIDE DEF h, D
      <4> QED
        BY <2>2, <3>0, <3>2, <4>1, <4>2, <4>3
    <3> QED
      BY <3>1, <3>2
  <2>5. B!pruneLocked.total = total - B!Total(D)
    BY DEF B!pruneLocked, k
  <2> HIDE DEF D, h
  <2>6. Runs(D, h)
    BY <2>2, <2>3, <2>4 DEF Runs
  <2>7. B!Total(D) = g[st[k + 1]] - g[st[1]]
    BY <2>2, <2>3, <2>6, TotalIsRun
  <2>8. st[1] \in 0..n
    <3>1. 1 \in 1..m + 1
      BY <1>2
    <3> QED
      BY <1>3, <3>1
  <2>9. total = g[n] - g[st[1]]
    BY <1>1, <1>2, <1>9, <2>8, SuffixCost DEF n
  <2>10. B!CostOf(su[1] + 1 .. Len(log)) = g[n] - g[st[k + 1]]
    BY <1>2, <1>7, <1>9, SuffixCost DEF n
  <2>11. g[n] \in Nat /\ g[st[1]] \in Nat /\ g[st[k + 1]] \in Nat
    <3>1. n \in 0..n
      BY <1>2
    <3> QED
      BY <1>7, <1>10, <2>8, <3>1
  <2> QED
    BY <2>5, <2>7, <2>9, <2>10, <2>11
<1>12. ASSUME NEW i \in su[1] + 1 .. Len(log) PROVE ~B!Old(log[i].at)
  <2>1. i \in 1..n /\ i \in Nat /\ st[k + 1] \in Nat /\ st[k + 1] < i /\ i <= n
    BY <1>2, <1>7 DEF n
  <2>2. k < m
    <3>1. k # m
      BY <1>3, <2>1
    <3> QED
      BY <1>2, <1>4, <3>1
  <2>3. k + 1 \in 1..m
    BY <1>2, <1>4, <2>2
  <2>4. buckets[k + 1].oldest = log[st[k + 1] + 1].at
    BY <1>3, <2>3 DEF Holds
  <2>5. st[k + 1] + 1 \in 1..n /\ st[k + 1] + 1 <= i
    BY <1>2, <2>1
  <2>6. log[st[k + 1] + 1].at <= log[i].at
    BY <1>0, <2>1, <2>5 DEF InTime, n
  <2>7. log[i].at \in Nat /\ log[st[k + 1] + 1].at \in Nat
    <3>1. log[i] \in Spends /\ log[st[k + 1] + 1] \in Spends
      BY <1>2, <2>1, <2>5 DEF n
    <3> QED
      BY <3>1 DEF Spends
  <2>8. ~B!Old(log[st[k + 1] + 1].at)
    BY <1>4, <2>2, <2>4
  <2> DEFINE u == log[st[k + 1] + 1].at
             v == log[i].at
  <2>9. u \in Nat /\ v \in Nat /\ u <= v /\ ~(u + Window < clock) /\ clock \in Nat
    BY <1>2, <2>6, <2>7, <2>8 DEF B!Old
  <2> HIDE DEF u, v
  <2>10. ~(v + Window < clock)
    BY <2>9, SpendAssumption
  <2> QED
    BY <2>10 DEF v, B!Old
<1>13. ASSUME NEW i \in 1..su[1] PROVE Lost(i)
  <2> DEFINE T == {b \in Nat : b <= k => \A j \in 1..st[b + 1] : Lost(j)}
  <2>1. 0 \in T
    <3>1. 0 + 1 = 1
      OBVIOUS
    <3> QED
      BY <1>1, <3>1
  <2>2. ASSUME NEW b \in Nat, b \in T PROVE b + 1 \in T
    <3> SUFFICES ASSUME b + 1 <= k, NEW j \in 1..st[(b + 1) + 1] PROVE Lost(j)
      OBVIOUS
    <3> DEFINE c == b + 1
    <3>1. c \in 1..k /\ c \in 1..m /\ c \in 1..m + 1 /\ c + 1 \in 1..m + 1
      BY <1>2, <1>4
    <3>2. st[c] \in 0..n /\ st[c + 1] \in 0..n /\ st[c] < st[c + 1]
      BY <1>3, <3>1 DEF Holds
    <3>3. CASE j \in 1..st[c]
      <4>1. b <= k
        BY <1>2, <1>4, <3>1
      <4> QED
        BY <2>2, <3>3, <4>1
    <3>4. CASE j \in st[c] + 1 .. st[c + 1]
      <4>1. log[j].at \div Minute = buckets[c].key
        BY <1>3, <3>1, <3>4 DEF Holds
      <4>2. st[c] + 1 \in st[c] + 1 .. st[c + 1] /\ st[c] + 1 \in 1..n
        BY <1>2, <3>2
      <4>3. log[st[c] + 1].at \div Minute = buckets[c].key
        BY <1>3, <3>1, <4>2 DEF Holds
      <4>4. B!Old(log[st[c] + 1].at)
        BY <1>3, <1>4, <3>1 DEF Holds
      <4> QED
        BY <4>1, <4>2, <4>3, <4>4 DEF Lost, n
    <3> QED
      BY <1>2, <3>2, <3>3, <3>4
  <2>3. \A b \in Nat : b \in T
    <3> HIDE DEF T
    <3> QED
      BY <2>1, <2>2, ByInduction
  <2>4. k \in T
    BY <1>2, <1>4, <2>3
  <2> QED
    BY <1>2, <1>4, <1>7, <2>4
<1>14. B!pruneLocked.buckets = K
  BY DEF B!pruneLocked, K
<1> QED
  BY <1>5, <1>6, <1>8, <1>11, <1>12, <1>13, <1>14 DEF Pruned

\* The guard's window once its expired spends are gone: the spends of the window, no others.
Exact(ws) ==
  /\ ws \in Seq(Spends)
  /\ \E w \in 0..Len(log) : /\ Len(ws) = Len(log) - w /\ Follows(log, w, ws)
                            /\ \A i \in 1..w : B!Old(log[i].at)
                            /\ \A i \in w + 1 .. Len(log) : ~B!Old(log[i].at)

\* Spends have times that are numbers.
LEMMA TimesTyped ==
  ASSUME SpendTypes
  PROVE  log \in Seq(Spends) /\ Len(log) \in Nat /\ clock \in Nat /\ \A i \in 1..Len(log) : log[i].at \in Nat
<1>1. log \in Seq(Spends) /\ Len(log) \in Nat /\ clock \in Nat
  BY DEF SpendTypes
<1>2. \A i \in 1..Len(log) : log[i] \in Spends
  BY <1>1
<1>3. \A e \in Spends : e.at \in Nat
  BY DEF Spends
<1> QED
  BY <1>1, <1>2, <1>3

\* The eviction of budget.go:229-240 drops the expired spends, all of them and nothing else.
LEMMA EvictMeans ==
  ASSUME SpendTypes, InTime, Windowed(window)
  PROVE  Exact(B!evictLocked)
<1> DEFINE n == Len(log)
           ats == [i \in 1..Len(window) |-> window[i].at]
           k == B!Gone(ats)
           v == B!evictLocked
<1>1. log \in Seq(Spends) /\ n \in Nat /\ clock \in Nat /\ \A i \in 1..n : log[i].at \in Nat
  BY TimesTyped
<1>2. window \in Seq(Spends)
  BY DEF Windowed
<1>3. PICK w \in 0..n : /\ Len(window) = n - w /\ Follows(log, w, window)
                        /\ \A i \in 1..w : B!Old(log[i].at)
  BY DEF Windowed
<1>4. \A i \in 1..n - w : window[i] = log[w + i] /\ w + i \in 1..n
  BY <1>1, <1>3 DEF Follows
<1>5. ats \in Seq(Nat) /\ Len(ats) = n - w /\ \A i \in 1..n - w : ats[i] = log[w + i].at
  <2>1. ats \in [1..n - w -> Nat]
    BY <1>1, <1>3, <1>4
  <2> QED
    BY <1>1, <1>3, <1>4, <2>1
<1>6. v = SubSeq(window, k + 1, Len(window))
  BY DEF B!evictLocked
<1> HIDE DEF ats, v, n
<1>7. k \in 0..n - w /\ (\A i \in 1..k : B!Old(ats[i])) /\ (k < n - w => ~B!Old(ats[k + 1]))
  BY <1>5, GoneMeans
<1> HIDE DEF k
<1>8. v \in Seq(Spends) /\ Len(v) = (n - w) - k /\ \A i \in 1..(n - w) - k : v[i] = window[k + i]
  BY <1>1, <1>2, <1>3, <1>6, <1>7
<1> DEFINE u == w + k
<1>9. u \in 0..n /\ Len(v) = n - u
  BY <1>1, <1>7, <1>8
<1>10. Follows(log, u, v)
  <2>1. ASSUME NEW i \in 1..Len(v) PROVE v[i] = log[u + i]
    <3>1. k + i \in 1..n - w /\ i \in 1..(n - w) - k /\ w + (k + i) = u + i
      BY <1>1, <1>7, <1>8
    <3> QED
      BY <1>4, <1>8, <3>1
  <2>2. u + Len(v) <= Len(log)
    BY <1>1, <1>9 DEF n
  <2> HIDE DEF u
  <2> QED
    BY <2>1, <2>2 DEF Follows
<1>11. ASSUME NEW i \in 1..u PROVE B!Old(log[i].at)
  <2>1. CASE i \in 1..w
    BY <1>3, <2>1
  <2>2. CASE ~(i \in 1..w)
    <3>1. i - w \in 1..k /\ i - w \in 1..n - w /\ w + (i - w) = i
      BY <1>1, <1>7, <2>2
    <3> QED
      BY <1>5, <1>7, <3>1
  <2> QED
    BY <2>1, <2>2
<1>12. ASSUME NEW i \in u + 1 .. n PROVE ~B!Old(log[i].at)
  <2>1. k < n - w /\ k + 1 \in 1..n - w /\ w + (k + 1) = u + 1 /\ u + 1 \in 1..n /\ i \in 1..n /\ u + 1 <= i
    BY <1>1, <1>7, <1>9
  <2>2. ~B!Old(log[u + 1].at)
    BY <1>5, <1>7, <2>1
  <2>3. log[u + 1].at <= log[i].at
    BY <2>1 DEF InTime, n
  <2>4. log[u + 1].at \in Nat /\ log[i].at \in Nat
    BY <1>1, <2>1
  <2> HIDE DEF u
  <2> QED
    BY <1>1, <2>2, <2>3, <2>4, SpendAssumption DEF B!Old
<1> HIDE DEF u
<1> QED
  BY <1>8, <1>9, <1>10, <1>11, <1>12 DEF Exact, n, v

\* The invariant says what the accounts answer.
LEMMA AccountsFollow ==
  ASSUME SpendInv
  PROVE  B!AccountsBound
<1> DEFINE n == Len(log)
           live == {i \in 1..Len(log) : ~B!Old(log[i].at)}
           shadowed == {i \in live : \E x \in 1..Len(log) :
                          B!Old(log[x].at) /\ log[x].at \div Minute = log[i].at \div Minute}
<1>1. SpendTypes /\ InTime /\ (0 \notin Limits => Windowed(window)) /\ alerts <= 1
  BY DEF SpendInv, Warned
<1>2. log \in Seq(Spends) /\ n \in Nat
  BY <1>1, TimesTyped
<1>3. Pruned(B!pruneLocked.buckets, B!pruneLocked.total)
  BY PruneMeans
<1>4. PICK st : /\ Covers(B!pruneLocked.buckets, log, st)
                /\ B!TrackerSpent = B!CostOf(st[1] + 1 .. Len(log))
                /\ \A i \in 1..st[1] : Lost(i)
                /\ \A i \in st[1] + 1 .. Len(log) : ~B!Old(log[i].at)
  BY <1>3 DEF Pruned, B!TrackerSpent
<1>5. st[1] \in 0..n
  <2>1. Len(B!pruneLocked.buckets) \in Nat
    BY <1>3 DEF Pruned
  <2>2. 1 \in 1..Len(B!pruneLocked.buckets) + 1
    BY <2>1
  <2> QED
    BY <1>4, <2>2 DEF Covers
<1>6. B!TrackerSpent <= B!CostOf(live)
  <2>1. (st[1] + 1 .. Len(log)) \cap (1..Len(log)) \subseteq live
    BY <1>4
  <2> QED
    BY <1>2, <1>4, <2>1, CostMonotone
<1>7. B!TrackerSpent >= B!CostOf(live \ shadowed)
  <2>1. ASSUME NEW i \in live \ shadowed PROVE i \in st[1] + 1 .. Len(log)
    <3>1. ~Lost(i)
      BY DEF Lost
    <3> QED
      BY <1>2, <1>4, <1>5, <3>1
  <2>2. (live \ shadowed) \cap (1..Len(log)) \subseteq st[1] + 1 .. Len(log)
    BY <2>1
  <2> HIDE DEF live, shadowed
  <2>3. B!CostOf(live \ shadowed) <= B!CostOf(st[1] + 1 .. Len(log))
    BY <1>2, <2>2, CostMonotone
  <2>4. B!CostOf(live \ shadowed) \in Nat /\ B!CostOf(st[1] + 1 .. Len(log)) \in Nat
    BY <1>2, CostTyped
  <2> QED
    BY <1>4, <2>3, <2>4
<1>8. ASSUME 0 \notin Limits PROVE B!GuardSpent = B!CostOf(live)
  <2> DEFINE v == B!evictLocked
  <2>1. Exact(v)
    BY <1>1, <1>8, EvictMeans
  <2>2. PICK w \in 0..n : /\ Len(v) = n - w /\ Follows(log, w, v)
                          /\ \A i \in 1..w : B!Old(log[i].at)
                          /\ \A i \in w + 1 .. n : ~B!Old(log[i].at)
    BY <2>1 DEF Exact
  <2>3. v \in Seq(Spends)
    BY <2>1 DEF Exact
  <2>4. live = w + 1 .. n
    <3>1. \A i \in 1..n : i \in 1..w \/ i \in w + 1 .. n
      BY <1>2
    <3>2. \A i \in w + 1 .. n : i \in 1..n
      BY <1>2
    <3> QED
      BY <2>2, <3>1, <3>2
  <2>5. PICK g : Runs(CostList(log), g)
    <3>1. CostList(log) \in Seq(Nat)
      BY <1>2, CostListTyped
    <3> QED
      BY <3>1, RunExists
  <2>6. B!CostOf(w + 1 .. n) = g[n] - g[w]
    BY <1>2, <2>5, SuffixCost
  <2>7. B!GuardSpent = B!Sum(v)
    BY DEF B!GuardSpent
  <2> HIDE DEF v, live, n
  <2>8. B!Sum(v) = g[w + Len(v)] - g[w]
    <3>1. w \in Nat
      BY <1>2
    <3> QED
      BY <1>2, <2>2, <2>3, <2>5, <3>1, SumFollows
  <2>9. w + Len(v) = n
    BY <1>2, <2>2
  <2> QED
    BY <2>4, <2>6, <2>7, <2>8, <2>9
<1> QED
  BY <1>1, <1>6, <1>7, <1>8 DEF B!AccountsBound

\* A later time lies in the same minute or in a later one.
LEMMA MinutesAscend ==
  ASSUME NEW a \in Nat, NEW b \in Nat, a <= b
  PROVE  a \div Minute <= b \div Minute /\ a \div Minute \in Nat /\ b \div Minute \in Nat
<1> DEFINE x == a \div Minute
           y == b \div Minute
<1>1. Minute \in Nat /\ Minute > 0
  BY SpendAssumption
<1>2. x \in Nat /\ y \in Nat /\ x * Minute <= a /\ b < (y + 1) * Minute
  BY <1>1, SMTT(30)
<1> HIDE DEF x, y
<1>3. x <= y
  <2> SUFFICES ASSUME x >= y + 1 PROVE FALSE
    BY <1>2
  <2>1. PICK d \in Nat : x = (y + 1) + d
    BY <1>2
  <2>2. x * Minute = (y + 1) * Minute + d * Minute
    BY <1>1, <1>2, <2>1
  <2>3. d * Minute >= 0 /\ d * Minute \in Nat /\ (y + 1) * Minute \in Nat
    BY <1>1, <1>2
  <2> QED
    BY <1>2, <2>2, <2>3
<1> QED
  BY <1>2, <1>3 DEF x, y

\* A bucket still holds what it held when the log has grown.
LEMMA HoldsStays ==
  ASSUME NEW l \in Seq(Spends), NEW x \in Spends, NEW b \in Bins, NEW s \in 0..Len(l), NEW e \in 0..Len(l),
         Holds(l, b, s, e)
  PROVE  Holds(Append(l, x), b, s, e)
<1> DEFINE q == Append(l, x)
           n == Len(l)
<1>1. q \in Seq(Spends) /\ Len(q) = n + 1 /\ n \in Nat /\ \A i \in 1..n : q[i] = l[i]
  OBVIOUS
<1> HIDE DEF q
<1>2. b.entries \in Seq(Spends)
  BY DEF Bins
<1>3. /\ s < e /\ b.oldest = l[s + 1].at /\ Len(b.entries) = e - s
      /\ s + Len(b.entries) <= n /\ \A i \in 1..Len(b.entries) : b.entries[i] = l[s + i]
      /\ \A i \in s + 1 .. e : l[i].at \div Minute = b.key
  BY DEF Holds, Follows
<1>4. s + 1 \in 1..n /\ (\A i \in 1..e - s : s + i \in 1..n) /\ \A i \in s + 1 .. e : i \in 1..n
  BY <1>1, <1>3
<1>5. b.oldest = q[s + 1].at
  BY <1>1, <1>3, <1>4
<1>6. \A i \in s + 1 .. e : q[i].at \div Minute = b.key
  BY <1>1, <1>3, <1>4
<1>7. Follows(q, s, b.entries)
  <2>1. \A i \in 1..Len(b.entries) : b.entries[i] = q[s + i]
    BY <1>1, <1>3, <1>4
  <2>2. s + Len(b.entries) <= Len(q)
    BY <1>1, <1>2, <1>3
  <2> QED
    BY <2>1, <2>2 DEF Follows
<1> QED
  BY <1>3, <1>5, <1>6, <1>7 DEF Holds, q

\* A spend of now is booked under now's minute, in the last bucket or in a new one behind it.
LEMMA BookedWell ==
  ASSUME SpendTypes, InTime, NEW p, p.buckets \in Seq(Bins), Ascending(p.buckets), NEW st,
         Covers(p.buckets, log, st), NEW e \in Spends, e.at = clock
  PROVE  /\ B!Booked(p, e) \in Seq(Bins) /\ Ascending(B!Booked(p, e))
         /\ \E su : Covers(B!Booked(p, e), Append(log, e), su) /\ su[1] = st[1]
<1> DEFINE bs == p.buckets
           m == Len(bs)
           n == Len(log)
           key == clock \div Minute
           at == {i \in 1..m : bs[i].key = key}
           q == Append(log, e)
<1>1. log \in Seq(Spends) /\ n \in Nat /\ clock \in Nat /\ \A i \in 1..n : log[i].at \in Nat
  BY TimesTyped
<1>2. m \in Nat /\ bs \in Seq(Bins) /\ \A b \in 1..m : bs[b] \in Bins
  OBVIOUS
<1>3. /\ st \in [1..m + 1 -> 0..n] /\ st[m + 1] = n
      /\ \A b \in 1..m : Holds(log, bs[b], st[b], st[b + 1])
  BY DEF Covers
<1>4. q \in Seq(Spends) /\ Len(q) = n + 1 /\ q[n + 1] = e /\ \A i \in 1..n : q[i] = log[i]
  BY <1>1
<1>5. key \in Nat
  BY <1>1, MinutesAscend
<1>6. B!Booked(p, e) = IF at = {} THEN Append(bs, [key |-> key, oldest |-> clock, entries |-> <<e>>])
                       ELSE [bs EXCEPT ![CHOOSE i \in at : TRUE].entries = Append(@, e)]
  BY DEF B!Booked
<1>7. ASSUME NEW a \in 1..m, NEW b \in 1..m, a < b PROVE bs[a].key < bs[b].key
  BY <1>7 DEF Ascending
<1> HIDE DEF bs, m, n, key, q
<1>8. \A b \in 1..m : /\ bs[b].key <= key /\ bs[b].key \in Nat /\ b + 1 \in 1..m + 1
                      /\ st[b] \in 0..n /\ st[b + 1] \in 0..n
                      /\ Holds(q, bs[b], st[b], st[b + 1])
  <2> SUFFICES ASSUME NEW b \in 1..m
               PROVE  /\ bs[b].key <= key /\ bs[b].key \in Nat /\ b + 1 \in 1..m + 1
                      /\ st[b] \in 0..n /\ st[b + 1] \in 0..n
                      /\ Holds(q, bs[b], st[b], st[b + 1])
    OBVIOUS
  <2>1. b \in 1..m + 1 /\ b + 1 \in 1..m + 1
    BY <1>2
  <2>2. st[b] \in 0..n /\ st[b + 1] \in 0..n /\ st[b] \in Nat
    BY <1>1, <1>3, <2>1
  <2>3. Holds(log, bs[b], st[b], st[b + 1])
    BY <1>3
  <2>4. st[b] + 1 \in st[b] + 1 .. st[b + 1] /\ st[b] + 1 \in 1..n
    BY <1>1, <2>2, <2>3 DEF Holds
  <2>5. bs[b].key = log[st[b] + 1].at \div Minute
    BY <2>3, <2>4 DEF Holds
  <2>6. log[st[b] + 1].at <= clock /\ log[st[b] + 1].at \in Nat
    BY <1>1, <2>4 DEF InTime, n
  <2>7. bs[b].key <= key /\ bs[b].key \in Nat
    BY <1>1, <2>5, <2>6, MinutesAscend DEF key
  <2>8. Holds(q, bs[b], st[b], st[b + 1])
    BY <1>1, <1>2, <2>2, <2>3, HoldsStays DEF n, q
  <2> QED
    BY <2>1, <2>2, <2>7, <2>8
<1>9. st[1] \in 0..n
  BY <1>2, <1>3
<1>10. CASE at = {}
  <2> DEFINE new == [key |-> key, oldest |-> clock, entries |-> <<e>>]
             cs == Append(bs, new)
             su == [i \in 1..m + 2 |-> IF i <= m + 1 THEN st[i] ELSE n + 1]
  <2>1. new \in Bins
    BY <1>1, <1>5 DEF Bins
  <2>2. new.key = key /\ new.oldest = clock /\ new.entries = <<e>> /\ <<e>> \in Seq(Spends)
        /\ Len(<<e>>) = 1 /\ <<e>>[1] = e
    OBVIOUS
  <2> HIDE DEF new
  <2>3. cs \in Seq(Bins) /\ Len(cs) = m + 1 /\ cs[m + 1] = new /\ \A b \in 1..m : cs[b] = bs[b]
    BY <1>2, <2>1 DEF m
  <2>4. B!Booked(p, e) = cs
    BY <1>6, <1>10 DEF new
  <2> HIDE DEF cs
  <2>5. \A b \in 1..m : bs[b].key < key
    BY <1>5, <1>8, <1>10
  <2>6. Ascending(cs)
    <3> SUFFICES ASSUME NEW a \in 1..m + 1, NEW b \in 1..m + 1, a < b PROVE cs[a].key < cs[b].key
      BY <2>3 DEF Ascending
    <3>1. a \in 1..m
      BY <1>2
    <3>2. CASE b \in 1..m
      BY <1>7, <2>3, <3>1, <3>2
    <3>3. CASE b = m + 1
      BY <2>2, <2>3, <2>5, <3>1, <3>3
    <3> QED
      BY <1>2, <3>2, <3>3
  <2>7. /\ su \in [1..m + 2 -> 0..n + 1] /\ su[m + 2] = n + 1 /\ su[m + 1] = n /\ su[1] = st[1]
        /\ \A b \in 1..m : su[b] = st[b] /\ su[b + 1] = st[b + 1]
    <3>1. \A i \in 1..m + 1 : st[i] \in 0..n + 1
      BY <1>1, <1>3
    <3>2. n + 1 \in 0..n + 1 /\ m + 2 \in 1..m + 2 /\ m + 1 \in 1..m + 2 /\ 1 \in 1..m + 2 /\ ~(m + 2 <= m + 1)
          /\ \A i \in 1..m + 2 : i <= m + 1 => i \in 1..m + 1
      BY <1>1, <1>2
    <3>3. \A b \in 1..m : b \in 1..m + 2 /\ b + 1 \in 1..m + 2 /\ b <= m + 1 /\ b + 1 <= m + 1
      BY <1>2
    <3>4. su \in [1..m + 2 -> 0..n + 1]
      BY <3>1, <3>2
    <3>5. m + 1 <= m + 1 /\ 1 <= m + 1
      BY <1>2
    <3> QED
      BY <1>3, <3>2, <3>3, <3>4, <3>5
  <2> HIDE DEF su
  <2>8. Holds(q, new, n, n + 1)
    <3>1. \A i \in n + 1 .. n + 1 : q[i].at \div Minute = key
      BY <1>1, <1>4 DEF key
    <3>2. Follows(q, n, <<e>>)
      BY <1>1, <1>4, <2>2 DEF Follows
    <3>3. q[n + 1].at = clock
      BY <1>4
    <3> QED
      BY <1>1, <2>2, <3>1, <3>2, <3>3 DEF Holds
  <2>9. ASSUME NEW b \in 1..m + 1 PROVE Holds(q, cs[b], su[b], su[b + 1])
    <3>1. CASE b \in 1..m
      BY <1>8, <2>3, <2>7, <3>1
    <3>2. CASE b = m + 1
      <4>1. b + 1 = m + 2
        BY <1>2, <3>2
      <4> QED
        BY <2>3, <2>7, <2>8, <3>2, <4>1
    <3> QED
      BY <1>2, <3>1, <3>2
  <2>10. Covers(cs, q, su)
    <3>1. Len(cs) + 1 = m + 2
      BY <1>2, <2>3
    <3> QED
      BY <1>4, <2>3, <2>7, <2>9, <3>1 DEF Covers
  <2> QED
    BY <2>3, <2>4, <2>6, <2>7, <2>10 DEF q
<1>11. CASE at # {}
  <2> DEFINE j == CHOOSE i \in at : TRUE
             new == [bs[m] EXCEPT !.entries = Append(@, e)]
             cs == [bs EXCEPT ![j].entries = Append(@, e)]
             su == [st EXCEPT ![m + 1] = n + 1]
  <2>1. j \in at
    BY <1>11
  <2>2. j \in 1..m /\ bs[j].key = key
    BY <2>1
  <2> HIDE DEF j, at
  <2>3. j = m
    <3> SUFFICES ASSUME j < m PROVE FALSE
      BY <1>2, <2>2
    <3>1. m \in 1..m
      BY <1>2, <2>2
    <3>2. bs[j].key < bs[m].key
      BY <1>7, <2>2, <3>1
    <3> QED
      BY <1>5, <1>8, <2>2, <3>1, <3>2
  <2>4. m \in 1..m /\ m >= 1 /\ bs[m] \in Bins /\ bs[m].entries \in Seq(Spends)
    <3>1. m \in 1..m /\ m >= 1
      BY <1>2, <2>2
    <3>2. \A b \in Bins : b.entries \in Seq(Spends)
      BY DEF Bins
    <3> QED
      BY <1>2, <3>1, <3>2
  <2>5. /\ new \in Bins /\ new.key = bs[m].key /\ new.oldest = bs[m].oldest
        /\ new.entries = Append(bs[m].entries, e)
    <3>1. Append(bs[m].entries, e) \in Seq(Spends)
      BY <2>4
    <3> QED
      BY <2>4, <3>1 DEF Bins
  <2>6. B!Booked(p, e) = cs
    BY <1>6, <1>11 DEF j
  <2>7. cs = [bs EXCEPT ![m] = new]
    BY <2>3
  <2> HIDE DEF new, cs
  <2>8. cs \in Seq(Bins) /\ Len(cs) = m /\ cs[m] = new /\ \A b \in 1..m : b # m => cs[b] = bs[b]
    BY <1>2, <2>4, <2>5, <2>7 DEF m
  <2>9. Ascending(cs)
    <3>1. \A b \in 1..m : cs[b].key = bs[b].key
      BY <2>5, <2>8
    <3> QED
      BY <1>7, <2>8, <3>1 DEF Ascending
  <2>10. /\ su \in [1..m + 1 -> 0..n + 1] /\ su[m + 1] = n + 1 /\ su[1] = st[1]
         /\ \A b \in 1..m : su[b] = st[b] /\ (b # m => su[b + 1] = st[b + 1])
    <3>1. \A i \in 1..m + 1 : st[i] \in 0..n + 1
      BY <1>1, <1>3
    <3>2. m + 1 \in 1..m + 1 /\ 1 \in 1..m + 1 /\ 1 # m + 1 /\ n + 1 \in 0..n + 1
      BY <1>1, <1>2, <2>4
    <3>3. \A b \in 1..m : b \in 1..m + 1 /\ b # m + 1 /\ (b # m => b + 1 # m + 1) /\ b + 1 \in 1..m + 1
      BY <1>2
    <3> QED
      BY <1>3, <3>1, <3>2, <3>3
  <2> HIDE DEF su
  <2>11. Holds(q, new, st[m], n + 1)
    <3> DEFINE s == st[m]
               es == bs[m].entries
               ds == new.entries
    <3>1. /\ s \in 0..n /\ s < n /\ bs[m].oldest = q[s + 1].at /\ Len(es) = n - s /\ Follows(q, s, es)
          /\ \A i \in s + 1 .. n : q[i].at \div Minute = bs[m].key
      BY <1>3, <1>8, <2>4 DEF Holds
    <3>2. ds = Append(es, e) /\ es \in Seq(Spends)
      BY <2>4, <2>5
    <3> HIDE DEF s, es, ds
    <3>3. Len(ds) = (n + 1) - s /\ ds[(n - s) + 1] = e /\ \A i \in 1..n - s : ds[i] = es[i]
      BY <1>1, <3>1, <3>2
    <3>4. Follows(q, s, ds)
      <4>1. ASSUME NEW i \in 1..Len(ds) PROVE ds[i] = q[s + i]
        <5>1. CASE i \in 1..n - s
          BY <3>1, <3>3, <5>1 DEF Follows
        <5>2. CASE i = (n - s) + 1
          <6>1. s + i = n + 1
            BY <1>1, <3>1, <5>2
          <6> QED
            BY <1>4, <3>3, <5>2, <6>1
        <5> QED
          BY <1>1, <3>1, <3>3, <5>1, <5>2
      <4>2. s + Len(ds) <= Len(q)
        BY <1>1, <1>4, <3>1, <3>3
      <4> QED
        BY <4>1, <4>2 DEF Follows
    <3>5. ASSUME NEW i \in s + 1 .. n + 1 PROVE q[i].at \div Minute = bs[m].key
      <4>1. CASE i \in s + 1 .. n
        BY <3>1, <4>1
      <4>2. CASE i = n + 1
        BY <1>4, <2>2, <2>3, <4>2 DEF key
      <4> QED
        BY <1>1, <3>1, <4>1, <4>2
    <3>6. s < n + 1
      BY <1>1, <3>1
    <3> QED
      BY <2>5, <3>1, <3>3, <3>4, <3>5, <3>6 DEF Holds, s, ds
  <2>12. ASSUME NEW b \in 1..m PROVE Holds(q, cs[b], su[b], su[b + 1])
    BY <1>8, <2>8, <2>10, <2>11
  <2>13. Covers(cs, q, su)
    <3>1. Len(q) = n + 1
      BY <1>4
    <3> QED
      BY <2>8, <2>10, <2>12, <3>1 DEF Covers
  <2> QED
    BY <2>6, <2>8, <2>9, <2>10, <2>13 DEF q
<1> QED
  BY <1>10, <1>11

\* Empty accounts are in order.
LEMMA SpendStarts ==
  ASSUME B!SpendInit
  PROVE  SpendInv
<1> DEFINE st == [i \in 1..1 |-> 0]
<1>1. clock = 0 /\ log = <<>> /\ window = <<>> /\ limit \in Limits /\ sent = FALSE
      /\ alerts = 0 /\ buckets = <<>> /\ total = 0
  BY DEF B!SpendInit
<1>2. Len(log) = 0 /\ Len(buckets) = 0 /\ Len(window) = 0 /\ log \in Seq(Spends) /\ buckets \in Seq(Bins) /\ window \in Seq(Spends)
  BY <1>1
<1>3. st \in [1..1 -> 0..0] /\ st[1] = 0
  OBVIOUS
<1> HIDE DEF st
<1>4. Covers(buckets, log, st)
  BY <1>2, <1>3 DEF Covers
<1>5. B!CostOf(0 + 1 .. Len(log)) = 0
  <2>1. PICK g : Runs(CostList(log), g)
    <3>1. CostList(log) \in Seq(Nat)
      BY <1>2, CostListTyped
    <3> QED
      BY <3>1, RunExists
  <2>2. g[0] \in Nat
    <3>1. CostList(log) \in Seq(Nat)
      BY <1>2, CostListTyped
    <3> QED
      BY <2>1, <3>1, RunTyped
  <2>3. B!CostOf(0 + 1 .. Len(log)) = g[Len(log)] - g[0]
    BY <1>2, <2>1, SuffixCost
  <2> QED
    BY <1>2, <2>2, <2>3
<1>6. Counted
  <2>1. total = B!CostOf(st[1] + 1 .. Len(log))
    BY <1>1, <1>3, <1>5
  <2>2. \A i \in 1..st[1] : Lost(i)
    BY <1>3
  <2> QED
    BY <1>4, <2>1, <2>2 DEF Counted
<1>7. Windowed(window)
  <2>1. 0 \in 0..Len(log) /\ Len(window) = Len(log) - 0 /\ Follows(log, 0, window)
    BY <1>2 DEF Follows
  <2>2. \A i \in 1..0 : B!Old(log[i].at)
    OBVIOUS
  <2> QED
    BY <1>2, <2>1, <2>2, Zenon DEF Windowed
<1>8. SpendTypes /\ InTime /\ Ascending(buckets)
  BY <1>1, <1>2 DEF SpendTypes, InTime, Ascending
<1>9. Warned
  BY <1>1 DEF Warned
<1> QED
  BY <1>6, <1>7, <1>8, <1>9 DEF SpendInv

\* A spend made now joins both accounts.
LEMMA RecordKeeps ==
  ASSUME SpendInv, NEW c \in Costs, B!Record(c)
  PROVE  SpendInv'
<1> DEFINE e == [at |-> clock, cost |-> c]
           p == B!pruneLocked
           n == Len(log)
           q == Append(log, e)
<1>0. SpendTypes /\ InTime /\ Warned /\ (0 \notin Limits => Windowed(window))
  BY DEF SpendInv
<1>1. log \in Seq(Spends) /\ n \in Nat /\ clock \in Nat /\ \A i \in 1..n : log[i].at \in Nat
  BY <1>0, TimesTyped
<1>2. e \in Spends /\ e.at = clock /\ e.cost = c
  BY <1>1, SpendAssumption DEF Spends
<1>3. /\ log' = q
      /\ window' = IF limit = 0 THEN window ELSE Append(B!evictLocked, e)
      /\ buckets' = B!Booked(p, e) /\ total' = p.total + c
      /\ clock' = clock /\ limit' = limit /\ sent' = sent /\ alerts' = alerts
  BY DEF B!Record
<1> HIDE DEF p, e
<1>4. Pruned(p.buckets, p.total)
  BY PruneMeans DEF p
<1>5. PICK st : /\ p.buckets \in Seq(Bins) /\ Ascending(p.buckets) /\ Covers(p.buckets, log, st)
                /\ p.total = B!CostOf(st[1] + 1 .. Len(log))
                /\ \A i \in 1..st[1] : Lost(i)
  BY <1>4 DEF Pruned
<1>6. /\ B!Booked(p, e) \in Seq(Bins) /\ Ascending(B!Booked(p, e))
      /\ \E su : Covers(B!Booked(p, e), Append(log, e), su) /\ su[1] = st[1]
  BY <1>0, <1>2, <1>5, BookedWell
<1>7. PICK su : Covers(buckets', log', su) /\ su[1] = st[1]
  BY <1>3, <1>6
<1>8. st[1] \in 0..n
  <2>1. 1 \in 1..Len(p.buckets) + 1
    BY <1>5
  <2> QED
    BY <1>5, <2>1 DEF Covers
<1>9. q \in Seq(Spends) /\ Len(q) = n + 1 /\ q[n + 1] = e /\ \A i \in 1..n : q[i] = log[i]
  BY <1>1, <1>2
<1>10. total' = B!CostOf(su[1] + 1 .. Len(log))'
  <2>1. CostIn(q, st[1] + 1 .. n + 1) = CostIn(log, st[1] + 1 .. n) + c
    BY <1>1, <1>2, <1>8, OneMore
  <2>2. p.total = CostIn(log, st[1] + 1 .. n)
    BY <1>5 DEF B!CostOf, CostIn
  <2>3. B!CostOf(su[1] + 1 .. Len(log))' = CostIn(q, st[1] + 1 .. n + 1)
    BY <1>3, <1>7, <1>9 DEF B!CostOf, CostIn
  <2> QED
    BY <1>3, <2>1, <2>2, <2>3
<1> HIDE DEF q
<1>11. ASSUME NEW i \in 1..su[1] PROVE Lost(i)'
  <2>1. Lost(i) /\ i \in 1..n
    BY <1>1, <1>5, <1>7, <1>8
  <2>2. PICK x \in 1..n : B!Old(log[x].at) /\ log[x].at \div Minute = log[i].at \div Minute
    BY <2>1 DEF Lost
  <2>3. log'[x] = log[x] /\ log'[i] = log[i] /\ x \in 1..Len(log')
    BY <1>1, <1>3, <1>9, <2>1
  <2>4. B!Old(log[x].at) <=> log[x].at + Window < clock'
    BY <1>3 DEF B!Old
  <2> QED
    BY <2>2, <2>3, <2>4 DEF Lost, B!Old
<1>12. Counted'
  BY <1>7, <1>10, <1>11 DEF Counted
<1>13. SpendTypes'
  BY <1>0, <1>3, <1>6, <1>9 DEF SpendTypes
<1>14. InTime'
  <2>1. \A i \in 1..n + 1 : log'[i].at <= clock /\ log'[i].at \in Nat
    <3>1. \A i \in 1..n : log'[i].at <= clock /\ log'[i].at \in Nat
      BY <1>0, <1>1, <1>3, <1>9 DEF InTime
    <3>2. log'[n + 1].at <= clock /\ log'[n + 1].at \in Nat
      BY <1>1, <1>2, <1>3, <1>9
    <3> QED
      BY <1>1, <3>1, <3>2
  <2>2. ASSUME NEW i \in 1..n + 1, NEW j \in 1..n + 1, i <= j PROVE log'[i].at <= log'[j].at
    <3>1. CASE j \in 1..n
      <4>1. i \in 1..n
        BY <1>1, <2>2, <3>1
      <4>2. log[i].at <= log[j].at
        BY <1>0, <2>2, <3>1, <4>1 DEF InTime
      <4> QED
        BY <1>3, <1>9, <3>1, <4>1, <4>2
    <3>2. CASE j = n + 1
      <4>1. log'[j].at = clock
        BY <1>2, <1>3, <1>9, <3>2
      <4> QED
        BY <2>1, <4>1
    <3> QED
      BY <1>1, <3>1, <3>2
  <2> QED
    BY <1>3, <1>9, <2>1, <2>2 DEF InTime
<1>15. ASSUME 0 \notin Limits PROVE Windowed(window)'
  <2> DEFINE v == B!evictLocked
  <2>1. Exact(v)
    BY <1>0, <1>15, EvictMeans
  <2>2. limit # 0
    BY <1>0, <1>15 DEF SpendTypes
  <2>3. window' = Append(v, e)
    BY <1>3, <2>2
  <2> HIDE DEF v
  <2>4. PICK w \in 0..n : /\ Len(v) = n - w /\ Follows(log, w, v) /\ \A i \in 1..w : B!Old(log[i].at)
    BY <2>1 DEF Exact
  <2>5. v \in Seq(Spends)
    BY <2>1 DEF Exact
  <2>6. window' \in Seq(Spends) /\ Len(window') = (n + 1) - w /\ window'[(n - w) + 1] = e
        /\ \A i \in 1..n - w : window'[i] = v[i]
    BY <1>1, <1>2, <2>3, <2>4, <2>5
  <2>7. Follows(log', w, window')
    <3>1. ASSUME NEW i \in 1..Len(window') PROVE window'[i] = log'[w + i]
      <4>1. CASE i \in 1..n - w
        <5>1. v[i] = log[w + i] /\ w + i \in 1..n
          BY <1>1, <2>4, <4>1 DEF Follows
        <5> QED
          BY <1>3, <1>9, <2>6, <4>1, <5>1
      <4>2. CASE i = (n - w) + 1
        <5>1. w + i = n + 1
          BY <1>1, <4>2
        <5> QED
          BY <1>3, <1>9, <2>6, <4>2, <5>1
      <4> QED
        BY <1>1, <2>4, <2>6, <4>1, <4>2
    <3>2. w + Len(window') <= Len(log')
      BY <1>1, <1>3, <1>9, <2>6
    <3> QED
      BY <3>1, <3>2 DEF Follows
  <2>8. ASSUME NEW i \in 1..w PROVE B!Old(log[i].at)'
    <3>1. B!Old(log[i].at) /\ i \in 1..n
      BY <1>1, <2>4
    <3>2. log'[i] = log[i]
      BY <1>3, <1>9, <3>1
    <3> QED
      BY <1>3, <3>1, <3>2 DEF B!Old
  <2>9. w \in 0..Len(log') /\ Len(window') = Len(log') - w
    BY <1>1, <1>3, <1>9, <2>6
  <2> QED
    BY <2>6, <2>7, <2>8, <2>9 DEF Windowed
<1>16. Ascending(buckets)'
  BY <1>3, <1>6
<1>17. Warned'
  BY <1>0, <1>3 DEF Warned
<1> QED
  BY <1>12, <1>13, <1>14, <1>15, <1>16, <1>17 DEF SpendInv

\* What does not touch the log or the buckets keeps the tracker's account, as time passes.
LEMMA AccountStays ==
  ASSUME SpendInv, UNCHANGED <<log, buckets, total>>, limit' \in Limits, clock' \in Nat, clock <= clock'
  PROVE  SpendTypes' /\ InTime' /\ Ascending(buckets)' /\ Counted'
<1>1. SpendTypes /\ InTime /\ Ascending(buckets)
  BY DEF SpendInv
<1>2. log \in Seq(Spends) /\ Len(log) \in Nat /\ clock \in Nat /\ \A i \in 1..Len(log) : log[i].at \in Nat
  BY <1>1, TimesTyped
<1>3. PICK st : /\ Covers(buckets, log, st) /\ total = B!CostOf(st[1] + 1 .. Len(log))
                /\ \A i \in 1..st[1] : Lost(i)
  BY DEF SpendInv, Counted
<1>4. ASSUME NEW i \in 1..st[1] PROVE Lost(i)'
  <2>1. Lost(i)
    BY <1>3
  <2>2. PICK x \in 1..Len(log) : B!Old(log[x].at) /\ log[x].at \div Minute = log[i].at \div Minute
    BY <2>1 DEF Lost
  <2>3. log[x].at + Window < clock'
    BY <1>2, <2>2, SpendAssumption DEF B!Old
  <2> QED
    BY <2>2, <2>3 DEF Lost, B!Old
<1>5. B!CostOf(st[1] + 1 .. Len(log))' = B!CostOf(st[1] + 1 .. Len(log))
  BY DEF B!CostOf
<1>6. Counted'
  <2>1. Covers(buckets', log', st) /\ total' = B!CostOf(st[1] + 1 .. Len(log))'
    BY <1>3, <1>5
  <2> QED
    BY <1>4, <2>1 DEF Counted
<1>7. InTime'
  BY <1>1, <1>2 DEF InTime
<1> QED
  BY <1>1, <1>2, <1>6, <1>7 DEF SpendTypes

\* A window no one touches stays the end of the log as time passes.
LEMMA WindowStays ==
  ASSUME SpendInv, UNCHANGED <<log, window>>, clock' \in Nat, clock <= clock', 0 \notin Limits
  PROVE  Windowed(window)'
<1>1. SpendTypes /\ Windowed(window)
  BY DEF SpendInv
<1>2. Len(log) \in Nat /\ clock \in Nat /\ \A i \in 1..Len(log) : log[i].at \in Nat
  BY <1>1, TimesTyped
<1>3. PICK w \in 0..Len(log) : /\ Len(window) = Len(log) - w /\ Follows(log, w, window)
                               /\ \A i \in 1..w : B!Old(log[i].at)
  BY <1>1 DEF Windowed
<1>4. ASSUME NEW i \in 1..w PROVE log[i].at + Window < clock'
  <2>1. B!Old(log[i].at) /\ i \in 1..Len(log)
    BY <1>2, <1>3
  <2> QED
    BY <1>2, <2>1, SpendAssumption DEF B!Old
<1> QED
  BY <1>1, <1>3, <1>4 DEF Windowed, B!Old

\* The evicted window is the guard's new window, and the warning is given once.
LEMMA ApproachKeeps ==
  ASSUME SpendInv, B!CheckApproaching
  PROVE  SpendInv'
<1> DEFINE near == 10 * B!Sum(B!evictLocked) >= 8 * limit
           v == B!evictLocked
<1>0. SpendTypes /\ InTime /\ Warned /\ (0 \notin Limits => Windowed(window))
  BY DEF SpendInv
<1>1. /\ window' = v /\ sent' = near
      /\ alerts' = IF ~near THEN 0 ELSE IF sent THEN alerts ELSE alerts + 1
      /\ UNCHANGED <<clock, log, limit, buckets, total>>
  BY DEF B!CheckApproaching
<1> HIDE DEF near, v
<1>2. limit' \in Limits /\ clock' \in Nat /\ clock <= clock'
  BY <1>0, <1>1 DEF SpendTypes
<1>3. SpendTypes' /\ InTime' /\ Ascending(buckets)' /\ Counted'
  BY <1>1, <1>2, AccountStays
<1>4. Warned'
  <2>1. CASE near
    <3>1. alerts' \in 0..1 /\ sent'
      BY <1>0, <1>1, <2>1 DEF Warned
    <3> QED
      BY <3>1 DEF Warned
  <2>2. CASE ~near
    <3>1. alerts' = 0
      BY <1>1, <2>2
    <3> QED
      BY <3>1 DEF Warned
  <2> QED
    BY <2>1, <2>2
<1>5. ASSUME 0 \notin Limits PROVE Windowed(window)'
  <2>1. Exact(v)
    BY <1>0, <1>5, EvictMeans DEF v
  <2>2. v \in Seq(Spends)
    BY <2>1 DEF Exact
  <2>3. PICK w \in 0..Len(log) : /\ Len(v) = Len(log) - w /\ Follows(log, w, v)
                                 /\ \A i \in 1..w : B!Old(log[i].at)
    BY <2>1 DEF Exact
  <2> QED
    BY <1>1, <2>2, <2>3 DEF Windowed, B!Old
<1> QED
  BY <1>3, <1>4, <1>5 DEF SpendInv

\* Every step of the accounts keeps the invariant.
LEMMA SpendSteps ==
  ASSUME SpendInv, B!SpendNext \/ UNCHANGED spendVars
  PROVE  SpendInv'
<1>0. Warned /\ clock \in Nat /\ limit \in Limits
  BY DEF SpendInv, SpendTypes
<1>1. CASE \E c \in Costs : B!Record(c)
  BY <1>1, RecordKeeps
<1>2. CASE B!CheckApproaching
  BY <1>2, ApproachKeeps
<1>3. CASE \E l \in Limits : B!SetLimit(l)
  <2>1. /\ limit' \in Limits /\ sent' = FALSE /\ alerts' = 0
        /\ UNCHANGED <<clock, log, window, buckets, total>>
    BY <1>3 DEF B!SetLimit
  <2>2. clock' \in Nat /\ clock <= clock'
    BY <1>0, <2>1
  <2>3. SpendTypes' /\ InTime' /\ Ascending(buckets)' /\ Counted'
    BY <2>1, <2>2, AccountStays
  <2>4. 0 \notin Limits => Windowed(window)'
    BY <2>1, <2>2, WindowStays
  <2>5. Warned'
    <3>1. alerts' \in 0..1 /\ alerts' # 1
      BY <2>1
    <3> QED
      BY <3>1 DEF Warned
  <2> QED
    BY <2>3, <2>4, <2>5 DEF SpendInv
<1>4. CASE B!Tick \/ UNCHANGED spendVars
  <2>1. UNCHANGED <<log, window, limit, sent, alerts, buckets, total>>
        /\ clock' \in Nat /\ clock <= clock'
    BY <1>0, <1>4 DEF B!Tick, spendVars
  <2>2. SpendTypes' /\ InTime' /\ Ascending(buckets)' /\ Counted'
    BY <1>0, <2>1, AccountStays
  <2>3. 0 \notin Limits => Windowed(window)'
    BY <2>1, WindowStays
  <2>4. Warned'
    BY <1>0, <2>1 DEF Warned
  <2> QED
    BY <2>2, <2>3, <2>4 DEF SpendInv
<1> QED
  BY <1>1, <1>2, <1>3, <1>4 DEF B!SpendNext

\* For every window, minute, set of costs and of limits: the tracker's buckets hold the
\* end of the log minute by minute, its running total is what they cost, what it no longer
\* holds is of a minute an expired spend was made in, and the guard's window is the end of
\* the log (internal/budget/budget.go:200-251, tracker.go:75-160).
THEOREM SpendAccountsInductive == MonitorsSpec => []SpendInv
<1>1. MonitorsInit => SpendInv
  BY SpendStarts DEF MonitorsInit
<1>2. SpendInv /\ [MonitorsNext]_allVars => SpendInv'
  BY SpendSteps DEF MonitorsNext, allVars
<1> QED
  BY <1>1, <1>2, PTL DEF MonitorsSpec

\* For every window, minute, set of costs and of limits: the tracker never counts a spend
\* that has left the window and leaves out only what shares a minute with an expired one;
\* a guard with a limit all along counts the spends of the window exactly; the approaching
\* limit is told once per crossing (internal/budget/budget.go:229-251, tracker.go:75-120).
THEOREM SpendAccountsBound == MonitorsSpec => []AccountsBound
<1>1. SpendInv => AccountsBound
  BY AccountsFollow DEF AccountsBound
<1> QED
  BY <1>1, SpendAccountsInductive, PTL
=============================================================================
