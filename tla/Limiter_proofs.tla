--------------------------- MODULE Limiter_proofs ---------------------------
(***************************************************************************)
(* Proofs about Limiter, for every set of requests, ceiling, slot size and *)
(* set of probe readings.  The inductive invariant is LimiterInv: the slot *)
(* count is exact only as long as Signal wakes a goroutine that is really  *)
(* parked, and that needs the notify list to hold every parked goroutine   *)
(* exactly once.                                                           *)
(***************************************************************************)
EXTENDS Limiter, FiniteSetTheorems, TLAPS

LimiterInv == TypeOK /\ WaitersParked /\ SlotsAccounted /\ inFlight <= Ceiling

-----------------------------------------------------------------------------
\* effectiveLocked never leaves 1..Ceiling, whatever the probe reports.
LEMMA EffectiveRange ==
  ASSUME NEW f \in Int
  PROVE  Effective(f) \in 1..Ceiling
BY LimiterAssumption DEF Effective

\* The requests are finitely many, and so are the slot holders.
LEMMA HoldersFinite ==
  /\ IsFiniteSet(Holders)
  /\ Cardinality(Holders) \in Nat
<1>1. Holders \subseteq Requests
  BY DEF Holders
<1>2. IsFiniteSet(Holders)
  BY <1>1, LimiterAssumption, FS_Subset
<1> QED
  BY <1>2, FS_CardinalityType

\* A step in which nobody gets or loses a slot keeps the count.
LEMMA SameHolders ==
  ASSUME SlotsAccounted, inFlight' = inFlight,
         \A r \in Requests : pc'[r] \in {"granted", "holding"}
                               <=> pc[r] \in {"granted", "holding"}
  PROVE  SlotsAccounted'
<1>1. Holders' = Holders
  BY DEF Holders
<1> QED
  BY <1>1 DEF SlotsAccounted

\* The types survive cond.Broadcast.
LEMMA BroadcastType ==
  ASSUME NEW pcs \in [Requests -> Positions], BroadcastOn(pcs)
  PROVE  /\ pc' \in [Requests -> Positions]
         /\ waiters' \in Seq(Requests)
         /\ WaitersParked'
         /\ \A r \in Requests : pc'[r] = IF pcs[r] = "parked" THEN "woken" ELSE pcs[r]
<1>1. pc' \in [Requests -> Positions] /\ waiters' = <<>>
  BY DEF BroadcastOn, Positions
<1>2. \A r \in Requests : pc'[r] = IF pcs[r] = "parked" THEN "woken" ELSE pcs[r]
  BY DEF BroadcastOn
<1>3. \A r \in Requests : pc'[r] # "parked"
  BY <1>2
<1>4. WaitersParked'
  BY <1>1, <1>3 DEF WaitersParked, Parked
<1> QED
  BY <1>1, <1>2, <1>4

\* The notify list and the parked goroutines stay the same thing when the
\* longest waiting one is signalled and nobody else parks or unparks.
LEMMA SignalType ==
  ASSUME TypeOK, WaitersParked,
         NEW pcs \in [Requests -> Positions],
         \A r \in Requests : pcs[r] = "parked" <=> pc[r] = "parked",
         SignalOn(pcs)
  PROVE  /\ pc' \in [Requests -> Positions]
         /\ waiters' \in Seq(Requests)
         /\ WaitersParked'
         /\ \A r \in Requests : \/ pc'[r] = pcs[r]
                                \/ pcs[r] = "parked" /\ pc'[r] = "woken"
<1> USE DEF TypeOK
<1>1. CASE waiters = <<>>
  BY <1>1 DEF SignalOn, WaitersParked, Parked
<1>2. CASE waiters # <<>>
  <2> DEFINE h == Head(waiters)
  <2>1. /\ waiters' = Tail(waiters)
        /\ pc' = [pcs EXCEPT ![h] = "woken"]
    BY <1>2 DEF SignalOn
  <2>2. /\ Len(waiters) \in Nat \ {0}
        /\ h = waiters[1] /\ h \in Requests
        /\ waiters' \in Seq(Requests)
        /\ Len(waiters') = Len(waiters) - 1
        /\ \A i \in 1..Len(waiters') : waiters'[i] = waiters[i + 1]
    BY <1>2, <2>1
  <2>3. pcs[h] = "parked"
    BY <2>2 DEF WaitersParked
  <2>4. pc' \in [Requests -> Positions]
    BY <2>1, <2>2 DEF Positions
  <2>5. \A i \in 1..Len(waiters') : waiters'[i] # h /\ waiters'[i] \in Requests
    BY <2>2 DEF WaitersParked
  <2>6. \A i \in 1..Len(waiters') : pc'[waiters'[i]] = "parked"
    BY <2>1, <2>2, <2>5 DEF WaitersParked
  <2>7. \A i, j \in 1..Len(waiters') : waiters'[i] = waiters'[j] => i = j
    BY <2>2 DEF WaitersParked
  <2>8. ASSUME NEW r \in Requests, pc'[r] = "parked"
        PROVE  \E i \in 1..Len(waiters') : waiters'[i] = r
    <3>1. r # h /\ pc[r] = "parked"
      BY <2>1, <2>2, <2>8
    <3>2. PICK k \in 1..Len(waiters) : waiters[k] = r
      BY <3>1 DEF WaitersParked, Parked
    <3>3. k # 1 /\ k - 1 \in 1..Len(waiters')
      BY <2>2, <3>1, <3>2
    <3>4. waiters'[k - 1] = r
      BY <2>2, <3>2, <3>3
    <3> QED
      BY <3>3, <3>4
  <2>9. WaitersParked'
    BY <2>6, <2>7, <2>8 DEF WaitersParked, Parked
  <2> QED
    BY <2>1, <2>2, <2>3, <2>4, <2>9
<1> QED
  BY <1>1, <1>2

\* The notify list is untouched when nobody parks or is woken.
LEMMA SameWaiters ==
  ASSUME WaitersParked, waiters \in Seq(Requests), waiters' = waiters,
         \A r \in Requests : pc'[r] = "parked" <=> pc[r] = "parked"
  PROVE  WaitersParked'
BY DEF WaitersParked, Parked

-----------------------------------------------------------------------------
\* The initial states: New and an idle process.
LEMMA LimiterInit == Init => LimiterInv
<1> SUFFICES ASSUME Init PROVE LimiterInv
  OBVIOUS
<1>1. TypeOK
  BY DEF Init, TypeOK, Positions, CallbackStates
<1>2. WaitersParked
  BY DEF Init, WaitersParked, Parked
<1>3. Holders = {}
  BY DEF Init, Holders
<1>4. SlotsAccounted
  BY <1>3, FS_EmptySet DEF Init, SlotsAccounted
<1> QED
  BY <1>1, <1>2, <1>4, LimiterAssumption DEF LimiterInv, Init

\* Every step of every goroutine, of the clients and of the probe keeps the
\* invariant.
LEMMA LimiterStep == LimiterInv /\ [Next]_vars => LimiterInv'
<1> SUFFICES ASSUME LimiterInv, [Next]_vars PROVE LimiterInv'
  OBVIOUS
<1> USE DEF LimiterInv, TypeOK
<1>1. ASSUME NEW r \in Requests, Register(r) PROVE LimiterInv'
  <2>1. TypeOK'
    BY <1>1 DEF Register, Positions, CallbackStates
  <2>2. WaitersParked'
    BY <1>1, SameWaiters DEF Register
  <2>3. SlotsAccounted'
    BY <1>1, SameHolders DEF Register
  <2> QED
    BY <1>1, <2>1, <2>2, <2>3 DEF Register
<1>2. ASSUME NEW r \in Requests, Refuse(r) PROVE LimiterInv'
  <2>1. TypeOK'
    BY <1>2 DEF Refuse, Positions
  <2>2. WaitersParked'
    BY <1>2, SameWaiters DEF Refuse
  <2>3. SlotsAccounted'
    BY <1>2, SameHolders DEF Refuse
  <2> QED
    BY <1>2, <2>1, <2>2, <2>3 DEF Refuse
<1>3. ASSUME NEW r \in Requests, TakeSlot(r) PROVE LimiterInv'
  <2>1. TypeOK'
    BY <1>3 DEF TakeSlot, Positions
  <2>2. WaitersParked'
    BY <1>3, SameWaiters DEF TakeSlot
  <2>3. Holders' = Holders \cup {r} /\ r \notin Holders
    BY <1>3 DEF TakeSlot, Holders
  <2>4. SlotsAccounted'
    BY <1>3, <2>3, HoldersFinite, FS_AddElement DEF TakeSlot, SlotsAccounted
  <2>5. free \in Int
    BY LimiterAssumption
  <2>6. inFlight' <= Ceiling
    BY <1>3, <2>5, EffectiveRange, LimiterAssumption DEF TakeSlot
  <2> QED
    BY <2>1, <2>2, <2>4, <2>6
<1>4. ASSUME NEW r \in Requests, Park(r) PROVE LimiterInv'
  <2>1. TypeOK'
    BY <1>4 DEF Park, Positions
  <2>2. /\ Len(waiters') = Len(waiters) + 1
        /\ \A i \in 1..Len(waiters) : waiters'[i] = waiters[i]
        /\ waiters'[Len(waiters) + 1] = r
        /\ Len(waiters) \in Nat
    BY <1>4 DEF Park
  <2>3. \A i \in 1..Len(waiters) : waiters[i] # r /\ waiters[i] \in Requests
    BY <1>4 DEF Park, WaitersParked
  <2>4. \A i \in 1..Len(waiters') : pc'[waiters'[i]] = "parked"
    BY <1>4, <2>2, <2>3 DEF Park, WaitersParked
  <2>5. \A i, j \in 1..Len(waiters') : waiters'[i] = waiters'[j] => i = j
    BY <2>2, <2>3 DEF WaitersParked
  <2>6. ASSUME NEW q \in Requests, pc'[q] = "parked"
        PROVE  \E i \in 1..Len(waiters') : waiters'[i] = q
    <3>1. CASE q = r
      BY <2>2, <3>1
    <3>2. CASE q # r
      <4>1. PICK i \in 1..Len(waiters) : waiters[i] = q
        BY <1>4, <2>6, <3>2 DEF Park, WaitersParked, Parked
      <4> QED
        BY <2>2, <4>1
    <3> QED
      BY <3>1, <3>2
  <2>7. WaitersParked'
    BY <2>4, <2>5, <2>6 DEF WaitersParked, Parked
  <2>8. SlotsAccounted'
    BY <1>4, SameHolders DEF Park
  <2> QED
    BY <1>4, <2>1, <2>7, <2>8 DEF Park
<1>5. ASSUME NEW r \in Requests, Stop(r) PROVE LimiterInv'
  <2>1. TypeOK'
    BY <1>5 DEF Stop, Positions, CallbackStates
  <2>2. WaitersParked'
    BY <1>5, SameWaiters DEF Stop
  <2>3. SlotsAccounted'
    BY <1>5, SameHolders DEF Stop
  <2> QED
    BY <1>5, <2>1, <2>2, <2>3 DEF Stop
<1>6. ASSUME NEW r \in Requests, Release(r) PROVE LimiterInv'
  <2> DEFINE left == [pc EXCEPT ![r] = "released"]
  <2>1. /\ left \in [Requests -> Positions]
        /\ \A q \in Requests : left[q] = "parked" <=> pc[q] = "parked"
        /\ pc[r] = "holding"
    BY <1>6 DEF Release, Positions
  <2>2. BroadcastOn(left) \/ SignalOn(left)
    BY <1>6 DEF Release
  <2> HIDE DEF left
  <2>3. /\ pc' \in [Requests -> Positions]
        /\ waiters' \in Seq(Requests)
        /\ WaitersParked'
        /\ \A q \in Requests : \/ pc'[q] = left[q]
                               \/ left[q] = "parked" /\ pc'[q] = "woken"
    <3>1. CASE BroadcastOn(left)
      BY <2>1, <3>1, BroadcastType
    <3>2. CASE SignalOn(left)
      BY <2>1, <3>2, SignalType
    <3> QED
      BY <2>2, <3>1, <3>2
  <2>4. Holders' = Holders \ {r} /\ r \in Holders
    <3>1. \A q \in Requests : left[q] = IF q = r THEN "released" ELSE pc[q]
      BY DEF left
    <3> QED
      BY <2>1, <2>3, <3>1 DEF Holders
  <2>5. /\ Cardinality(Holders') = Cardinality(Holders) - 1
        /\ Cardinality(Holders) > 0
    <3>1. Cardinality(Holders) # 0
      BY <2>4, HoldersFinite, FS_EmptySet
    <3>2. Cardinality(Holders \ {r}) = Cardinality(Holders) - 1
      BY <2>4, HoldersFinite, FS_RemoveElement
    <3> QED
      BY <2>4, <3>1, <3>2, HoldersFinite
  <2>6. inFlight' = inFlight - 1
    BY <1>6, <2>5 DEF Release, SlotsAccounted
  <2>7. SlotsAccounted'
    BY <2>5, <2>6 DEF SlotsAccounted
  <2>8. TypeOK'
    BY <1>6, <2>3, <2>5, <2>6 DEF Release, SlotsAccounted
  <2> QED
    BY <2>3, <2>6, <2>7, <2>8, LimiterAssumption
<1>7. ASSUME NEW r \in Requests, Cancel(r) PROVE LimiterInv'
  <2>1. TypeOK'
    BY <1>7 DEF Cancel
  <2>2. WaitersParked'
    BY <1>7, SameWaiters DEF Cancel
  <2>3. SlotsAccounted'
    BY <1>7, SameHolders DEF Cancel
  <2> QED
    BY <1>7, <2>1, <2>2, <2>3 DEF Cancel
<1>8. ASSUME NEW r \in Requests, StartCallback(r) PROVE LimiterInv'
  <2>1. TypeOK'
    BY <1>8 DEF StartCallback, CallbackStates
  <2>2. WaitersParked'
    BY <1>8, SameWaiters DEF StartCallback
  <2>3. SlotsAccounted'
    BY <1>8, SameHolders DEF StartCallback
  <2> QED
    BY <1>8, <2>1, <2>2, <2>3 DEF StartCallback
<1>9. ASSUME NEW r \in Requests, RunCallback(r) PROVE LimiterInv'
  <2>1. BroadcastOn(pc)
    BY <1>9 DEF RunCallback
  <2>2. /\ pc' \in [Requests -> Positions]
        /\ waiters' \in Seq(Requests)
        /\ WaitersParked'
        /\ \A q \in Requests : pc'[q] = IF pc[q] = "parked" THEN "woken" ELSE pc[q]
    BY <2>1, BroadcastType
  <2>3. TypeOK'
    BY <1>9, <2>2 DEF RunCallback, CallbackStates
  <2>4. SlotsAccounted'
    BY <1>9, <2>2, SameHolders DEF RunCallback
  <2> QED
    BY <1>9, <2>2, <2>3, <2>4 DEF RunCallback
<1>10. ASSUME Publish PROVE LimiterInv'
  <2>1. TypeOK'
    BY <1>10 DEF Publish
  <2>2. WaitersParked'
    BY <1>10, SameWaiters DEF Publish
  <2>3. SlotsAccounted'
    BY <1>10, SameHolders DEF Publish
  <2> QED
    BY <1>10, <2>1, <2>2, <2>3 DEF Publish
<1>11. ASSUME UNCHANGED vars PROVE LimiterInv'
  BY <1>11 DEF vars, WaitersParked, Parked, SlotsAccounted, Holders
<1> QED
  BY <1>1, <1>2, <1>3, <1>4, <1>5, <1>6, <1>7, <1>8, <1>9, <1>10, <1>11
     DEF Next, AcquireLoop, Finished

\* The inductive invariant holds for ever.
LEMMA LimiterInvariant == Spec => []LimiterInv
BY LimiterInit, LimiterStep, PTL DEF Spec

-----------------------------------------------------------------------------
\* The limiter's fields and the goroutines' positions keep their types; in
\* particular inFlight never goes below zero.
THEOREM LimiterTypeCorrect == Spec => []TypeOK
<1>1. LimiterInv => TypeOK
  BY DEF LimiterInv
<1> QED
  BY <1>1, LimiterInvariant, PTL

\* No path through Acquire and release leaks a slot or returns one twice:
\* inFlight is the number of requests that own a slot, for ever.
THEOREM LimiterSlotsAccounted == Spec => []SlotsAccounted
<1>1. LimiterInv => SlotsAccounted
  BY DEF LimiterInv
<1> QED
  BY <1>1, LimiterInvariant, PTL

\* NEXUS_LOCAL_MAX_CONCURRENT is never exceeded, whatever the probe publishes,
\* whoever disconnects and however many goroutines a Broadcast wakes at once.
THEOREM LimiterCeilingRespected == Spec => []CeilingRespected
<1>1. LimiterInv => CeilingRespected
  BY DEF LimiterInv, SlotsAccounted, CeilingRespected
<1> QED
  BY <1>1, LimiterInvariant, PTL

-----------------------------------------------------------------------------
\* The phase a caller sees, position by position.
LEMMA PhaseOf ==
  ASSUME pc \in [Requests -> Positions]
  PROVE  /\ Phase \in [Requests -> Sem!Phases]
         /\ \A r \in Requests :
              /\ Phase[r] = "idle" <=> pc[r] = "new"
              /\ Phase[r] = "waiting" <=> pc[r] \in {"trying", "parked", "woken"}
              /\ Phase[r] = "holding" <=> pc[r] \in {"granted", "holding"}
              /\ Phase[r] = "done" <=> pc[r] \in {"refused", "released", "gone"}
BY DEF Phase, Positions, Sem!Phases

\* The requests that hold a slot are the semaphore's holders.
LEMMA HeldAreHolders ==
  ASSUME pc \in [Requests -> Positions]
  PROVE  Sem!Held = Holders
BY PhaseOf DEF Sem!Held, Holders

\* The mutex, the condition variable and the cancellation callbacks implement
\* a counting semaphore: every step of the code is a step of it or invisible.
LEMMA SemaphoreStep ==
  LimiterInv /\ LimiterInv' /\ [Next]_vars => [Sem!SemNext]_Phase
<1> SUFFICES ASSUME LimiterInv, LimiterInv', [Next]_vars
             PROVE  Sem!SemNext \/ UNCHANGED Phase
  OBVIOUS
<1> USE DEF LimiterInv, TypeOK
<1>1. pc \in [Requests -> Positions] /\ pc' \in [Requests -> Positions]
  OBVIOUS
<1>2. ASSUME NEW r \in Requests, Register(r) PROVE Sem!Ask(r)
  BY <1>1, <1>2 DEF Register, Sem!Ask, Phase, Positions
<1>3. ASSUME NEW r \in Requests, Refuse(r) PROVE Sem!Leave(r)
  BY <1>1, <1>3 DEF Refuse, Sem!Leave, Phase, Positions
<1>4. ASSUME NEW r \in Requests, TakeSlot(r) PROVE Sem!Grant(r)
  <2>1. Cardinality(Sem!Held) < Ceiling
    <3>1. inFlight < Ceiling
      BY <1>4, EffectiveRange, LimiterAssumption DEF TakeSlot
    <3> QED
      BY <1>1, <3>1, HeldAreHolders DEF SlotsAccounted
  <2>2. Phase[r] = "waiting" /\ Phase' = [Phase EXCEPT ![r] = "holding"]
    BY <1>1, <1>4 DEF TakeSlot, Phase, Positions
  <2> QED
    BY <2>1, <2>2 DEF Sem!Grant, Sem!Cardinality, Cardinality
<1>5. ASSUME NEW r \in Requests, Park(r) PROVE UNCHANGED Phase
  BY <1>1, <1>5 DEF Park, Phase, Positions
<1>6. ASSUME NEW r \in Requests, Stop(r) PROVE UNCHANGED Phase
  BY <1>1, <1>6 DEF Stop, Phase, Positions
<1>7. ASSUME NEW r \in Requests, Release(r) PROVE Sem!Leave(r)
  <2> DEFINE left == [pc EXCEPT ![r] = "released"]
  <2>1. /\ left \in [Requests -> Positions]
        /\ \A q \in Requests : left[q] = IF q = r THEN "released" ELSE pc[q]
        /\ pc[r] = "holding"
    BY <1>7 DEF Release, Positions
  <2>2. BroadcastOn(left) \/ SignalOn(left)
    BY <1>7 DEF Release
  <2> HIDE DEF left
  <2>3. \A q \in Requests : \/ pc'[q] = left[q]
                            \/ left[q] = "parked" /\ pc'[q] = "woken"
    <3>1. CASE BroadcastOn(left)
      BY <2>1, <3>1, BroadcastType
    <3>2. CASE SignalOn(left)
      BY <2>1, <3>2, SignalType
    <3> QED
      BY <2>2, <3>1, <3>2
  <2>4. Phase[r] = "holding" /\ Phase'[r] = "done"
    BY <2>1, <2>3 DEF Phase
  <2>5. ASSUME NEW q \in Requests, q # r PROVE Phase'[q] = Phase[q]
    BY <1>1, <2>1, <2>3, <2>5 DEF Phase, Positions
  <2>6. Phase' = [Phase EXCEPT ![r] = "done"]
    <3>1. \A q \in Requests : Phase'[q] = IF q = r THEN "done" ELSE Phase[q]
      BY <2>4, <2>5
    <3>2. /\ Phase \in [Requests -> Sem!Phases]
          /\ Phase' \in [Requests -> Sem!Phases]
      BY <1>1 DEF Phase, Positions, Sem!Phases
    <3> QED
      BY <3>1, <3>2
  <2> QED
    BY <2>4, <2>6 DEF Sem!Leave
<1>8. ASSUME NEW r \in Requests, Cancel(r) \/ StartCallback(r)
      PROVE  UNCHANGED Phase
  BY <1>1, <1>8 DEF Cancel, StartCallback, Phase, Positions
<1>9. ASSUME NEW r \in Requests, RunCallback(r) PROVE UNCHANGED Phase
  <2>1. BroadcastOn(pc)
    BY <1>9 DEF RunCallback
  <2>2. \A q \in Requests : pc'[q] = IF pc[q] = "parked" THEN "woken" ELSE pc[q]
    BY <1>1, <2>1, BroadcastType
  <2> QED
    BY <1>1, <2>2 DEF Phase, Positions
<1>10. ASSUME Publish \/ UNCHANGED vars PROVE UNCHANGED Phase
  BY <1>1, <1>10 DEF Publish, vars, Phase, Positions
<1> QED
  BY <1>2, <1>3, <1>4, <1>5, <1>6, <1>7, <1>8, <1>9, <1>10
     DEF Next, AcquireLoop, Finished, Sem!SemNext

\* Callers of the limiter cannot tell it from the semaphore of Semaphore.tla,
\* whose ceiling NEXUS_LOCAL_MAX_CONCURRENT is.
THEOREM LimiterRefinesSemaphore == Spec => RefinesSemaphore
<1>1. Init => Sem!SemInit
  BY DEF Init, Sem!SemInit, Phase
<1> QED
  BY <1>1, LimiterInvariant, SemaphoreStep, PTL
     DEF Spec, RefinesSemaphore, Sem!SemSpec

-----------------------------------------------------------------------------
\* While clients stay connected and the probe reports one value, a goroutine
\* parks only behind as many slots in use, or goroutines about to take one, as
\* the effective count has room for.
SlotsClaimed == Parked = {} \/ inFlight + Cardinality(Awake) >= Effective(free)

\* The goroutines on their way to the mutex are finitely many.
LEMMA AwakeFinite == IsFiniteSet(Awake) /\ Cardinality(Awake) \in Nat
<1>1. Awake \subseteq Requests
  BY DEF Awake
<1>2. IsFiniteSet(Awake)
  BY <1>1, LimiterAssumption, FS_Subset
<1> QED
  BY <1>2, FS_CardinalityType

\* One Signal per release is enough in the steady state.
LEMMA SteadyStep ==
  ASSUME Cancellable = {}, NEW v, Readings = {v},
         LimiterInv, LimiterInv', SlotsClaimed, [Next]_vars
  PROVE  SlotsClaimed'
<1> USE DEF LimiterInv, TypeOK
<1>1. /\ free = v /\ free' = v /\ v \in Int
      /\ cancelled = {} /\ Effective(free') = Effective(free)
      /\ Effective(free) \in Int
  <2>1. free = v /\ free' = v /\ v \in Int /\ cancelled = {}
    BY LimiterAssumption
  <2> QED
    BY <2>1, EffectiveRange, LimiterAssumption
<1>2. Cardinality(Awake) \in Nat /\ Cardinality(Awake') \in Nat /\ IsFiniteSet(Awake)
  <2>1. Awake' \subseteq Requests
    BY DEF Awake
  <2>2. IsFiniteSet(Awake')
    BY <2>1, LimiterAssumption, FS_Subset
  <2> QED
    BY <2>2, AwakeFinite, FS_CardinalityType
<1>3. ASSUME NEW r \in Requests, Register(r) PROVE SlotsClaimed'
  <2>1. Awake' = Awake \cup {r} /\ r \notin Awake /\ Parked' = Parked
    BY <1>3 DEF Register, Awake, Parked
  <2>2. Cardinality(Awake') = Cardinality(Awake) + 1
    BY <1>2, <2>1, FS_AddElement
  <2> QED
    BY <1>1, <1>2, <1>3, <2>1, <2>2 DEF Register, SlotsClaimed
<1>4. ASSUME NEW r \in Requests, TakeSlot(r) PROVE SlotsClaimed'
  <2>1. Awake' = Awake \ {r} /\ r \in Awake /\ Parked' = Parked
    BY <1>4 DEF TakeSlot, Awake, Parked
  <2>2. Cardinality(Awake \ {r}) = Cardinality(Awake) - 1
    BY <1>2, <2>1, FS_RemoveElement
  <2>3. Cardinality(Awake') = Cardinality(Awake) - 1
    BY <2>1, <2>2
  <2> QED
    BY <1>1, <1>2, <1>4, <2>1, <2>3 DEF TakeSlot, SlotsClaimed
<1>5. ASSUME NEW r \in Requests, Park(r) PROVE SlotsClaimed'
  BY <1>1, <1>2, <1>5 DEF Park, SlotsClaimed
<1>6. ASSUME NEW r \in Requests, Stop(r) PROVE SlotsClaimed'
  <2>1. Awake' = Awake /\ Parked' = Parked
    BY <1>6 DEF Stop, Awake, Parked
  <2> QED
    BY <1>1, <1>6, <2>1 DEF Stop, SlotsClaimed
<1>7. ASSUME NEW r \in Requests, Release(r) PROVE SlotsClaimed'
  <2> DEFINE left == [pc EXCEPT ![r] = "released"]
  <2>1. SignalOn(left) /\ pc[r] = "holding"
    BY <1>1, <1>7 DEF Release
  <2>2. CASE waiters = <<>>
    <3>1. Parked = {}
      BY <2>2 DEF WaitersParked
    <3>2. Parked' = {}
      BY <2>1, <2>2, <3>1 DEF SignalOn, Parked
    <3> QED
      BY <3>2 DEF SlotsClaimed
  <2>3. CASE waiters # <<>>
    <3> DEFINE h == Head(waiters)
    <3>1. h \in Requests /\ pc[h] = "parked" /\ Parked # {}
      <4>1. h = waiters[1] /\ Len(waiters) \in Nat \ {0} /\ h \in Requests
        BY <2>3
      <4> QED
        BY <4>1 DEF WaitersParked, Parked
    <3>2. pc' = [left EXCEPT ![h] = "woken"]
      BY <2>1, <2>3 DEF SignalOn
    <3>3. Awake' = Awake \cup {h} /\ h \notin Awake
      BY <2>1, <3>1, <3>2 DEF Awake
    <3>4. Cardinality(Awake') = Cardinality(Awake) + 1
      BY <1>2, <3>3, FS_AddElement
    <3>5. inFlight' >= inFlight - 1
      BY <1>7 DEF Release
    <3> QED
      BY <1>1, <1>2, <3>1, <3>4, <3>5 DEF SlotsClaimed
  <2> QED
    BY <2>2, <2>3
<1>8. ASSUME NEW r \in Requests, RunCallback(r) PROVE SlotsClaimed'
  <2>1. Parked' = {}
    BY <1>8 DEF RunCallback, BroadcastOn, Parked
  <2> QED
    BY <2>1 DEF SlotsClaimed
<1>9. ASSUME NEW r \in Requests, Refuse(r) \/ Cancel(r) \/ StartCallback(r)
      PROVE  FALSE
  BY <1>1, <1>9 DEF Refuse, Cancel, StartCallback
<1>10. ASSUME Publish PROVE FALSE
  BY <1>1, <1>10 DEF Publish
<1>11. ASSUME UNCHANGED vars PROVE SlotsClaimed'
  <2>1. Awake' = Awake /\ Parked' = Parked
    BY <1>11 DEF vars, Awake, Parked
  <2> QED
    BY <1>1, <1>11, <2>1 DEF vars, SlotsClaimed
<1> QED
  BY <1>3, <1>4, <1>5, <1>6, <1>7, <1>8, <1>9, <1>10, <1>11
     DEF Next, AcquireLoop, Finished

\* Without disconnects and with a steady probe no wake-up is lost, for every
\* number of requests and every ceiling: Signal is enough, nobody is parked
\* behind a free slot.  (Either one breaks it: limiter_window, limiter_growth.)
THEOREM LimiterNoLostWakeup ==
  ASSUME Cancellable = {}, NEW CONSTANT v, Readings = {v}
  PROVE  Spec => []NoLostWakeup
<1>1. Init => SlotsClaimed
  BY DEF Init, SlotsClaimed, Parked
<1>2. LimiterInv /\ LimiterInv' /\ SlotsClaimed /\ [Next]_vars => SlotsClaimed'
  BY SteadyStep
<1>3. SlotsClaimed => NoLostWakeup
  BY DEF SlotsClaimed, NoLostWakeup
<1> QED
  BY <1>1, <1>2, <1>3, LimiterInvariant, PTL DEF Spec
=============================================================================
