-------------------------------- MODULE Spend --------------------------------
(* The rolling-window accounts of internal/budget: the Guard the server uses *)
(* (budget.go, alerter.go) keeps every entry; the SpendTracker (tracker.go)  *)
(* keeps per-minute buckets and drops a bucket as a whole.                   *)
EXTENDS Naturals, Sequences

CONSTANTS Window, Minute, Costs, Limits, MaxClock, MaxSpends

VARIABLES
  clock,
  log,        \* every spend ever recorded: [at, cost] (a history variable)
  window,     \* Guard.window
  limit,      \* Guard.limit, 0 when there is none
  sent,       \* Guard.approachingSent
  alerts,     \* OnApproaching calls since the spend was last seen below the threshold
  buckets,    \* SpendTracker.buckets in the order of sortedKeys: [key, oldest, entries]
  total       \* SpendTracker.total

spendVars == <<clock, log, window, limit, sent, alerts, buckets, total>>

Total(c) ==
  LET sum[i \in 0..Len(c)] == IF i = 0 THEN 0 ELSE sum[i - 1] + c[i]
  IN sum[Len(c)]

Sum(es) == Total([i \in 1..Len(es) |-> es[i].cost])

\* How many of the times, oldest first, lie before the window.
Old(at) == at + Window < clock
Gone(ats) ==
  CHOOSE k \in 0..Len(ats) : (\A i \in 1..k : Old(ats[i])) /\ (k < Len(ats) => ~Old(ats[k + 1]))

SpendInit ==
  /\ clock = 0 /\ log = <<>> /\ window = <<>> /\ limit \in Limits /\ sent = FALSE
  /\ alerts = 0 /\ buckets = <<>> /\ total = 0

evictLocked ==
  SubSeq(window, Gone([i \in 1..Len(window) |-> window[i].at]) + 1, Len(window))

Expired == Gone([i \in 1..Len(buckets) |-> buckets[i].oldest])
Kept == SubSeq(buckets, Expired + 1, Len(buckets))

BugPruneLocked == [buckets |-> Kept, total |-> total]

\* A bucket goes with all its entries when the oldest of them has expired.
pruneLocked ==
  [buckets |-> Kept,
   total |-> total - Total([i \in 1..Expired |-> Sum(buckets[i].entries)])]

\* SpendTracker.Record, after its prune.
Booked(p, e) ==
  LET key == clock \div Minute
      at == {i \in 1..Len(p.buckets) : p.buckets[i].key = key}
  IN IF at = {} THEN Append(p.buckets, [key |-> key, oldest |-> clock, entries |-> <<e>>])
     ELSE [p.buckets EXCEPT ![CHOOSE i \in at : TRUE].entries = Append(@, e)]

\* Guard.Record and SpendTracker.Record of the same spend.
Record(cost) ==
  LET e == [at |-> clock, cost |-> cost]
      p == pruneLocked
  IN /\ Len(log) < MaxSpends /\ log' = Append(log, e)
     /\ window' = IF limit = 0 THEN window ELSE Append(evictLocked, e)
     /\ buckets' = Booked(p, e) /\ total' = p.total + cost
     /\ UNCHANGED <<clock, limit, sent, alerts>>

\* The 80% alert: once per crossing.
CheckApproaching ==
  LET near == 10 * Sum(evictLocked) >= 8 * limit
  IN /\ limit > 0 /\ window' = evictLocked /\ sent' = near
     /\ alerts' = IF ~near THEN 0 ELSE IF sent THEN alerts ELSE alerts + 1
     /\ UNCHANGED <<clock, log, limit, buckets, total>>

SetLimit(l) ==
  /\ limit' = l /\ sent' = FALSE /\ alerts' = 0
  /\ UNCHANGED <<clock, log, window, buckets, total>>

Tick == clock < MaxClock /\ clock' = clock + 1
        /\ UNCHANGED <<log, window, limit, sent, alerts, buckets, total>>

SpendNext == (\E c \in Costs : Record(c)) \/ CheckApproaching \/ (\E l \in Limits : SetLimit(l)) \/ Tick

\* What the two accounts answer now.
GuardSpent == Sum(evictLocked)
TrackerSpent == pruneLocked.total

-----------------------------------------------------------------------------
\* What the spends at the places of I cost.
CostOf(I) == Total([i \in 1..Len(log) |-> IF i \in I THEN log[i].cost ELSE 0])

\* The tracker never counts a spend that has left the window, its running total
\* is what its buckets hold, and what it leaves out of the window was made in a
\* minute in which an expired spend was made too; the guard, with a limit all
\* along, counts exactly the spends of the window, and it warns of the
\* approaching limit once per crossing.
AccountsBound ==
  LET live == {i \in 1..Len(log) : ~Old(log[i].at)}
      shadowed == {i \in live : \E x \in 1..Len(log) :
                     Old(log[x].at) /\ log[x].at \div Minute = log[i].at \div Minute}
  IN /\ TrackerSpent <= CostOf(live)
     /\ TrackerSpent >= CostOf(live \ shadowed)
     /\ (0 \notin Limits) => GuardSpent = CostOf(live)
     /\ alerts <= 1
=============================================================================
