-------------------------- MODULE ProviderSelector --------------------------
(***************************************************************************)
(* The cost and latency based choice of a frontier provider                *)
(* (src/internal/router/selector.go): statistics that a background         *)
(* goroutine refreshes and keeps when a refresh fails, and the ranking of  *)
(* the providers that are eligible when a request asks.                    *)
(***************************************************************************)
EXTENDS Integers, FiniteSets

CONSTANTS
  Ranked,         \* the providers, in the order of their names: 1, 2, ...
  Stats,          \* the statistics a provider may have
  MinSampleCount, MaxErrorRate, TailWeight

VARIABLES stats, healthy, picked

selectorVars == <<stats, healthy, picked>>

SelectorInit ==
  /\ stats \in [Ranked -> Stats] /\ healthy = Ranked /\ picked = 0

Eligible(p) ==
  /\ stats[p].samples >= MinSampleCount /\ stats[p].errors <= MaxErrorRate
  /\ stats[p].p50 > 0 /\ p \in healthy

\* providerScore, upside down so that it stays an integer: less is better.
Price(p) ==
  LET tail == IF stats[p].p95 > stats[p].p50 THEN stats[p].p95 - stats[p].p50 ELSE 0
  IN (stats[p].p50 + TailWeight * tail) * (1000 * stats[p].cost + 1)

\* SelectFrontier: the best of the eligible ones, the first by name among equals.
SelectFrontier ==
  /\ picked' = IF ~ \E p \in Ranked : Eligible(p) THEN 0
               ELSE CHOOSE p \in Ranked :
                      Eligible(p) /\ \A q \in Ranked :
                        Eligible(q) => Price(p) < Price(q) \/ (Price(p) = Price(q) /\ p <= q)
  /\ UNCHANGED <<stats, healthy>>

\* Refresh: new statistics, or, when the query fails, the old ones.
Refresh(p, s) ==
  /\ stats' = [stats EXCEPT ![p] = s] /\ picked' = 0 /\ UNCHANGED healthy

HealthChanges(p) ==
  /\ healthy' = IF p \in healthy THEN healthy \ {p} ELSE healthy \cup {p}
  /\ picked' = 0 /\ UNCHANGED stats

SelectorNext ==
  \/ SelectFrontier
  \/ \E p \in Ranked : HealthChanges(p) \/ \E s \in Stats : Refresh(p, s)
-----------------------------------------------------------------------------
\* A provider that is chosen is healthy and proven now, and no other healthy and
\* proven one is at least as fast at the median and the tail, as cheap, and better in
\* one of them: the score and its tie-break never prefer a dominated provider.
PickUndominated ==
  picked # 0 =>
    LET s == stats[picked] IN
    /\ picked \in healthy /\ s.errors <= MaxErrorRate /\ s.samples >= MinSampleCount
    /\ ~ \E q \in healthy : LET r == stats[q] IN
          /\ r.samples >= MinSampleCount /\ r.errors <= MaxErrorRate /\ r.p50 > 0
          /\ r.p50 <= s.p50 /\ r.p95 >= r.p50 /\ s.p95 >= s.p50 /\ r.p95 - r.p50 <= s.p95 - s.p50
          /\ r.cost <= s.cost /\ (r.p50 < s.p50 \/ r.cost < s.cost)
=============================================================================
