------------------------------- MODULE Metrics -------------------------------
(***************************************************************************)
(* The counters of src/internal/observability: request goroutines that     *)
(* count lock-free while /metrics and the OTLP exporter read the same      *)
(* fields one after another.  One route stands for the three (they share   *)
(* nothing), one histogram for all, one labelled family for the maps of    *)
(* RouteCounters.  A scrape and an export write nothing the other reads,   *)
(* so one reader at a time is enough.                                      *)
(***************************************************************************)
EXTENDS Integers, Sequences, FiniteSets, SequencesExt

CONSTANTS
  Goroutines,    \* request goroutines
  MaxRequests,   \* bound: requests of a behaviour
  Earlier,       \* the latencies of the requests before, none of them 0
  Latencies,     \* milliseconds; 0 when a request took less than one
  UpperBound,    \* the finite bucket bound; the second bucket is +Inf
  Capacity,      \* samples the latency ring holds (1000 in the code)
  ExportRetries, \* NEXUS_TRACING_MAX_RETRIES
  MaxReads       \* bound: scrapes and exports before Close

VARIABLES
  step, ms, old,      \* per goroutine: its place, its latency, the sum it loaded
  m,                  \* the atomics, by field
  series,             \* does the labelled counter exist in its map?
  ring, perc,         \* latencyPercentileBuffer: its samples, its percentiles
  begun, finished,    \* requests so far: how many, how many timed, their total
  reader,             \* the scrape or export in progress
  reads,              \* reads so far
  closing, atClose,   \* has Close been called, and the requests over by then
  exporter, tries,  \* where the export loop stands
  lost, delivered, exported, lastFloor,  \* exports, and what was over at the last
  fatal               \* the Go runtime stopped the process: concurrent map access

metricVars == <<step, ms, old, m, series, ring, perc, begun, finished, reader, reads,
                closing, atClose, exporter, tries, lost, delivered, exported, lastFloor,
                fatal>>
goroutineVars == <<step, ms, old, begun, finished>>
exportVars == <<exporter, tries, lost, delivered, exported, lastFloor>>
exporterVars == <<closing, atClose, exportVars>>

Fields == {"decisions", "requests", "low", "over", "sum", "count"}
Percentages == {50, 95, 99}

\* The order in which a reader loads them: RouteCounters.Handler writes the labelled
\* families and then renders the collector, CollectMetricSnapshot does it the other way.
CollectorOrder == <<"requests", "low", "over", "sum", "count">>
Order(who) == IF who = "scrape" THEN <<"decisions">> \o CollectorOrder
              ELSE CollectorOrder \o <<"decisions">>

None == [n |-> 0, timed |-> 0, total |-> 0]
One(t) == [n |-> 1, timed |-> IF t > 0 THEN 1 ELSE 0, total |-> t]
Plus(a, b) == [k \in DOMAIN a |-> a[k] + b[k]]
NoRead == [who |-> "nobody", at |-> 1, snap |-> [f \in Fields |-> 0], floor |-> None]

bucketIndex(t) == IF t <= UpperBound THEN "low" ELSE "over"

\* percentile: linear interpolation between the nearest ranks, here in hundredths of
\* a millisecond; p is a percentage.
percentile(samples, p) ==
  LET n == Len(samples)
      sorted == SortSeq(samples, <)
      lower == (p * (n - 1)) \div 100
      frac == (p * (n - 1)) % 100
  IN IF lower + 2 > n THEN 100 * sorted[n]
     ELSE sorted[lower + 1] * (100 - frac) + sorted[lower + 2] * frac

\* What the earlier requests left; the label counted from here on is a new one.
Before == FoldLeft(LAMBDA acc, t : Plus(acc, One(t)), None, Earlier)
InBucket(b) == Len(SelectSeq(Earlier, LAMBDA t : bucketIndex(t) = b))

MetricsInit ==
  /\ step = [g \in Goroutines |-> "idle"] /\ ms = [g \in Goroutines |-> 0]
  /\ old = [g \in Goroutines |-> 0] /\ series = FALSE
  /\ m = [decisions |-> 0, requests |-> Before.n, low |-> InBucket("low"),
          over |-> InBucket("over"), sum |-> Before.total, count |-> Before.n]
  /\ ring = Earlier /\ perc = [p \in Percentages |-> percentile(Earlier, p)]
  /\ begun = Before /\ finished = Before /\ reader = NoRead /\ reads = 0
  /\ closing = FALSE /\ atClose = 0 /\ exporter = "waiting" /\ tries = 0
  /\ lost = 0 /\ delivered = 0 /\ exported = 0 /\ lastFloor = 0 /\ fatal = FALSE

Move(g, from, to) == step[g] = from /\ step' = [step EXCEPT ![g] = to]
Bump(f, d) == m' = [m EXCEPT ![f] = @ + d]

\* slot: the mutex covers finding or creating the counter, the scrape iterates the same
\* map without it, and the runtime may notice.
Iterating == reader.who = "scrape" /\ reader.at = 1
Slot(g, t) ==
  /\ begun.n < Before.n + MaxRequests /\ Move(g, "idle", "add")
  /\ ms' = [ms EXCEPT ![g] = t] /\ begun' = Plus(begun, One(t)) /\ series' = TRUE
  /\ fatal' \in IF ~series /\ Iterating THEN BOOLEAN ELSE {FALSE}
  /\ UNCHANGED <<old, m, ring, perc, finished, reader, reads, exporterVars>>

\* Observe: the counter is bumped through the pointer, after the mutex.
CountDecision(g) ==
  /\ Move(g, "add", "submit") /\ Bump("decisions", 1)
  /\ UNCHANGED <<ms, old, series, ring, perc, begun, finished, reader, reads, exporterVars, fatal>>

\* Submit: a request that took no whole millisecond is counted and not timed.
SubmitRequest(g) ==
  /\ Move(g, "submit", IF ms[g] > 0 THEN "bucket" ELSE "finish") /\ Bump("requests", 1)
  /\ UNCHANGED <<ms, old, series, ring, perc, begun, finished, reader, reads, exporterVars, fatal>>

ObserveBucket(g) ==
  /\ Move(g, "bucket", "count") /\ Bump(bucketIndex(ms[g]), 1)
  /\ UNCHANGED <<ms, old, series, ring, perc, begun, finished, reader, reads, exporterVars, fatal>>

ObserveCount(g) ==
  /\ Move(g, "count", "load") /\ Bump("count", 1)
  /\ UNCHANGED <<ms, old, series, ring, perc, begun, finished, reader, reads, exporterVars, fatal>>

\* atomicAddFloat: load, add, compare and swap, again when another one was faster.
LoadSum(g) ==
  /\ Move(g, "load", "swap") /\ old' = [old EXCEPT ![g] = m.sum]
  /\ UNCHANGED <<ms, m, series, ring, perc, begun, finished, reader, reads, exporterVars, fatal>>

\* The sum is stored whatever happened since it was loaded.
BugSwapSum(g) ==
  /\ Move(g, "swap", "ring") /\ m' = [m EXCEPT !.sum = old[g] + ms[g]]
  /\ UNCHANGED <<ms, old, series, ring, perc, begun, finished, reader, reads, exporterVars, fatal>>

SwapSum(g) ==
  /\ IF m.sum = old[g]
     THEN Move(g, "swap", "ring") /\ m' = [m EXCEPT !.sum = old[g] + ms[g]]
     ELSE Move(g, "swap", "load") /\ UNCHANGED m
  /\ UNCHANGED <<ms, old, series, ring, perc, begun, finished, reader, reads, exporterVars, fatal>>

\* latencyPercentileBuffer.Observe, under the buffer's mutex.
PushSample(g) ==
  /\ Move(g, "ring", "finish")
  /\ ring' = IF Len(ring) < Capacity THEN Append(ring, ms[g]) ELSE Append(Tail(ring), ms[g])
  /\ perc' = [p \in Percentages |-> percentile(ring', p)]
  /\ UNCHANGED <<ms, old, m, series, begun, finished, reader, reads, exporterVars, fatal>>

Finish(g) ==
  /\ Move(g, "finish", "idle") /\ finished' = Plus(finished, One(ms[g]))
  /\ ms' = [ms EXCEPT ![g] = 0] /\ old' = [old EXCEPT ![g] = 0]
  /\ UNCHANGED <<m, series, ring, perc, begun, reader, reads, exporterVars, fatal>>

StartRead(who) ==
  /\ reader = NoRead
  /\ reader' = [NoRead EXCEPT !.who = who, !.floor = finished] /\ reads' = reads + 1

\* Prometheus asks for /metrics.
Scrape ==
  /\ reads < MaxReads /\ StartRead("scrape")
  /\ UNCHANGED <<goroutineVars, m, series, ring, perc, exporterVars, fatal>>

\* Snapshot, Perc, WriteTo: one load after another, nothing is locked.
Read ==
  /\ reader.who # "nobody" /\ reader.at <= Len(Order(reader.who))
  /\ LET f == Order(reader.who)[reader.at]
     IN reader' = [reader EXCEPT !.snap[f] = m[f], !.at = @ + 1]
  /\ UNCHANGED <<goroutineVars, m, series, ring, perc, reads, exporterVars, fatal>>

Complete == reader.who # "nobody" /\ reader.at > Len(Order(reader.who))

ScrapeReturns ==
  /\ Complete /\ reader.who = "scrape" /\ reader' = NoRead
  /\ UNCHANGED <<goroutineVars, m, series, ring, perc, reads, exporterVars, fatal>>

\* run: a tick exports, and so does the closed channel, for the last time.  Go's select
\* takes either when both are ready.
Collect ==
  /\ exporter = "waiting" /\ StartRead("export")
  /\ \/ reads < MaxReads /\ exporter' = "tick"
     \/ closing /\ exporter' = "last"
  /\ exported' = exported + 1
  /\ UNCHANGED <<goroutineVars, m, series, ring, perc, closing, atClose, tries, lost,
                 delivered, lastFloor, fatal>>

\* Close: close(queue), then wait for the loop.
Closes ==
  /\ ~closing /\ closing' = TRUE /\ atClose' = finished.n
  /\ UNCHANGED <<goroutineVars, m, series, ring, perc, reader, reads, exportVars, fatal>>

Over == exporter' = IF exporter = "last" THEN "returned" ELSE "waiting"

\* flush, export: only a 5xx is tried again, while neither the attempts nor the time
\* are used up ("timeout": the context ends during the pause); the rest is one failure.
Post(reply) ==
  /\ Complete /\ reader.who = "export" /\ (reply = "timeout" => tries > 0)
  /\ IF reply = "5xx" /\ tries < ExportRetries
     THEN tries' = tries + 1 /\ UNCHANGED <<reader, exporter, lost, delivered, lastFloor>>
     ELSE /\ delivered' = delivered + (IF reply = "2xx" THEN 1 ELSE 0)
          /\ lost' = lost + (IF reply = "2xx" THEN 0 ELSE 1)
          /\ reader' = NoRead /\ tries' = 0 /\ Over
          /\ lastFloor' = reader.floor.n
  /\ UNCHANGED <<goroutineVars, m, series, ring, perc, reads, closing, atClose, exported, fatal>>

Replies == {"2xx", "4xx", "5xx", "transport", "timeout"}

Export == Collect \/ \E r \in Replies : Post(r)

MetricsNext ==
  /\ ~fatal
  /\ \/ \E g \in Goroutines :
          \/ \E t \in Latencies : Slot(g, t)
          \/ CountDecision(g) \/ SubmitRequest(g) \/ ObserveBucket(g) \/ ObserveCount(g)
          \/ LoadSum(g) \/ SwapSum(g) \/ PushSample(g) \/ Finish(g)
     \/ Scrape \/ Read \/ ScrapeReturns \/ Closes \/ Export

------------------------------------------------------------------------------

Quiet == \A g \in Goroutines : step[g] = "idle"

\* However the lock-free updates interleave, nothing is lost: once the goroutines rest,
\* every field is what the finished requests add up to (collector.go:1614-1713).
CountsExact ==
  Quiet =>
    /\ m.requests = finished.n /\ m.decisions = finished.n - Before.n
    /\ m.count = finished.timed /\ m.low + m.over = finished.timed
    /\ m.sum = finished.total

\* A scrape or an export torn by concurrent requests still shows every request that was
\* over when it began and none that had not begun (collector.go:1658-1684,
\* otel_metrics.go:308-1172).
ReadsBracketed ==
  Complete =>
    LET s == reader.snap IN
    /\ s.requests \in reader.floor.n..begun.n
    /\ s.decisions + Before.n \in reader.floor.n..begun.n
    /\ s.count \in reader.floor.timed..begun.timed
    /\ s.low + s.over \in reader.floor.timed..begun.timed
    /\ s.sum \in reader.floor.total..begun.total

\* The percentiles are those of the samples the buffer holds, each with the share of
\* samples on either side that its name promises, and in order (collector.go:1504-1560).
PercentilesExact ==
  ring # <<>> =>
    /\ perc[50] <= perc[95] /\ perc[95] <= perc[99]
    /\ \A p \in Percentages :
         LET n == Len(ring)
             rank == (p * (n - 1)) \div 100
         IN /\ Cardinality({i \in 1..n : 100 * ring[i] <= perc[p]}) >= rank + 1
            /\ Cardinality({i \in 1..n : 100 * ring[i] >= perc[p]}) >= n - 1 - rank

\* Every export is accepted once or counted once as failed, however often it is tried,
\* and the last one before Close returns has every request that was over when Close was
\* called (otel_metrics.go:175-271).
ExportsAccounted ==
  /\ exported = delivered + lost + (IF exporter \in {"tick", "last"} THEN 1 ELSE 0)
  /\ exporter = "returned" => lastFloor >= atClose
==============================================================================
