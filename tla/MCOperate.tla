------------------------------ MODULE MCOperate ------------------------------
(* What an operator of the proxy works with, on small instances: its settings *)
(* on their way from file and environment into the process, and the counters  *)
(* it reports.  A behaviour is about one of them.                             *)
EXTENDS Config

CONSTANTS Goroutines, MaxRequests, Earlier, Latencies, UpperBound, Capacity,
          ExportRetries, MaxReads

VARIABLES focus,
          step, ms, old, m, series, ring, perc, begun, finished, reader, reads,
          closing, atClose, exporter, tries, lost, delivered, exported, lastFloor, fatal

EarlierLatencies == <<4, 1>>

M == INSTANCE Metrics

meterVars == <<step, ms, old, m, series, ring, perc, begun, finished, reader, reads,
               closing, atClose, exporter, tries, lost, delivered, exported, lastFloor, fatal>>

OperateInit ==
  /\ focus \in {"settings", "counters"}
  /\ ConfigInit /\ M!MetricsInit
  /\ focus = "counters" => /\ setting = "ADDR" /\ env = "unset" /\ file = "unset"
                           /\ layout = "flat"

OperateNext ==
  /\ UNCHANGED focus
  /\ \/ focus = "settings" /\ ConfigNext /\ UNCHANGED meterVars
     \/ focus = "counters" /\ M!MetricsNext /\ UNCHANGED configVars

OperateSpec == OperateInit /\ [][OperateNext]_<<focus, configVars, meterVars>>

\* The counters lose no request, a read torn by traffic shows no less than was over and no
\* more than had begun, percentiles are exact, and every export is accounted for
\* (observability/collector.go, routemetrics.go, otel_metrics.go).
CountsHonest ==
  M!CountsExact /\ M!ReadsBracketed /\ M!PercentilesExact /\ M!ExportsAccounted
=============================================================================
