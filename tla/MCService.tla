------------------------------ MODULE MCService ------------------------------
(* What keeps the proxy's records, on small instances: the background         *)
(* writers, the audit log and the end of the process; a behaviour is about    *)
(* one of them.                                                               *)
EXTENDS Writers

CONSTANTS
  Payloads, MaxEntries, MaxCrashes, MaxErrors,   \* audit log
  Requests, QueueDepth, Workers                  \* end of the process

\* An empty pair of hands is not a request.
ASSUME ServiceAssumption == "none" \notin Requests

VARIABLES
  focus,
  syncMode, file, torn, synced, tip, auditor, acked, crashes, errors,
  req, panicked, queue, poolClosed, taken, submitted, judged, cats, learned,
  open, kept, signal, serving, todo

Sizes == [r \in Records |-> 1 + (r % 2)]

Audit == INSTANCE AuditLog
Process == INSTANCE Shutdown

auditVars == <<syncMode, file, torn, synced, tip, auditor, acked, crashes, errors>>
processVars == <<req, panicked, queue, poolClosed, taken, submitted, judged, cats, learned,
                 open, kept, signal, serving, todo>>
allVars == <<focus, vars, auditVars, processVars>>

MCInit ==
  /\ focus \in {"writer", "audit", "process"}
  /\ Init /\ (focus # "writer" => kind = "jsonl")
  /\ Audit!AuditInit /\ (focus # "audit" => syncMode = "none")
  /\ Process!Init

MCNext ==
  /\ UNCHANGED focus
  /\ \/ focus = "writer" /\ Next /\ UNCHANGED <<auditVars, processVars>>
     \/ focus = "audit" /\ Audit!AuditNext /\ UNCHANGED <<vars, processVars>>
     \/ focus = "process" /\ Process!Next /\ UNCHANGED <<vars, auditVars>>

\* Goroutines run and tickers fire; nothing is assumed of the requests in flight.
MCSpec ==
  /\ MCInit /\ [][MCNext]_allVars
  /\ WF_vars(focus = "writer" /\ Work)
  /\ WF_vars(focus = "writer" /\ Sync)
  /\ WF_vars(focus = "writer" /\ Closing)
  /\ WF_processVars(focus = "process" /\ Process!Work)
  /\ WF_processVars(focus = "process" /\ Process!Ending)

\* What a writer holds in memory and on disk is bounded, and the newest lines are the
\* ones that survive rotation (telemetry/jsonl.go, metrics/sqlite.go, tracing/exporter.go).
RecordsKept == HeldBounded /\ FilesBounded /\ NewestKept

\* The audit log of src/internal/audit verifies across crashes and restarts, keeps what
\* it acknowledged under sync=full, and Verify notices a line removed or changed.
AuditSound == Audit!ChainVerifies /\ Audit!AckedDurable /\ Audit!TamperFound

\* Close returns, and the lines of the recorder need neither Close nor traffic to settle.
WritersSettle == CloseDrains /\ LinesSettle

\* However requests, pools, the signal goroutine and the cleanups of main interleave:
\* samples are scored before their stores close and before the process exits, the
\* categories of dropped samples are forgotten, and a request leaves all its records.
ShutdownSound ==
  /\ Process!ScoresBeforeStores /\ Process!NothingUnscored
  /\ Process!CategoriesOnTheirWay /\ Process!RecordsComplete

\* A signal ends the process (cmd/nexus/main.go:130-180).
SignalEnds == focus = "process" => Process!SignalEnds
==============================================================================
