------------------------------- MODULE Writers -------------------------------
(***************************************************************************)
(* The background writers a request hands its records to:                  *)
(*   "metrics"  metrics.SQLiteStore     "judge"  judge.SQLiteStore         *)
(*   "jsonl"    telemetry.JSONLRecorder "otlp"   tracing.Exporter          *)
(* Each has a buffered channel that callers never wait for, one goroutine  *)
(* that drains it into a batch, and a Close that is to leave nothing       *)
(* behind.  kind says which writer a behaviour is about.                   *)
(***************************************************************************)
EXTENDS Integers, Sequences, FiniteSets

CONSTANTS
  Kinds,        \* the writers to look at
  Records,      \* what the callers submit
  Size,         \* the length of a record's JSON line
  QueueSize,    \* bufferedChannelSize, ExporterConfig.QueueSize
  Batches,      \* configured batch sizes, 0: one transaction per record
  BufferSize,   \* NEXUS_TELEMETRY_BUFFER_SIZE
  MaxBytes,     \* NEXUS_TELEMETRY_MAX_BYTES, 0: no rotation
  MaxFiles,     \* NEXUS_TELEMETRY_MAX_FILES
  MaxRetries,   \* ExporterConfig.MaxRetries
  MaxFaults     \* how often the disk, the database or the collector may fail

ASSUME WritersAssumption ==
  /\ Kinds \subseteq {"metrics", "judge", "jsonl", "otlp"}
  /\ Size \in [Records -> Nat \ {0}] /\ QueueSize \in Nat \ {0}
  /\ Batches \subseteq Nat /\ BufferSize \in Nat \ {0}
  /\ MaxBytes \in Nat /\ MaxFiles \in Nat /\ MaxRetries \in Nat /\ MaxFaults \in Nat

VARIABLES
  kind,       \* which writer this is
  batch,      \* its batch size
  calls,      \* where each caller stands, and how its record fared
  ch,         \* the channel
  accepted,   \* everything the channel ever took
  held,       \* batchAcc, buf or batch: taken and not yet written
  primed,     \* batchAcc is no longer nil
  timer,      \* the batch timer: "off", "armed" or "fired"
  attempt,    \* POSTs made for the batch in hand
  stored,     \* what reached the medium
  settled,    \* how many records have been stored or lost
  log,        \* the JSONL file and its rotated predecessors
  faults,     \* failures still to come
  worker,     \* has the drain goroutine returned?
  closed      \* "no", "flagged", "closing" (the channel is closed) or "yes"

vars == <<kind, batch, calls, ch, accepted, held, primed, timer, attempt,
          stored, settled, log, faults, worker, closed>>

Store == {"metrics", "judge"}

Bytes(s) ==
  LET sum[i \in 0..Len(s)] == IF i = 0 THEN 0 ELSE sum[i - 1] + Size[s[i]]
  IN sum[Len(s)]

Larger(a, b) == IF a > b THEN a ELSE b

\* newSQLiteStore, judge.Open: an empty table and a drain goroutine.
NewStore == kind \in Store /\ batch \in Batches

\* NewExporter: a batch size that is not positive becomes the default.
NewExporter == kind = "otlp" /\ batch \in Batches \ {0}

\* NewJSONLRecorder: rotation keeps at least one file.
NewRecorder == kind = "jsonl" /\ batch = BufferSize

KeepFiles == Larger(MaxFiles, 1)

Init ==
  /\ kind \in Kinds
  /\ NewStore \/ NewExporter \/ NewRecorder
  /\ calls = [r \in Records |-> "new"]
  /\ ch = <<>> /\ accepted = <<>> /\ held = <<>> /\ primed = FALSE
  /\ timer = "off" /\ attempt = 0
  /\ stored = <<>> /\ settled = 0 /\ faults = MaxFaults
  /\ log = [bw |-> "ok", written |-> 0, present |-> TRUE, active |-> <<>>, rotated |-> <<>>]
  /\ worker = "on" /\ closed = "no"

-----------------------------------------------------------------------------
\* The callers.  The flag is read, and the channel is used a moment later: by
\* then it may have been closed, and the send panics.
Check(r) ==
  /\ calls[r] = "new"
  /\ calls' = [calls EXCEPT ![r] = IF closed = "no" THEN "checked" ELSE "refused"]
  /\ UNCHANGED <<ch, accepted>>

Send(r) ==
  /\ calls[r] = "checked"
  /\ IF closed \in {"closing", "yes"}
     THEN calls' = [calls EXCEPT ![r] = "panicked"] /\ UNCHANGED <<ch, accepted>>
     ELSE IF Len(ch) < QueueSize
     THEN /\ calls' = [calls EXCEPT ![r] = "sent"]
          /\ ch' = Append(ch, r) /\ accepted' = Append(accepted, r)
     ELSE calls' = [calls EXCEPT ![r] = "dropped"] /\ UNCHANGED <<ch, accepted>>

drainVars == <<held, primed, timer, attempt, stored, settled, log, faults, worker>>
callVars  == <<calls, ch, accepted>>

\* metrics.SQLiteStore.RecordRequest
RecordRequest(r) ==
  /\ kind = "metrics" /\ (Check(r) \/ Send(r))
  /\ UNCHANGED <<kind, batch, drainVars, closed>>

\* judge.SQLiteStore.Record holds closeMu over both.
RecordScore(r) ==
  /\ kind = "judge" /\ calls[r] = "new"
  /\ IF closed # "no"
     THEN calls' = [calls EXCEPT ![r] = "refused"] /\ UNCHANGED <<ch, accepted>>
     ELSE IF Len(ch) < QueueSize
     THEN /\ calls' = [calls EXCEPT ![r] = "sent"]
          /\ ch' = Append(ch, r) /\ accepted' = Append(accepted, r)
     ELSE calls' = [calls EXCEPT ![r] = "dropped"] /\ UNCHANGED <<ch, accepted>>
  /\ UNCHANGED <<kind, batch, drainVars, closed>>

\* telemetry.JSONLRecorder.Record
RecordLine(r) ==
  /\ kind = "jsonl" /\ (Check(r) \/ Send(r))
  /\ UNCHANGED <<kind, batch, drainVars, closed>>

\* Exporter.StartSpan: a span that is not sampled is born ended.
NotSampled(r) ==
  /\ kind = "otlp" /\ calls[r] = "new"
  /\ calls' = [calls EXCEPT ![r] = "unsampled"]
  /\ UNCHANGED <<kind, batch, ch, accepted, drainVars, closed>>

\* Exporter.Submit, from the End of a sampled span.
Submit(r) ==
  /\ kind = "otlp" /\ (Check(r) \/ Send(r))
  /\ UNCHANGED <<kind, batch, drainVars, closed>>

-----------------------------------------------------------------------------
\* The records of s are settled; those at the places of S are stored.
SettleOnly(s, S) ==
  /\ stored' = stored \o [i \in 1..Cardinality(S) |->
       s[CHOOSE k \in S : Cardinality({j \in S : j <= k}) = i]]
  /\ settled' = settled + Len(s)

\* A transaction: it commits, some of its inserts may fail on their own, or it
\* cannot be begun, prepared or committed and the whole batch is discarded.
Commit(s) ==
  \/ SettleOnly(s, 1..Len(s)) /\ UNCHANGED faults
  \/ faults > 0 /\ faults' = faults - 1
     /\ \E S \in {T \in SUBSET (1..Len(s)) : T # 1..Len(s)} : SettleOnly(s, S)

\* One turn of SQLiteStore.drain (metrics and judge alike).  Only the very first
\* record of the store's life finds batchAcc nil: it arms the timer and is not
\* measured against the batch size.  A fired timer is seen when the next record
\* comes.
DrainTurn(r) ==
  /\ ch # <<>> /\ r = Head(ch) /\ ch' = Tail(ch)
  /\ IF batch = 0
     THEN Commit(<<r>>) /\ UNCHANGED <<held, primed, timer>>
     ELSE IF ~primed
     THEN /\ held' = <<r>> /\ primed' = TRUE /\ timer' = "armed"
          /\ UNCHANGED <<stored, settled, faults>>
     ELSE IF Len(held) + 1 >= batch \/ timer = "fired"
     THEN /\ Commit(Append(held, r)) /\ held' = <<>> /\ timer' = "off"
          /\ UNCHANGED primed
     ELSE held' = Append(held, r) /\ UNCHANGED <<primed, timer, stored, settled, faults>>

Drain ==
  /\ kind \in Store /\ worker = "on"
  /\ \E r \in Records : DrainTurn(r)
  /\ UNCHANGED <<kind, batch, calls, accepted, attempt, log, worker, closed>>

\* What is left in the batch is forgotten when the channel closes.
BugDrainEnds ==
  /\ kind \in Store /\ worker = "on" /\ ch = <<>> /\ closed = "closing"
  /\ worker' = "done"
  /\ UNCHANGED <<kind, batch, callVars, held, primed, timer, attempt, stored, settled, log, faults, closed>>

\* The channel is closed and empty: the rest of the batch is committed.
DrainEnds ==
  /\ kind \in Store /\ worker = "on" /\ ch = <<>> /\ closed = "closing"
  /\ IF held = <<>> THEN UNCHANGED <<stored, settled, faults>> ELSE Commit(held)
  /\ held' = <<>> /\ timer' = "off" /\ worker' = "done"
  /\ UNCHANGED <<kind, batch, callVars, primed, attempt, log, closed>>

TimerFires ==
  /\ timer = "armed" /\ timer' = "fired"
  /\ UNCHANGED <<kind, batch, callVars, held, primed, attempt, stored, settled, log, faults, worker, closed>>
-----------------------------------------------------------------------------
\* The newest go first.
BugEvictNewest(files) == IF Len(files) <= KeepFiles THEN files ELSE SubSeq(files, 1, KeepFiles)

\* evictExcessRotatedFiles: the oldest go first.
Evict(files) ==
  IF Len(files) <= KeepFiles THEN files
  ELSE SubSeq(files, Len(files) - KeepFiles + 1, Len(files))

\* JSONLRecorder.rotate: the results it may have.  A writer that has failed
\* returns its error again from Flush, and rotate gives up before it reopens
\* anything; a stale one (its file is closed) goes on.
Rotated(f, bad) ==
  LET renamed == [f EXCEPT !.rotated = Evict(Append(f.rotated, f.active)), !.active = <<>>]
  IN IF f.bw = "failed" THEN {f}
     ELSE IF f.present
     THEN {[renamed EXCEPT !.bw = "ok", !.written = 0]}
          \cup (IF bad THEN {[renamed EXCEPT !.bw = "stale", !.present = FALSE],
                             [f EXCEPT !.bw = "ok"], [f EXCEPT !.bw = "stale"]}
                ELSE {})
     ELSE {[f EXCEPT !.bw = "ok", !.present = TRUE]} \cup (IF bad THEN {f} ELSE {})

\* flush: the results of writing s, and how many of its records reach the file.
\* bufio keeps the first error it meets, so one failed write is for good.
Flushed(f, s, bad) ==
  IF s = <<>> THEN {[file |-> f, kept |-> 0]}
  ELSE IF f.bw = "ok"
  THEN {[file |-> [f EXCEPT !.active = @ \o s, !.written = @ + Bytes(s)], kept |-> Len(s)]}
       \cup (IF bad THEN {[file |-> [f EXCEPT !.bw = "failed", !.active = @ \o SubSeq(s, 1, k)],
                           kept |-> k] : k \in 0..Len(s) - 1}
             ELSE {})
  ELSE {[file |-> g, kept |-> 0] : g \in IF MaxBytes > 0 THEN Rotated(f, bad) ELSE {f}}

\* flush, as a step: held is written, kept or not, and empty afterwards.
FlushHeld(bad) ==
  \E o \in Flushed(log, held, bad) : log' = o.file /\ SettleOnly(held, 1..o.kept)

\* A rotation is due when the line would cross the cap; the buffer counts.
RotationDue(r) ==
  MaxBytes > 0 /\ log.written > 0 /\ log.written + Bytes(held) + Size[r] > MaxBytes

Fault(bad) == IF bad THEN faults > 0 /\ faults' = faults - 1 ELSE UNCHANGED faults

\* One turn of run for a record: rotate, flush if it does not fit into the buffer,
\* append, flush if the buffer is full.  At most one of these fails.
WriteLine(r) ==
  \E b1 \in BOOLEAN, b2 \in BOOLEAN, b3 \in BOOLEAN :
    /\ Cardinality({b \in {1, 2, 3} : <<b1, b2, b3>>[b]}) <= 1
    /\ Fault(b1 \/ b2 \/ b3)
    /\ \E o1 \in IF RotationDue(r)
                 THEN UNION {{[file |-> g, kept |-> o.kept] : g \in Rotated(o.file, b1)} :
                             o \in Flushed(log, held, b1)}
                 ELSE {[file |-> log, kept |-> -1]} :
       LET h1 == IF RotationDue(r) THEN <<>> ELSE held IN
       \E o2 \in IF h1 # <<>> /\ Bytes(h1) + Size[r] > batch
                 THEN Flushed(o1.file, h1, b2)
                 ELSE {[file |-> o1.file, kept |-> -1]} :
         LET h2   == IF o2.kept >= 0 THEN <<r>> ELSE Append(h1, r)
             gone == IF o1.kept >= 0 \/ o2.kept >= 0 THEN held ELSE <<>>
             kept == SubSeq(held, 1, Larger(o1.kept, Larger(o2.kept, 0)))
         IN IF Bytes(h2) >= batch
            THEN \E o3 \in Flushed(o2.file, h2, b3) :
                   /\ log' = o3.file /\ held' = <<>>
                   /\ stored' = stored \o kept \o SubSeq(h2, 1, o3.kept)
                   /\ settled' = settled + Len(gone) + Len(h2)
            ELSE /\ log' = o2.file /\ held' = h2
                 /\ stored' = stored \o kept /\ settled' = settled + Len(gone)

Run ==
  /\ kind = "jsonl" /\ worker = "on" /\ ch # <<>>
  /\ WriteLine(Head(ch)) /\ ch' = Tail(ch)
  /\ UNCHANGED <<kind, batch, calls, accepted, primed, timer, attempt, worker, closed>>

\* The ticker, or a caller's Sync, flushes whatever is buffered.
Sync ==
  /\ kind = "jsonl" /\ worker = "on" /\ held # <<>> /\ held' = <<>>
  /\ \E bad \in BOOLEAN : Fault(bad) /\ FlushHeld(bad)
  /\ UNCHANGED <<kind, batch, callVars, primed, timer, attempt, worker, closed>>

RunEnds ==
  /\ kind = "jsonl" /\ worker = "on" /\ ch = <<>> /\ closed = "closing"
  /\ held' = <<>> /\ worker' = "done"
  /\ \E bad \in BOOLEAN : Fault(bad) /\ FlushHeld(bad)
  /\ UNCHANGED <<kind, batch, callVars, primed, timer, attempt, closed>>
-----------------------------------------------------------------------------
\* Exporter.run: gather a batch; while it is being posted nothing is taken.
Gather ==
  /\ kind = "otlp" /\ worker = "on" /\ attempt = 0 /\ ch # <<>>
  /\ held' = Append(held, Head(ch)) /\ ch' = Tail(ch)
  /\ attempt' = IF Len(held) + 1 >= batch THEN 1 ELSE 0
  /\ UNCHANGED <<kind, batch, calls, accepted, primed, timer, stored, settled, log, faults, worker, closed>>

\* Exporter.flush, one attempt: success, a 5xx that is tried again, or an error
\* that is not (a 4xx, the network, the deadline, the last attempt).
Post ==
  /\ kind = "otlp" /\ attempt > 0
  /\ \/ /\ SettleOnly(held, 1..Len(held)) /\ held' = <<>> /\ attempt' = 0
        /\ UNCHANGED faults
     \/ /\ faults > 0 /\ faults' = faults - 1
        /\ \/ attempt <= MaxRetries /\ attempt' = attempt + 1
              /\ UNCHANGED <<held, stored, settled>>
           \/ SettleOnly(held, {}) /\ held' = <<>> /\ attempt' = 0
  /\ UNCHANGED <<kind, batch, callVars, primed, timer, log, worker, closed>>

\* The loop waits for a full batch.
BugGatherEnds ==
  /\ kind = "otlp" /\ worker = "on" /\ attempt = 0 /\ ch = <<>> /\ closed = "closing"
  /\ held = <<>> /\ worker' = "done"
  /\ UNCHANGED <<kind, batch, callVars, held, primed, timer, attempt, stored, settled, log, faults, closed>>

\* The channel is closed: a last flush, then the loop returns.
GatherEnds ==
  /\ kind = "otlp" /\ worker = "on" /\ attempt = 0 /\ ch = <<>> /\ closed = "closing"
  /\ IF held = <<>> THEN worker' = "done" /\ UNCHANGED attempt
     ELSE attempt' = 1 /\ UNCHANGED worker
  /\ UNCHANGED <<kind, batch, callVars, held, primed, timer, stored, settled, log, faults, closed>>
-----------------------------------------------------------------------------
\* Close: the flag, the channel, and the wait for the drain goroutine.
CloseFlag ==
  /\ closed = "no" /\ closed' = IF kind = "judge" THEN "closing" ELSE "flagged"
  /\ UNCHANGED <<kind, batch, callVars, drainVars>>

CloseChannel ==
  /\ closed = "flagged" /\ closed' = "closing"
  /\ UNCHANGED <<kind, batch, callVars, drainVars>>

CloseReturns ==
  /\ closed = "closing" /\ worker = "done" /\ closed' = "yes"
  /\ UNCHANGED <<kind, batch, callVars, drainVars>>

Callers == \E r \in Records :
  RecordRequest(r) \/ RecordScore(r) \/ RecordLine(r) \/ NotSampled(r) \/ Submit(r)

Work == Drain \/ DrainEnds \/ Run \/ RunEnds \/ Gather \/ Post \/ GatherEnds

Closing == CloseChannel \/ CloseReturns

Next == Callers \/ Work \/ TimerFires \/ Sync \/ CloseFlag \/ Closing

Spec == Init /\ [][Next]_vars

\* The drain goroutines run, the recorder's ticker ticks, and a Close that has
\* begun goes on.
FairSpec == Spec /\ WF_vars(Work) /\ WF_vars(Sync) /\ WF_vars(Closing)
-----------------------------------------------------------------------------
TypeOK ==
  /\ kind \in Kinds /\ batch \in Nat
  /\ calls \in [Records -> {"new", "checked", "sent", "dropped", "refused", "panicked", "unsampled"}]
  /\ {ch, accepted, held, stored} \subseteq Seq(Records) /\ Len(ch) <= QueueSize
  /\ primed \in BOOLEAN /\ timer \in {"off", "armed", "fired"}
  /\ attempt \in 0..MaxRetries + 1 /\ settled \in 0..Len(accepted)
  /\ log.bw \in {"ok", "failed", "stale"} /\ log.written \in Nat
  /\ faults \in 0..MaxFaults /\ worker \in {"on", "done"}
  /\ closed \in {"no", "flagged", "closing", "yes"}

S == INSTANCE Sink WITH shut <- closed = "yes"

\* "Close drains in-flight writes", "guaranteeing all queued records reach disk":
\* each of the four writers settles what it accepted once and in order, whoever
\* races with Close, and has nothing left when Close returns.
RefinesSink == S!SinkSpec

\* A crash costs no more than the channel and one batch: besides the channel, the
\* drain goroutine never sits on more than a batch.  The first record of a store
\* escapes the measure, so a batch size of one still lets one record wait.
HeldBounded ==
  /\ accepted = SubSeq(accepted, 1, settled) \o held \o ch
  /\ kind \in Store => Len(held) <= Larger(batch - 1, 1)
  /\ kind = "jsonl" => Bytes(held) < batch
  /\ kind = "otlp"  => Len(held) <= batch

Lines(files) == UNION {{files[i][j] : j \in 1..Len(files[i])} : i \in 1..Len(files)}

\* "A size cap": a JSONL file stays within MaxBytes unless the write buffer is larger;
\* what came before its last line may always stay below the buffer, since nothing is
\* rotated before a first flush.  A rotation that cannot rename the file is excused.
\* At most MaxFiles rotated ones lie beside it.
FitsCap(f) ==
  \/ Bytes(f) <= Larger(MaxBytes, BufferSize)
  \/ Bytes(SubSeq(f, 1, Len(f) - 1)) < BufferSize

FilesBounded ==
  kind = "jsonl" =>
    /\ Len(log.rotated) <= KeepFiles
    /\ MaxBytes > 0 /\ faults = MaxFaults =>
         /\ FitsCap(log.active)
         /\ \A i \in 1..Len(log.rotated) : FitsCap(log.rotated[i])

\* The newest lines survive: what the recorder has stored and not evicted is a
\* tail of everything it ever stored.
NewestKept ==
  kind = "jsonl" =>
    LET lines == Lines(log.rotated \o <<log.active>>)
    IN \A i \in 1..Len(stored), j \in 1..Len(stored) :
         i < j /\ stored[i] \in lines => stored[j] \in lines

\* Close returns, whatever the disk or the collector does.
CloseDrains == (closed = "flagged" \/ closed = "closing") ~> (closed = "yes")

\* "Flushes on tick": again and again the recorder has settled every line it accepted,
\* without waiting for more traffic or for Close.
LinesSettle ==
  kind = "jsonl" => []<>(settled = Len(accepted))

\* "On flush failure, try to recover via rotation": a disk that works again is
\* written to again.
\* The code does not keep this: without a size limit there is no rotation,
\* and the buffered writer keeps its first error.
RecorderRecovers ==
  kind = "jsonl" => <>[](log.bw = "ok")
=============================================================================
