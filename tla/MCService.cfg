SPECIFICATION MCSpec
CONSTANTS
  Kinds = {"metrics", "judge", "jsonl", "otlp"}
  Records = {1, 2, 3, 4}
  Size <- Sizes
  QueueSize = 2
  Batches = {0, 1, 2}
  BufferSize = 2
  MaxBytes = 3
  MaxFiles = 1
  MaxRetries = 1
  MaxFaults = 2
  Payloads = {"p", "q"}
  MaxEntries = 3
  MaxCrashes = 2
  MaxErrors = 1
  Requests = {r1, r2}
  QueueDepth = 1
  Workers = {w1}
INVARIANTS RecordsKept  ShutdownSound
PROPERTIES RefinesSink WritersSettle 
CHECK_DEADLOCK FALSE
