SPECIFICATION MCSpec
CONSTANTS
  Embedders = {e1, e2}
  Observers = {}
  Threshold = 2
  MaxFailures = 8
  Paths = {"a/x", "b/x"}
  Indexable = {"a/x", "b/x"}
  Base <- Bases
  Chunks <- ChunkCounts
  Models = {"m1", "m2"}
  IndexThreshold = 2
  MaxChanges = 4
  MaxFaults = 1
  MaxEvents = 6
  Callers = {"c1", "c2", "c3"}
  Keys = {"t1", "t2"}
  BatchOf <- Batch
  MaxEntries = 2
  MaxExpiries = 1
  Points = {0, 1, 3}
  EfConstruction = 4
  EfSearch = 3
  MaxLayer = 1
  MaxSize = 5
  Readers = {"r1"}
  Files = {"f", "g", "h"}
  Versions = {1, 2, 3}
  Similarity <- Similarities
  Terms <- TermCounts
  Least = 1
  Wanted = 2
  Room = 3
  MaxUpdates = 2
INVARIANT HybridBlends
CHECK_DEADLOCK FALSE
