\* One arbitrary setting of the 214; every class of value, both layouts.
SPECIFICATION OperateSpec
CONSTANTS
  Goroutines = {g1, g2}
  MaxRequests = 2
  Earlier <- EarlierLatencies
  Latencies = {0, 3}
  UpperBound = 3
  Capacity = 3
  ExportRetries = 1
  MaxReads = 1
INVARIANTS ValidatedBoots CountsHonest
 
CHECK_DEADLOCK FALSE
