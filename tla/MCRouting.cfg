CONSTANTS
  Planners = {a, b}
  Texts = {"t1", "t2", "t4", "t5"}
  Similar <- Sim
  Category <- Cat
  Rule <- Rules
  Replies = {"local", "other route", "down"}
  MaxEntries = 2
  TTL = 1
  CleanupAbove = 0
  Outcomes <- Rows
  MinSamples = 1
  Threshold = 1
  CooldownAfter = 1
  MaxClock = 2
  MaxSets = 2
  MaxScores = 1
  Prompts = {"p1", "p2"}
  Grams <- GramsOf
  MinCount = 2
  Share = 60
  MaxHistory = 3
  MaxRecords = 4
  Ranked = {1, 2}
  Stats <- SomeStats
  MinSampleCount = 1
  MaxErrorRate = 0
  TailWeight = 1
SPECIFICATION RoutingSpec
CHECK_DEADLOCK FALSE
INVARIANTS PlansSound ChoicesEarned
SYMMETRY Sym
