CONSTANTS
  Callers = {c1, c2}
  Endpoints = {"a", "b"}
  Keys = {"a", "b"}
  KeyOf <- OwnKeys
  Leavers = {c1}
  TTL = 1
  MaxEntries = 1
  MaxTime = 2
  MaxCalls = 4
  Requests = {1, 2}
  Texts = {"empty", "x"}
  ArbiterEntries = 1
  ArbiterTTL = 1
  PanelClock = 2
  MaxPanels = 2
SPECIFICATION UpstreamRun
CHECK_DEADLOCK FALSE
INVARIANTS FlightsSound 
PROPERTIES RepliesHonest UpstreamReturns
