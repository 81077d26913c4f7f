SPECIFICATION MonitorsSpec
CONSTANTS
  Contexts = {1, 2}
  Frees = {1, 4}
  BytesPerToken = 2
  DefaultBytesPerToken = 1
  Interval = 1
  NvidiaInterval = 1
  Sysfs = TRUE
  Thermal = TRUE
  Providers = {"p1", "p2"}
  BreakerAfter = 3
  MaxBackoff = 15
  FailureCap = 5
  MaxFlips = 2
  Window = 3
  Minute = 2
  Costs = {1, 2}
  Limits = {3, 5}
  MaxClock = 5
  MaxSpends = 3
INVARIANTS VerdictsAgree AccountsBound
PROPERTIES BudgetSound 
CHECK_DEADLOCK FALSE
