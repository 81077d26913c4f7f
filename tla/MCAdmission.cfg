SPECIFICATION AdmissionSpec
CONSTANTS
  Clients = {"c1"}
  Callers = {"r1", "r2"}
  Rates = {0, 2, 3}
  Bursts = {1, 2}
  Cost = 3
  TTL = 4
  RateClock = 5
  MaxBuckets = 2
  Visitors = {"v"}
  Calls = {"q1", "q2"}
  Keys = {"k1", "k2"}
  ProxyKey = "k1"
  NoToken = "none"
  KeyFiles = {{}, {"k2"}}
  BurstValues = {1, 2}
  WindowValues = {1, 2}
  AuthClock = 2
  MaxReloads = 1
  MaxCalls = 3
  Kids = {"a", "b"}
  Bearers = {"b1", "b2"}
  MaxRotations = 2
  FromEnv = {"NEXUS_PROXY_API_KEY"}
  MaxChanges = 4
  Requests = {"q1", "q2"}
  Routes = {"local", "fusion"}
  Examples <- Finds
  MaxInjection = 2
  MaxBytes = 3
  Turns = 2
INVARIANTS  IntakeSound
PROPERTIES AuthSound KeysSettle NeverBlanked
CHECK_DEADLOCK FALSE
