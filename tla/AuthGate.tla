------------------------------- MODULE AuthGate -------------------------------
(* internal/auth (auth.go, tenant.go), internal/ratelimit/auth.go and the      *)
(* SIGHUP of cmd/nexus/server.go: who gets past the bearer-token gate, while   *)
(* the key file is replaced and failures of a client lock it out.              *)
EXTENDS Naturals, FiniteSets, Sequences

CONSTANTS
  Visitors,      \* client addresses
  Calls,         \* request goroutines
  Keys,          \* bearer tokens; one of them is the single key of the proxy
  ProxyKey, NoToken,
  KeyFiles,      \* what the key file may hold
  BurstValues,   \* values of AuthRateLimitBurst
  WindowValues,  \* values of AuthRateLimitWindow, in ticks
  AuthClock, MaxReloads, MaxCalls    \* bounds: ticks, SIGHUPs, requests

Reasons == {"missing", "invalid"}

VARIABLES
  hour,          \* the clock
  limiting,      \* AuthLimiter.rpm > 0
  fails,         \* AuthLimiter.burst
  window,        \* AuthLimiter.window: ticks a failure counts for
  failures,      \* AuthLimiter.failures: a visitor's entry, or Untracked
  creds,         \* Middleware.creds: the keys of the set
  slots,         \* Middleware.slots: the visitors that have one
  visit,         \* each request: [at, from, token, set] and, a history, whether it was [checked]
  calls, reloads,
  accepted,      \* history: the policies in force during each request
  bar,           \* history: the threshold each visitor last passed the check at
  attempts       \* history: when each visitor failed, why, and whether it had been checked

authVars == <<hour, limiting, fails, window, failures, creds, slots, visit, calls, reloads, accepted, bar, attempts>>

Untracked == [ts |-> [x \in Reasons |-> <<>>], lastSeen |-> AuthClock + 1]
Unreadable == {"unreadable"}
Ended(at) == [at |-> at, from |-> CHOOSE v \in Visitors : TRUE, token |-> NoToken, set |-> {}, checked |-> FALSE]

\* Who is let in by a set of keys: an empty set leaves the single key.
Policy(ks) == IF ks = {} THEN {ProxyKey} ELSE ks

AuthInit ==
  /\ hour = 0 /\ limiting = TRUE /\ fails \in BurstValues /\ window \in WindowValues
  /\ failures = [v \in Visitors |-> Untracked]
  /\ creds \in KeyFiles
  /\ slots = {} /\ visit = [r \in Calls |-> Ended("idle")] /\ calls = 0 /\ reloads = 0
  /\ accepted = [r \in Calls |-> {}] /\ bar = [v \in Visitors |-> 1]
  /\ attempts = [v \in Visitors |-> [x \in Reasons |-> <<>>]]

\* How many of the times, oldest first, lie before the window.
Before(ts) ==
  CHOOSE k \in 0..Len(ts) :
    (\A i \in 1..k : ts[i] + window < hour) /\ (k < Len(ts) => ts[k + 1] + window >= hour)

pruneLocked(f) ==
  [f EXCEPT !.ts = [x \in Reasons |-> SubSeq(f.ts[x], Before(f.ts[x]) + 1, Len(f.ts[x]))]]

Blocked(f) == \E x \in Reasons : Len(f.ts[x]) >= fails

\* Wrap up to acquireSlot: a visitor that is locked out gets 429.  Nobody waits
\* for a slot: acquireSlot and renewSlot leave the visitor with an open one.
Arrive(r, v, k) ==
  LET f == IF failures[v] = Untracked \/ ~limiting THEN failures[v] ELSE pruneLocked(failures[v])
      locked == limiting /\ Blocked(f)
  IN /\ visit[r].at \notin {"gate", "match", "exempt"} /\ calls < MaxCalls /\ calls' = calls + 1
     /\ visit' = [visit EXCEPT ![r] = IF locked THEN [Ended("locked") EXCEPT !.from = v]
                                      ELSE [at |-> "gate", from |-> v, token |-> k, set |-> {}, checked |-> limiting]]
     /\ accepted' = IF locked THEN accepted ELSE [accepted EXCEPT ![r] = {Policy(creds)}]
     /\ UNCHANGED <<hour, limiting, fails, window, creds, reloads, attempts>>
     /\ failures' = [failures EXCEPT ![v] = f]
     /\ slots' = IF locked THEN slots ELSE slots \cup {v}
     /\ bar' = IF locked \/ ~limiting THEN bar ELSE [bar EXCEPT ![v] = fails]

\* A public path (/healthz, /metrics, perhaps /status) needs no token.
Exempt(r) ==
  /\ visit[r].at = "gate" /\ visit[r].token = NoToken
  /\ visit' = [visit EXCEPT ![r].at = "exempt"]
  /\ UNCHANGED <<hour, limiting, fails, window, failures, creds, slots, calls, reloads, accepted, bar, attempts>>

ExemptEnds(r) ==
  /\ visit[r].at = "exempt"
  /\ visit' = [visit EXCEPT ![r] = Ended("idle")] /\ accepted' = [accepted EXCEPT ![r] = {}]
  /\ UNCHANGED <<hour, limiting, fails, window, failures, creds, slots, calls, reloads, bar, attempts>>

\* AuthLimiter.RecordFailure, for request r.
RecordFailure(r, why) ==
  LET v == visit[r].from
  IN /\ failures' = IF limiting THEN [failures EXCEPT ![v].ts[why] = Append(@, hour), ![v].lastSeen = hour]
                    ELSE failures
     /\ attempts' = IF limiting THEN [attempts EXCEPT ![v][why] = Append(@, [at |-> hour, checked |-> visit[r].checked])]
                    ELSE attempts

Missing(r) ==
  /\ visit[r].at = "gate" /\ visit[r].token = NoToken
  /\ RecordFailure(r, "missing")
  /\ visit' = [visit EXCEPT ![r] = Ended("denied")] /\ accepted' = [accepted EXCEPT ![r] = {}]
  /\ UNCHANGED <<hour, limiting, fails, window, creds, slots, calls, reloads, bar>>

\* The credential set is read once, under Middleware.mu.
Snapshot(r) ==
  /\ visit[r].at = "gate" /\ visit[r].token # NoToken
  /\ visit' = [visit EXCEPT ![r].at = "match", ![r].set = creds]
  /\ UNCHANGED <<hour, limiting, fails, window, failures, creds, slots, calls, reloads, accepted, bar, attempts>>

\* CredentialSet.Match, or the single key when the set is empty.
Match(r) ==
  /\ visit[r].at = "match"
  /\ IF visit[r].token \in Policy(visit[r].set)
     THEN visit' = [visit EXCEPT ![r] = Ended("served")] /\ UNCHANGED <<failures, attempts>>
     ELSE visit' = [visit EXCEPT ![r] = Ended("denied")] /\ RecordFailure(r, "invalid")
  /\ accepted' = [accepted EXCEPT ![r] = {}]
  /\ UNCHANGED <<hour, limiting, fails, window, creds, slots, calls, reloads, bar>>

BugSetCredentials(file) == IF file = Unreadable THEN {} ELSE file

\* LoadAPIKeysFile, NewCredentialSet, SetCredentials: a bad file changes nothing.
SetCredentials(file) == IF file = Unreadable THEN creds ELSE file

\* handleSIGHUP: the limiter's values, then the credentials.
Reload(on, n, w, file) ==
  /\ reloads < MaxReloads /\ reloads' = reloads + 1
  /\ limiting' = on /\ fails' = n /\ window' = w /\ creds' = SetCredentials(file)
  /\ accepted' = [r \in Calls |-> IF file = Unreadable \/ accepted[r] = {} THEN accepted[r]
                                  ELSE accepted[r] \cup {Policy(file)}]
  /\ UNCHANGED <<hour, failures, slots, visit, calls, bar, attempts>>

\* Each minute: prune everybody, forget who has no failure left.
Reap ==
  LET swept(v) == IF failures[v] = Untracked THEN Untracked ELSE pruneLocked(failures[v])
      idle(v) == hour > swept(v).lastSeen + 1 /\ \A x \in Reasons : swept(v).ts[x] = <<>>
  IN /\ failures' = [v \in Visitors |-> IF idle(v) THEN Untracked ELSE swept(v)]
     /\ failures' # failures
     /\ UNCHANGED <<hour, limiting, fails, window, creds, slots, visit, calls, reloads, accepted, bar, attempts>>

AuthTick ==
  /\ hour < AuthClock /\ hour' = hour + 1
  /\ UNCHANGED <<limiting, fails, window, failures, creds, slots, visit, calls, reloads, accepted, bar, attempts>>

AuthNext ==
  \/ \E r \in Calls : \/ \E v \in Visitors, k \in Keys \cup {NoToken} : Arrive(r, v, k)
                      \/ Exempt(r) \/ ExemptEnds(r) \/ Missing(r) \/ Snapshot(r) \/ Match(r)
  \/ \E on \in BOOLEAN, n \in BurstValues, w \in WindowValues, f \in KeyFiles \cup {Unreadable} : Reload(on, n, w, f)
  \/ Reap \/ AuthTick

-----------------------------------------------------------------------------
\* The failures that count: those in the window, and those of checked requests that
\* are in every window there may be.
Recent(v, x) == {i \in DOMAIN attempts[v][x] : attempts[v][x][i].at + window >= hour}
Checked(v, x) ==
  {i \in DOMAIN attempts[v][x] :
     attempts[v][x][i].checked /\ \A w \in WindowValues : attempts[v][x][i].at + w >= hour}

FailuresBelow ==
  \A v \in Visitors, x \in Reasons : Cardinality(Checked(v, x)) < bar[v] + Cardinality(Calls)

LockedRightly ==
  \A r \in Calls : (visit'[r].at = "locked" /\ calls' # calls /\ visit'[r] # visit[r]) =>
    \E x \in Reasons : Cardinality(Recent(visit'[r].from, x)) >= fails

\* However its requests, the reaper and SIGHUPs interleave, a client fails less often in
\* a window than the threshold it was last checked against, but for the requests that
\* are past the check; and only one that has failed that often is locked out.
LockoutExact == [][FailuresBelow' /\ LockedRightly]_authVars

\* A request that shows a key is answered by a policy that was in force while it
\* was in the gate: the file last read well, or the proxy's key when that is empty.
CredentialsHeeded ==
  [][\A r \in Calls : visit[r].at = "match" /\ visit'[r].at # "match" =>
       \E p \in accepted[r] : (visit[r].token \in p) <=> (visit'[r].at = "served")]_authVars
=============================================================================
