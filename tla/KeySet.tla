-------------------------------- MODULE KeySet --------------------------------
(* internal/auth/jwt.go: the signing keys fetched from the JWKS endpoint by    *)
(* the refresh loop and by every request whose key is not known yet.           *)
EXTENDS Naturals, FiniteSets

CONSTANTS
  Kids,           \* key ids
  Bearers,        \* requests with a token
  MaxRotations    \* bound: changes of the published set and of the endpoint's health

VARIABLES
  published,      \* what the endpoint serves: a set of usable keys, perhaps empty
  answering,      \* whether the endpoint answers
  rotations,
  known,          \* JWTAuthenticator.keys
  fetch,          \* each fetcher: [at: "none" | "sent" | "got" | "failed", keys]
  bearer,         \* each request: [at: "idle" | "fetching" | "again", kid]
  refresher       \* the refresh loop: "on" or "closed"

keyVars == <<published, answering, rotations, known, fetch, bearer, refresher>>

Loop == "loop"
Fetchers == Bearers \cup {Loop}
NoFetch == [at |-> "none", keys |-> {}]
Nobody == [at |-> "idle", kid |-> CHOOSE k \in Kids : TRUE]

\* NewJWTAuthenticator fails unless its first fetch brings a key; Populate.
KeyInit ==
  /\ published \in SUBSET Kids \ {{}} /\ known = published /\ answering = TRUE /\ rotations = 0
  /\ fetch = [f \in Fetchers |-> NoFetch] /\ bearer = [b \in Bearers |-> Nobody]
  /\ refresher = "on"

\* Authenticate and getKey: a key that is not known is looked for at the endpoint, once.
Present(b, k) ==
  /\ bearer[b].at = "idle" /\ k \notin known
  /\ bearer' = [bearer EXCEPT ![b] = [at |-> "fetching", kid |-> k]]
  /\ fetch' = [fetch EXCEPT ![b].at = "sent"]
  /\ UNCHANGED <<published, answering, rotations, known, refresher>>

\* refreshLoop's ticker.
Refresh ==
  /\ refresher = "on" /\ fetch[Loop].at = "none"
  /\ fetch' = [fetch EXCEPT ![Loop].at = "sent"]
  /\ UNCHANGED <<published, answering, rotations, known, bearer, refresher>>

\* The endpoint answers with what it has then, or does not answer in time.
Reply(f) ==
  /\ fetch[f].at = "sent"
  /\ fetch' = [fetch EXCEPT ![f] = IF answering THEN [at |-> "got", keys |-> published]
                                   ELSE [at |-> "failed", keys |-> {}]]
  /\ UNCHANGED <<published, answering, rotations, known, bearer, refresher>>

\* Who asked goes on: the loop waits for its ticker, a request looks again or fails.
Ends(f, ok) ==
  /\ bearer' = IF f = Loop THEN bearer
               ELSE [bearer EXCEPT ![f] = IF ok THEN [@ EXCEPT !.at = "again"] ELSE Nobody]
  /\ UNCHANGED refresher

BugStored(f) == known \cup fetch[f].keys

\* A fetched set takes the place of the set there was.
Stored(f) == fetch[f].keys

\* fetchKeys after the exchange: the set is replaced by whatever was fetched, even
\* when a later fetch has replaced it already; a set without a key is an error.
fetchKeys(f) ==
  LET ok == fetch[f].at = "got" /\ fetch[f].keys # {}
  IN /\ fetch[f].at \in {"got", "failed"}
     /\ known' = IF ok THEN Stored(f) ELSE known
     /\ fetch' = [fetch EXCEPT ![f] = NoFetch] /\ Ends(f, ok)
     /\ UNCHANGED <<published, answering, rotations>>

\* getKey's second look: the key may be gone again.
LookAgain(b) ==
  /\ bearer[b].at = "again" /\ bearer' = [bearer EXCEPT ![b] = Nobody]
  /\ UNCHANGED <<published, answering, rotations, known, fetch, refresher>>

CloseKeys ==
  /\ refresher = "on" /\ refresher' = "closed"
  /\ UNCHANGED <<published, answering, rotations, known, fetch, bearer>>

\* The endpoint's side.
Rotate ==
  /\ rotations < MaxRotations /\ rotations' = rotations + 1
  /\ \/ published' \in SUBSET Kids \ {published} /\ UNCHANGED answering
     \/ answering' = ~answering /\ UNCHANGED published
  /\ UNCHANGED <<known, fetch, bearer, refresher>>

Fetching == Refresh \/ \E f \in Fetchers : Reply(f) \/ fetchKeys(f)

KeyNext ==
  \/ \E b \in Bearers : (\E k \in Kids : Present(b, k)) \/ LookAgain(b)
  \/ Fetching \/ CloseKeys \/ Rotate

-----------------------------------------------------------------------------
\* Whatever order fetches end in, an endpoint that comes back and publishes some
\* key has its keys, and only those, known to a proxy that has not been closed.
KeysSettle ==
  (<>[](answering /\ published # {} /\ refresher # "closed")) => <>[](known = published)
=============================================================================
