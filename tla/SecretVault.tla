----------------------------- MODULE SecretVault -----------------------------
(* internal/secrets: credentials resolved from a vault at boot and again by  *)
(* a refresh loop.  A pass asks for the names one after the other, and the   *)
(* vault may change or stop answering in between.                            *)
EXTENDS Naturals, Sequences

CONSTANTS
  Names,          \* a sequence: secretNames
  FromEnv,        \* the names that also have a value in the environment
  MaxChanges      \* bound: changes made to the vault

Absent == 0       \* no such secret, and the empty credential
EnvValue == 100   \* what os.Getenv gives for the names that have a value there
Rest == 0         \* no pass under way

VARIABLES
  stored,         \* the vault: name -> value
  reachable,      \* whether it answers
  changes,
  cache,          \* VaultResolver.cache, AWSSMSResolver.cache
  at,             \* the name resolveAndSwap is at
  next,           \* its map so far
  live,           \* SecretStore.values
  store           \* "boot", "fatal" (main gives up), "on", "closed"

vaultVars == <<stored, reachable, changes, cache, at, next, live, store>>

Name == {Names[i] : i \in 1..Len(Names)}
Blank == [n \in Name |-> Absent]
Getenv(n) == IF n \in FromEnv THEN EnvValue ELSE Absent

\* NewSecretStore; main populates it before anything else.
VaultInit ==
  /\ stored \in [Name -> {Absent, 1}] /\ reachable = TRUE /\ changes = 0
  /\ cache = Blank /\ at = 1 /\ next = Blank /\ live = Blank /\ store = "boot"

\* What Resolve returns once the vault has answered: a value that was read once is
\* never read again, a missing one is looked up in the environment and not cached.
Answer(n) ==
  IF cache[n] # Absent THEN cache[n] ELSE IF stored[n] # Absent THEN stored[n] ELSE Getenv(n)

\* resolveAndSwap, one name.
Resolve ==
  /\ at \in 1..Len(Names) /\ store # "closed"
  /\ LET n == Names[at]
     IN /\ cache[n] # Absent \/ reachable
        /\ next' = [next EXCEPT ![n] = Answer(n)]
        /\ cache' = [cache EXCEPT ![n] = IF @ # Absent THEN @ ELSE stored[n]]
  /\ at' = at + 1
  /\ UNCHANGED <<stored, reachable, changes, live, store>>

\* The end of a pass: the whole map is swapped in.
Swap ==
  /\ at = Len(Names) + 1 /\ at' = Rest /\ live' = next /\ next' = Blank
  /\ store' = IF store = "boot" THEN "on" ELSE store
  /\ UNCHANGED <<stored, reachable, changes, cache>>

BugFail ==
  /\ at \in 1..Len(Names) /\ cache[Names[at]] = Absent /\ ~reachable
  /\ at' = Rest /\ next' = Blank /\ live' = next
  /\ store' = IF store = "boot" THEN "fatal" ELSE store
  /\ UNCHANGED <<stored, reachable, changes, cache>>

\* One name fails: the pass ends, and what it has resolved is thrown away.
Fail ==
  /\ at \in 1..Len(Names) /\ cache[Names[at]] = Absent /\ ~reachable
  /\ at' = Rest /\ next' = Blank
  /\ store' = IF store = "boot" THEN "fatal" ELSE store
  /\ UNCHANGED <<stored, reachable, changes, cache, live>>

\* StartRefresh's ticker, and Close.
RefreshSecrets ==
  /\ store = "on" /\ at = Rest /\ at' = 1
  /\ UNCHANGED <<stored, reachable, changes, cache, next, live, store>>

CloseStore ==
  /\ store = "on" /\ at = Rest /\ store' = "closed"
  /\ UNCHANGED <<stored, reachable, changes, cache, at, next, live>>

\* The vault's side: a secret is added, rotated or deleted; the vault goes and comes.
VaultChanges ==
  /\ changes < MaxChanges /\ changes' = changes + 1
  /\ \/ UNCHANGED reachable
        /\ \E n \in Name : \E v \in {Absent, stored[n] + 1} :
             stored[n] # v /\ stored' = [stored EXCEPT ![n] = v]
     \/ reachable' = ~reachable /\ UNCHANGED stored
  /\ UNCHANGED <<cache, at, next, live, store>>

Refreshing == Resolve \/ Swap \/ Fail \/ RefreshSecrets
VaultNext == Refreshing \/ CloseStore \/ VaultChanges

-----------------------------------------------------------------------------
\* A failed poll never blanks a credential in use: once a name has a value it has
\* one for good, whatever is deleted or fails in the middle of a pass.
NeverBlanked == \A n \in Name : live[n] # Absent => live'[n] # Absent

\* A rotated credential takes effect without a restart.
\* The code does not keep this: main copies the values once (main.go:107-121).
SecretsSettle ==
  (<>[](reachable /\ store = "on")) => <>[](\A n \in Name : stored[n] # Absent => live[n] = stored[n])
=============================================================================
