----------------------------- MODULE MCAdmission -----------------------------
(* What decides whether a request comes in, on small instances: the rate     *)
(* limiter, the API-key gate, the JWT signing keys, the credentials, and the *)
(* front half of the chat handler.  A behaviour is about one of them.        *)
EXTENDS RateLimit, Sequences, SequencesExt

CONSTANTS Visitors, Calls, Keys, ProxyKey, NoToken, KeyFiles, BurstValues, WindowValues, AuthClock,
          MaxReloads, MaxCalls, Kids, Bearers, MaxRotations, FromEnv, MaxChanges,
          Requests, Routes, Examples, MaxInjection, MaxBytes, Turns

ASSUME AdmissionAssumption == Turns \in Nat
ASSUME GateAssumption ==
  IsFiniteSet(Calls) /\ BurstValues \subseteq Nat \ {0} /\ WindowValues \subseteq Nat /\ AuthClock \in Nat

VARIABLES
  focus,
  hour, limiting, fails, window, failures, creds, slots, visit, calls, reloads, accepted, bar, attempts,
  published, answering, rotations, known, fetch, bearer, refresher,
  stored, reachable, changes, cache, at, next, live, store,
  cfg, asked, stage, msgs, refusal, before, hits, embedded, served, seen, plan

Names == <<"NEXUS_FRONTIER_API_KEY", "NEXUS_PROXY_API_KEY">>

\* Messages a client sends: role, form of the content, words, length, JSON, marks.
Msg(role, says, size, json, marks) ==
  [from |-> 0, role |-> role, text |-> says # "empty", says |-> says, size |-> size, json |-> json,
   suspect |-> marks # {}, marks |-> marks \ {"override"}, own |-> TRUE, added |-> {}]

Shapes ==
  {Msg("system", "s", 1, {}, {}), Msg("system", "s", 1, {}, {"override"}), Msg("system", "empty", 0, {}, {}),
   Msg("system", "s", 1, {}, {"override", "begin"}), Msg("system", "s", 1, {}, {"begin", "end"}),
   Msg("user", "p", 1, {}, {}), Msg("user", "p", 1, {"fenced", "unfenced"}, {}),
   Msg("user", "q", 3, {"nested"}, {"override"}), Msg("user", "empty", 0, {}, {}),
   Msg("assistant", "a", 1, {"unfenced"}, {}), Msg("assistant", "empty", 0, {}, {})}

Numbered(talk) == [i \in DOMAIN talk |-> [talk[i] EXCEPT !.from = i]]
Chat(talk, model) == [kind |-> "chat", talk |-> Numbered(talk), model |-> model]
Plain == Msg("user", "p", 1, {}, {})

\* One client sends anything, the others a short prompt.
Asks ==
  {Chat(talk, "none") : talk \in SeqOf(Shapes, 2)}
  \union {Chat(<<m, Plain, n>>, "none") : m \in {x \in Shapes : x.role = "system"},
                                                 n \in {x \in Shapes : x.role # "system"}}
  \union {Chat(<<Plain>>, model) : model \in {"alias", "dangling", "provider", "unknown"}}
  \union {[kind |-> k, talk |-> <<>>, model |-> "none"] :
             k \in {"method", "huge", "broken", "not_json", "no_messages"}}

Mixed ==
  {[r \in Requests |-> IF r = CHOOSE x \in Requests : TRUE THEN q ELSE Chat(<<Plain>>, "none")] : q \in Asks}

\* What a retrieval may find: one long example, or several short ones.
Finds == {<<3>>, <<1, 1, 1>>}

Configs ==
  {[mode |-> mode, meta |-> meta, unfenced |-> all, topK |-> all, strict |-> meta,
    scan |-> IF all THEN {"system", "user"} ELSE {"system"}] :
      mode \in {"off", "warn", "strict"}, meta \in BOOLEAN, all \in BOOLEAN}

I == INSTANCE ChatIntake WITH Traffic <- Mixed, Settings <- Configs
A == INSTANCE AuthGate
J == INSTANCE KeySet
S == INSTANCE SecretVault

authVars == <<hour, limiting, fails, window, failures, creds, slots, visit, calls, reloads, accepted, bar, attempts>>
keyVars == <<published, answering, rotations, known, fetch, bearer, refresher>>
vaultVars == <<stored, reachable, changes, cache, at, next, live, store>>
intakeVars == <<cfg, asked, stage, msgs, refusal, before, hits, embedded, served, seen, plan>>
allVars == <<focus, rateVars, authVars, keyVars, vaultVars, intakeVars>>

\* The parts a behaviour is not about have one initial state.
AdmissionInit ==
  /\ focus \in {"rate", "auth", "jwt", "vault", "chat"}
  /\ RateInit
  /\ focus # "rate" => rpm = (CHOOSE r \in Rates \ {0} : TRUE) /\ burst = (CHOOSE b \in Bursts : TRUE)
  /\ A!AuthInit
  /\ focus # "auth" => fails = (CHOOSE b \in BurstValues : TRUE) /\ window = (CHOOSE w \in WindowValues : TRUE)
                      /\ creds = (CHOOSE f \in KeyFiles : TRUE)
  /\ J!KeyInit
  /\ focus # "jwt" => published = Kids
  /\ S!VaultInit
  /\ focus # "vault" => stored = S!Blank
  /\ I!IntakeInit
  /\ focus # "chat" => cfg = (CHOOSE c \in Configs : TRUE) /\ asked = (CHOOSE f \in Mixed : TRUE)

AdmissionNext ==
  /\ UNCHANGED focus
  /\ \/ focus = "rate" /\ RateNext /\ UNCHANGED <<authVars, keyVars, vaultVars, intakeVars>>
     \/ focus = "auth" /\ A!AuthNext /\ UNCHANGED <<rateVars, keyVars, vaultVars, intakeVars>>
     \/ focus = "jwt" /\ J!KeyNext /\ UNCHANGED <<rateVars, authVars, vaultVars, intakeVars>>
     \/ focus = "vault" /\ S!VaultNext /\ UNCHANGED <<rateVars, authVars, keyVars, intakeVars>>
     \/ focus = "chat" /\ I!IntakeNext /\ UNCHANGED <<rateVars, authVars, keyVars, vaultVars>>

\* The refresh loop's ticker fires, every exchange with the JWKS endpoint ends (the
\* client has a timeout) and whoever asked takes its result.
AdmissionSpec ==
  /\ AdmissionInit /\ [][AdmissionNext]_allVars
  /\ WF_keyVars(focus = "jwt" /\ J!Refresh)
  /\ \A f \in J!Fetchers : WF_keyVars(focus = "jwt" /\ (J!Reply(f) \/ J!fetchKeys(f)))

\* Nobody is locked out, or let in again, at another moment than its failures say, and
\* whoever gets in has a key that was valid while the request was being looked at
\* (ratelimit/auth.go, auth/auth.go).
AuthSound == A!LockoutExact /\ A!CredentialsHeeded

\* The keys of an endpoint that answers again are known in the end.
KeysSettle == focus = "jwt" => J!KeysSettle

\* A failed poll never blanks a credential in use.
NeverBlanked == [][S!NeverBlanked]_vaultVars

\* What goes on is the client's conversation, and a prompt served from the embedding
\* cache is reported so (handlers/chat.go, middleware/).
IntakeSound == I!ConversationKept /\ I!HitsReported

\* Nothing of it is lost, whatever its form.
PartsKept == I!PartsKept
=============================================================================
