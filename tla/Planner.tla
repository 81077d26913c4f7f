------------------------------ MODULE Planner ------------------------------
(***************************************************************************)
(* The route planner (src/internal/router/planner.go) with the SLM client  *)
(* (slm.go), the decision cache (slm_cache.go) and the confidence store    *)
(* (confidence.go, confidence_sqlite.go).  Several requests plan at once:  *)
(* what a plan read before it asked the SLM may have changed when the      *)
(* answer comes, and two plans may store the same text.                    *)
(***************************************************************************)
EXTENDS Integers, Sequences, FiniteSets, SequencesExt

CONSTANTS
  Planners,     \* requests being planned at the same time
  Texts,        \* routing texts
  Similar,      \* pairs of texts whose embeddings reach the semantic threshold
  Category,     \* Categorize: the category of each text
  Rule,         \* what the fast passes say of each text
  Replies,      \* what the SLM may answer
  MaxEntries,   \* NEXUS_SLMCACHE_MAX_ENTRIES
  TTL,          \* NEXUS_SLMCACHE_TTL
  CleanupAbove, \* NEXUS_SLMCACHE_STALE_CLEANUP_THRESHOLD
  Outcomes,     \* what the confidence store may hold at start: rows, newest first
  MinSamples,   \* NEXUS_ROUTING_CONFIDENCE_MIN_SAMPLES
  Threshold,    \* NEXUS_SLM_CONFIDENCE_THRESHOLD, a level; 0 disables it
  CooldownAfter,\* embedFailureCooldownThreshold
  MaxClock, MaxSets, MaxScores

Routes == {"local", "fusion", "frontier"}
Categories == {Category[t] : t \in Texts}

VARIABLES
  now,
  entries,   \* SLMCache.entries: text -> route, stamp, whether it has an embedding
  expiry,    \* SLMCache.expiry: texts in the order they were stored
  fails,     \* failed embeddings counted towards the cooldown
  cooling,   \* is the embedder left alone?
  cleanup,   \* has a Get started a goroutine that will evict?
  scores,    \* the judged local answers of each category in the window
  asking,    \* per planner: "idle", or the text it asked the SLM about
  held,      \* the confidence level it read before it asked
  last,      \* the decision the last step made, if it made one
  said,      \* decisions of the last TTL an SLM gave and the planner accepted
  sets       \* entries stored so far

vars == <<now, entries, expiry, fails, cooling, cleanup, scores, asking, held, last, said, sets>>
cacheVars == <<entries, expiry, fails, cooling, cleanup, said, sets>>

Idle == "idle"

Decision(route, source, text, conf, hit) ==
  [route |-> route, source |-> source, text |-> text, conf |-> conf, hit |-> hit]

NoDecision == Decision("none", "none", Idle, 1, FALSE)

-----------------------------------------------------------------------------
\* LocalConfidence and the local half of ComparativeConfidence, as levels: 0 poor,
\* 1 neutral (too few samples, or the lookup failed), 2 good.
LocalConfidence(c, failed) ==
  LET n == scores[c].good + scores[c].bad IN
  IF failed \/ n < MinSamples THEN 1
  ELSE IF scores[c].good > scores[c].bad THEN 2 ELSE 0

\* Any score below the threshold, neutral ones too, is taken for local.
Overridden(route, conf) == Threshold > 0 /\ route \in {"local", "fusion"} /\ conf < Threshold

\* DSL: fusion patterns first, every other family means local.
DSL(t) == IF Rule[t] = "fusion" THEN "fusion" ELSE "local"

Fresh(t) == t \in DOMAIN entries /\ now - entries[t].stamp <= TTL
Stale == {t \in DOMAIN entries : ~Fresh(t)}

\* The stages before the SLM: guardrail, budget, promoted patterns, DSL.
EarlyStages(load, t) ==
  IF load = "over guardrail" THEN <<"frontier", "guardrail">>
  ELSE IF load = "over budget" THEN <<"local", "budget-downtier">>
  ELSE IF Rule[t] \in {"promoted-local", "promoted-fusion"}
       THEN <<IF Rule[t] = "promoted-local" THEN "local" ELSE "fusion", "dsl-promoted">>
  ELSE IF Rule[t] # "none" THEN <<DSL(t), "dsl">>
  ELSE <<>>

\* Embed: nothing is asked while the embedder is left alone; a failure counts, and
\* the last of CooldownAfter that came close to the one before starts a cooldown.
Embed(ok) ==
  IF cooling THEN ~ok /\ UNCHANGED <<fails, cooling>>
  ELSE IF ok THEN UNCHANGED <<fails, cooling>>
  ELSE \/ /\ fails + 1 >= CooldownAfter /\ cooling' = TRUE /\ fails' = 0
       \/ /\ fails' = IF fails + 1 < CooldownAfter THEN fails + 1 ELSE fails
          /\ UNCHANGED cooling

\* getSemantic, the scan: the best of the live entries that have an embedding.
Semantic(t) ==
  {k \in DOMAIN entries : Fresh(k) /\ entries[k].emb /\ (k = t \/ <<t, k>> \in Similar)}

\* Plan, on a hit: the confidence is read again before the route is believed.
Serve(t, k, failed) ==
  LET conf == LocalConfidence(Category[t], failed) IN
  last' = IF Overridden(entries[k].route, conf)
          THEN Decision("frontier", "slm-escalation", t, conf, TRUE)
          ELSE Decision(entries[k].route, "slm", t, conf, TRUE)

\* Get and Plan: a fresh entry for the text, else one for a similar text, else the
\* SLM is asked.  A Get that misses may start the goroutine that evicts.
PlanSLM(p, t) ==
  \E failed, ok \in BOOLEAN :
    IF Fresh(t)
    THEN /\ ok /\ Serve(t, t, failed)
         /\ UNCHANGED <<asking, held, fails, cooling, cleanup>>
    ELSE /\ Embed(ok)
         /\ cleanup' = (cleanup \/ Cardinality(Stale) > CleanupAbove)
         /\ \/ \E k \in Semantic(t) : ok /\ Serve(t, k, failed) /\ UNCHANGED <<asking, held>>
            \/ /\ ok => Semantic(t) = {}
               /\ asking' = [asking EXCEPT ![p] = t]
               /\ held' = [held EXCEPT ![p] = LocalConfidence(Category[t], failed)]
               /\ last' = NoDecision

Plan(p, t, load) ==
  /\ asking[p] = Idle
  /\ LET early == EarlyStages(load, t) IN
     IF early # <<>>
     THEN /\ last' = Decision(early[1], early[2], Idle, 1, FALSE)
          /\ UNCHANGED <<asking, held, fails, cooling, cleanup>>
     ELSE PlanSLM(p, t)
  /\ UNCHANGED <<now, entries, expiry, scores, said, sets>>
-----------------------------------------------------------------------------
\* sortExpiry: the names at the places of I by stamp, those without an entry first and
\* equal ones as they were, which is what sort.Slice does with a short list.
Stamp(e, k) == IF k \in DOMAIN e THEN e[k].stamp ELSE 0 - TTL - 1

Earlier(e, x, j, i) ==
  \/ Stamp(e, x[j]) < Stamp(e, x[i])
  \/ Stamp(e, x[j]) = Stamp(e, x[i]) /\ j < i

SortedByStamp(e, x, I) ==
  [r \in 1..Cardinality(I) |->
     x[CHOOSE i \in I : Cardinality({j \in I : Earlier(e, x, j, i)}) = r - 1]]

\* Where expiry names an entry that is not past its time.
Live(e, x) == {i \in 1..Len(x) : x[i] \in DOMAIN e /\ now - e[x[i]].stamp <= TTL}

RestrictTo(e, keys) == [k \in DOMAIN e \cap keys |-> e[k]]

\* evictExpired: what is past its time leaves, and so do the names of texts that
\* are not there any more; a text stored twice keeps both of its places.
evictExpired(e, x) ==
  LET keep == SortedByStamp(e, x, Live(e, x))
  IN [e |-> RestrictTo(e, ToSet(keep)), x |-> keep]

evictLru(c) ==
  IF c.x = <<>> THEN c
  ELSE [e |-> RestrictTo(c.e, DOMAIN c.e \ {Head(c.x)}), x |-> Tail(c.x)]

\* The oldest name is dropped without looking whether it still stands for an entry.
BugMakeRoom(e, x) ==
  IF Cardinality(DOMAIN e) < MaxEntries THEN [e |-> e, x |-> x] ELSE evictLru([e |-> e, x |-> x])

MakeRoom(e, x) ==
  IF Cardinality(DOMAIN e) < MaxEntries THEN [e |-> e, x |-> x]
  ELSE LET c == evictExpired(e, x) IN
       IF Cardinality(DOMAIN c.e) < MaxEntries THEN c ELSE evictLru(c)

Store(c, k, entry) ==
  [e |-> [m \in DOMAIN c.e \cup {k} |-> IF m = k THEN entry ELSE c.e[m]], x |-> Append(c.x, k)]

\* Warm: the newest outcomes of the confidence store are stored in turn, each under
\* the name of its category, without an embedding, unless they are too old.
Warmed(c, r) ==
  IF r.age > TTL THEN c
  ELSE Store(MakeRoom(c.e, c.x), r.category, [route |-> r.route, stamp |-> 0 - r.age, emb |-> FALSE])

Warm(rows) ==
  LET warm[i \in 0..Len(rows)] ==
        IF i = 0 THEN [e |-> <<>>, x |-> <<>>] ELSE Warmed(warm[i - 1], rows[i])
  IN warm[Len(rows)]

Init ==
  /\ now = 0 /\ fails = 0 /\ cooling = FALSE /\ cleanup = FALSE
  /\ \E rows \in Outcomes :
       LET c == Warm(rows) IN entries = c.e /\ expiry = SortedByStamp(c.e, c.x, 1..Len(c.x))
  /\ scores = [c \in Categories |-> [good |-> 0, bad |-> 0]]
  /\ asking = [p \in Planners |-> Idle] /\ held = [p \in Planners |-> 1]
  /\ last = NoDecision /\ said = {} /\ sets = 0

\* Set and SetEmbedding: an entry without an embedding is stored all the same.
Set(t, route, emb) ==
  LET c == Store(MakeRoom(entries, expiry), t, [route |-> route, stamp |-> now, emb |-> emb])
  IN entries' = c.e /\ expiry' = c.x

\* decide and parseSLMDecision: a route name that is not known means frontier; no
\* answer, a bad status, an empty or unreadable one is an error.
Answer(reply) ==
  IF reply \in {"no decision", "down"} THEN "error"
  ELSE IF reply = "other route" THEN "frontier" ELSE reply

\* Plan, once the SLM has answered: only a decision that stands is stored.
Accept(p, t, route) ==
  IF Overridden(route, held[p])
  THEN /\ last' = Decision("frontier", "slm-escalation", t, held[p], FALSE)
       /\ UNCHANGED <<entries, expiry, fails, cooling, said, sets>>
  ELSE /\ sets < MaxSets /\ sets' = sets + 1
       /\ \E ok \in BOOLEAN : Embed(ok) /\ Set(t, route, ok)
       /\ last' = Decision(route, "slm", t, held[p], FALSE)
       /\ said' = said \cup {[text |-> t, route |-> route, at |-> now]}

SLMReturns(p, reply) ==
  /\ asking[p] # Idle /\ asking' = [asking EXCEPT ![p] = Idle]
  /\ IF Answer(reply) = "error"
     THEN /\ last' = Decision("frontier", "slm-error", asking[p], held[p], FALSE)
          /\ UNCHANGED <<entries, expiry, fails, cooling, said, sets>>
     ELSE Accept(p, asking[p], Answer(reply))
  /\ held' = [held EXCEPT ![p] = 1]
  /\ UNCHANGED <<now, cleanup, scores>>

\* The goroutine a Get started: EvictExpired.
EvictExpired ==
  /\ cleanup /\ cleanup' = FALSE
  /\ LET c == evictExpired(entries, expiry) IN entries' = c.e /\ expiry' = c.x
  /\ UNCHANGED <<now, fails, cooling, scores, asking, held, said, sets>> /\ last' = NoDecision

\* RecordOutcome: a judged local answer; cleanupLocked and the window forget them.
RecordOutcome(c, good) ==
  /\ scores[c].good + scores[c].bad < MaxScores
  /\ scores' = [scores EXCEPT ![c] = IF good THEN [@ EXCEPT !.good = @ + 1]
                                     ELSE [@ EXCEPT !.bad = @ + 1]]
  /\ UNCHANGED <<now, cacheVars, asking, held>> /\ last' = NoDecision

WindowPasses(c) ==
  /\ scores[c].good + scores[c].bad > 0
  /\ scores' = [scores EXCEPT ![c] = [good |-> 0, bad |-> 0]]
  /\ UNCHANGED <<now, cacheVars, asking, held>> /\ last' = NoDecision

Tick ==
  /\ now < MaxClock /\ now' = now + 1
  /\ said' = {d \in said : now' - d.at <= TTL} /\ cooling' \in {cooling, FALSE}
  /\ last' = NoDecision
  /\ UNCHANGED <<entries, expiry, fails, cleanup, scores, asking, held, sets>>

Next ==
  \/ \E p \in Planners :
       \/ \E t \in Texts, load \in {"over guardrail", "over budget", "within both"} : Plan(p, t, load)
       \/ \E reply \in Replies : SLMReturns(p, reply)
  \/ \E c \in Categories :
       \/ \E good \in BOOLEAN : RecordOutcome(c, good)
       \/ WindowPasses(c)
  \/ EvictExpired \/ Tick
-----------------------------------------------------------------------------
\* A route that comes out of the cache was given by the SLM, within the last TTL, for
\* the same text or for one that is similar, and stood when it was given; an answer
\* that was overridden or an error never comes back from the cache.
HitsEarned ==
  last.hit /\ last.source = "slm" =>
    \E d \in said : /\ d.text = last.text \/ <<last.text, d.text>> \in Similar
                    /\ d.route = last.route /\ now - d.at <= TTL

\* Whatever changed since the answer was stored or asked for, no decision of the SLM
\* stage keeps work away from the frontier on a confidence below the threshold; a
\* decision taken from the cache goes by the scores of the moment it is taken.
ConfidenceHeeded ==
  last.source = "slm" /\ last.route \in {"local", "fusion"} =>
    /\ last.conf >= Threshold
    /\ last.hit => last.conf \in {LocalConfidence(Category[last.text], FALSE), 1}

\* The cache never holds more than its limit, although a text stored twice leaves two
\* names in the expiry list and one of them may outlive the entry; and every entry
\* has a name there, so that it can be evicted.
CacheBounded ==
  /\ Cardinality(DOMAIN entries) <= MaxEntries
  /\ DOMAIN entries \subseteq ToSet(expiry)
=============================================================================
