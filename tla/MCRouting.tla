------------------------------ MODULE MCRouting ------------------------------
(* The planner with its cache, the pattern promoter and the provider       *)
(* selector on small instances; a behaviour is about one of them.          *)
EXTENDS Planner, TLC

CONSTANTS Prompts, Grams, MinCount, Share, MaxHistory, MaxRecords,
          Ranked, Stats, MinSampleCount, MaxErrorRate, TailWeight

VARIABLES focus, decisions, promoted, table, recompute, copied, behind, ever,
          stats, healthy, picked

P == INSTANCE PatternPromoter
S == INSTANCE ProviderSelector

ASSUME RoutingAssumption ==
  /\ IsFiniteSet(Prompts) /\ {Share, MinCount, MaxHistory, MaxRecords} \subseteq Nat
  /\ Ranked \subseteq Nat \ {0} /\ TailWeight \in Nat
  /\ Stats \subseteq [samples : Nat, errors : Nat, p50 : Nat, p95 : Nat, cost : Nat]
  /\ Threshold \in Nat /\ TTL \in Nat

\* The cache has room for an entry, and what it starts from are rows of the store.
ASSUME CacheAssumption ==
  /\ MaxEntries \in Nat \ {0}
  /\ Outcomes \subseteq Seq([category : STRING, route : Routes, age : Nat])

promoterVars == <<decisions, promoted, table, recompute, copied, behind, ever>>
selectorVars == <<stats, healthy, picked>>
allVars == <<vars, focus, promoterVars, selectorVars>>

\* Two texts the embedder finds similar, one for a DSL rule and one promoted.
Sim == {<<"t1", "t2">>, <<"t2", "t1">>}
Cat == [t \in Texts |-> "other"]
Rules == "t1" :> "none" @@ "t2" :> "none" @@ "t4" :> "fusion" @@ "t5" :> "promoted-local"

\* Outcomes of three categories, one more than the cache takes, the last one too old.
Row(c, r, a) == [category |-> c, route |-> r, age |-> a]
Rows == {<<>>, <<Row("other", "local", 0), Row("other", "frontier", 1),
                 Row("sql", "local", 1), Row("go", "local", 1), Row("sql", "local", 2)>>}

GramsOf == "p1" :> {"write", "write tests"} @@ "p2" :> {"write"}
SomeStats == [samples : {0, 1}, errors : {0, 1}, p50 : {0, 1, 2}, p95 : {1, 3}, cost : {0, 1}]
NoStats == [samples |-> 0, errors |-> 0, p50 |-> 0, p95 |-> 1, cost |-> 0]

Sym == Permutations(Planners)

RoutingInit ==
  /\ focus \in {"plan", "promote", "select"}
  /\ Init /\ (focus # "plan" => entries = <<>>)
  /\ P!PromoterInit
  /\ S!SelectorInit /\ (focus # "select" => stats = [p \in Ranked |-> NoStats])

RoutingNext ==
  /\ UNCHANGED focus
  /\ \/ focus = "plan" /\ Next /\ UNCHANGED <<promoterVars, selectorVars>>
     \/ focus = "promote" /\ P!PromoterNext /\ UNCHANGED <<vars, selectorVars>>
     \/ focus = "select" /\ S!SelectorNext /\ UNCHANGED <<vars, promoterVars>>

RoutingSpec == RoutingInit /\ [][RoutingNext]_allVars

\* Promoted patterns were earned by recorded decisions, across crashes and restarts, and
\* the provider selector never prefers a dominated or unhealthy provider
\* (router/promoter.go, router/selector.go).
ChoicesEarned == P!PatternsEarned /\ S!PickUndominated

\* Decisions served from the cache were earned and heed the confidence of their category,
\* and the cache stays within its bound (router/planner.go, router/slm_cache.go).
PlansSound == HitsEarned /\ ConfidenceHeeded /\ CacheBounded
=============================================================================
