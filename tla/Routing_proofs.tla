--------------------------- MODULE Routing_proofs ---------------------------
(***************************************************************************)
(* Proofs about the pattern promoter, the provider selector and the route  *)
(* planner, for any prompts, providers, texts and bounds.  A decision in   *)
(* the promoter's history stands for an occasion of its own, so that what  *)
(* is counted there never exceeds what was recorded; the selector's score  *)
(* is monotone in each statistic; an entry of the planner's cache that a   *)
(* text can hit has an answer of the SLM behind it; the cache, warmed from *)
(* any rows, never outgrows its cap and can evict all it holds.            *)
(***************************************************************************)
EXTENDS MCRouting, FiniteSetTheorems, FunctionTheorems, SequenceTheorems, WellFoundedInduction,
        TLAPS

\* A decision of the promoter's history, and the histories.
Sent == Prompts \X P!PromoterRoutes

\* Each place of a history is given a number of its own among the decisions that sent
\* the same prompt down the same route.
Numbered(h, k, counts) ==
  /\ k \in [1..Len(h) -> 1..MaxRecords]
  /\ \A i \in 1..Len(h) : k[i] <= counts[h[i]]
  /\ \A i, j \in 1..Len(h) : h[i] = h[j] /\ k[i] = k[j] => i = j

Witnessed(h, counts) ==
  h \in Seq(Sent) /\ \E k \in [1..Len(h) -> 1..MaxRecords] : Numbered(h, k, counts)

Patterns == [gram : P!AllGrams, route : {"local", "fusion"}]

\* A pattern has at least its share of the smallest sample behind it.
Earned(x) == Cardinality(P!Occasions(x.gram, x.route)) * 100 >= Share * MinCount

PromoterInv ==
  /\ ever \in [Sent -> Nat]
  /\ Witnessed(decisions, ever) /\ Witnessed(copied, ever)
  /\ promoted \subseteq Patterns /\ table \subseteq Patterns
  /\ \A x \in promoted \cup table : Earned(x)
  /\ recompute # "persisting" /\ ~behind => table = promoted

SelectorInv == stats \in [Ranked -> Stats] /\ healthy \subseteq Ranked /\ S!PickUndominated

\* Levels of confidence.
Levels == {0, 1, 2}

\* What a text can hit: entries under a text of its own, or with an embedding.
Hittable(k) == k \in Texts \/ entries[k].emb

EntriesEarned ==
  \A k \in DOMAIN entries : Hittable(k) =>
    /\ entries[k].stamp \in Nat
    /\ now - entries[k].stamp <= TTL =>
         \E d \in said : d.text = k /\ d.route = entries[k].route /\ d.at = entries[k].stamp

PlannerInv ==
  /\ now \in Nat /\ held \in [Planners -> Levels]
  /\ EntriesEarned /\ HitsEarned /\ ConfidenceHeeded

\* What is read back at the start is kept under the names of categories: none of them is
\* one of the texts, and none of the entries has an embedding.
WarmApart ==
  \A rows \in Outcomes : \A k \in DOMAIN Warm(rows).e : k \notin Texts /\ ~Warm(rows).e[k].emb

-----------------------------------------------------------------------------
\* A set of natural numbers has a least element.
LEMMA LeastExists ==
  ASSUME NEW T \in SUBSET Nat, T # {}
  PROVE  \E x \in T : \A y \in T : x <= y
<1>1. PICK x \in T : \A y \in T : ~ (<<y, x>> \in OpToRel(<, Nat))
  BY WFMin, NatLessThanWellFounded
<1>2. \A y \in T : ~ (y < x)
  BY <1>1 DEF OpToRel
<1> QED
  BY <1>2

\* Products of natural numbers grow with each factor.
LEMMA TimesMonotone ==
  ASSUME NEW a \in Nat, NEW b \in Nat, NEW c \in Nat, a <= b
  PROVE  a * c \in Nat /\ b * c \in Nat /\ a * c <= b * c /\ (a < b /\ c > 0 => a * c < b * c)
<1>1. PICK d \in Nat : b = a + d
  <2>1. b - a \in Nat /\ b = a + (b - a)
    OBVIOUS
  <2> QED
    BY <2>1
<1>2. b * c = a * c + d * c
  BY <1>1
<1>3. a * c \in Nat /\ d * c \in Nat /\ (d > 0 /\ c > 0 => d * c > 0)
  OBVIOUS
<1> QED
  BY <1>1, <1>2, <1>3

-----------------------------------------------------------------------------
\* Pattern promoter.  It counts as the theorems about finite sets do.
LEMMA SameCount == \A X : P!Cardinality(X) = Cardinality(X)
  BY Zenon DEF P!Cardinality, Cardinality

\* The occasions of a pattern are finitely many.
LEMMA OccasionsFinite ==
  ASSUME NEW g, NEW route
  PROVE  /\ IsFiniteSet(Prompts \X (1..MaxRecords))
         /\ IsFiniteSet(P!Occasions(g, route)) /\ Cardinality(P!Occasions(g, route)) \in Nat
<1>1. IsFiniteSet(1..MaxRecords)
  BY RoutingAssumption, FS_Interval
<1>2. IsFiniteSet(Prompts \X (1..MaxRecords))
  BY <1>1, RoutingAssumption, FS_Product
<1>3. P!Occasions(g, route) \in SUBSET (Prompts \X (1..MaxRecords))
  BY DEF P!Occasions
<1>4. IsFiniteSet(P!Occasions(g, route))
  BY <1>2, <1>3, FS_Subset
<1> QED
  BY <1>2, <1>4, FS_CardinalityType

\* A history holds no more decisions for a pattern than were recorded.
LEMMA CountBacked ==
  ASSUME NEW h, Witnessed(h, ever), NEW g, NEW route
  PROVE  P!Count(h, g, {route}) <= Cardinality(P!Occasions(g, route))
<1> DEFINE D == {i \in 1..Len(h) : g \in Grams[h[i][1]] /\ h[i][2] \in {route}}
<1>1. PICK k \in [1..Len(h) -> 1..MaxRecords] : Numbered(h, k, ever)
  BY DEF Witnessed
<1> DEFINE f == [i \in D |-> <<h[i][1], k[i]>>]
<1>2. ASSUME NEW i \in D
      PROVE  f[i] \in P!Occasions(g, route) /\ h[i] = <<h[i][1], route>>
  <2>1. h[i] \in Sent
    BY DEF Witnessed
  <2>2. h[i] = <<h[i][1], route>> /\ h[i][1] \in Prompts
    BY <2>1 DEF Sent
  <2>3. k[i] \in 1..MaxRecords /\ k[i] <= ever[h[i]]
    BY <1>1 DEF Numbered
  <2> QED
    BY <2>2, <2>3 DEF P!Occasions
<1>3. ASSUME NEW i \in D, NEW j \in D, f[i] = f[j]
      PROVE  i = j
  <2>1. h[i] = h[j] /\ k[i] = k[j]
    BY <1>2, <1>3
  <2> QED
    BY <1>1, <2>1 DEF Numbered
<1>4. f \in Injection(D, P!Occasions(g, route))
  BY <1>2, <1>3 DEF Injection, IsInjective
<1>5. Cardinality(D) <= Cardinality(P!Occasions(g, route))
  BY <1>4, OccasionsFinite, FS_Injection
<1> QED
  BY <1>5, SameCount, Zenon DEF P!Count

\* How often something is counted is a natural number.
LEMMA CountNatural ==
  ASSUME NEW h \in Seq(Sent), NEW g, NEW routes
  PROVE  P!Count(h, g, routes) \in Nat
<1>1. IsFiniteSet(1..Len(h))
  BY FS_Interval
<1> DEFINE D == {i \in 1..Len(h) : g \in Grams[h[i][1]] /\ h[i][2] \in routes}
<1>2. IsFiniteSet(D)
  BY <1>1, FS_Subset
<1>3. Cardinality(D) \in Nat
  BY <1>2, FS_CardinalityType
<1> QED
  BY <1>3, SameCount, Zenon DEF P!Count

\* What is extracted from a history was earned.
LEMMA ExtractEarns ==
  ASSUME NEW h, Witnessed(h, ever)
  PROVE  P!Extract(h) \subseteq Patterns /\ \A x \in P!Extract(h) : Earned(x)
<1> SUFFICES ASSUME NEW x \in P!Extract(h)
             PROVE  x \in Patterns /\ Earned(x)
  OBVIOUS
<1> DEFINE n == P!Count(h, x.gram, {x.route})
<1> DEFINE total == P!Count(h, x.gram, P!PromoterRoutes)
<1> DEFINE c == Cardinality(P!Occasions(x.gram, x.route))
<1>1. x \in Patterns /\ total >= MinCount /\ n * 100 >= Share * total
  BY DEF P!Extract, Patterns
<1>2. n \in Nat /\ total \in Nat
  BY CountNatural DEF Witnessed
<1>3. n <= c
  BY CountBacked
<1>4. c \in Nat
  BY OccasionsFinite
<1> HIDE DEF n, total, c
<1>5. MinCount * Share <= total * Share /\ MinCount * Share \in Nat /\ total * Share \in Nat
  BY <1>1, <1>2, RoutingAssumption, TimesMonotone
<1>6. n * 100 <= c * 100
  BY <1>2, <1>3, <1>4
<1>7. Share * MinCount = MinCount * Share /\ Share * total = total * Share
  BY <1>2, RoutingAssumption
<1>8. c * 100 >= Share * MinCount
  BY <1>1, <1>2, <1>4, <1>5, <1>6, <1>7
<1> QED
  BY <1>1, <1>8 DEF Earned, c

\* As long as another decision may be recorded, none has been recorded so often that the
\* numbers run out.
LEMMA NumbersLeft ==
  ASSUME P!Recorded < MaxRecords, NEW y \in Sent, ever \in [Sent -> Nat]
  PROVE  ever[y] < MaxRecords
<1> DEFINE R == {o \in Sent \X (1..MaxRecords) : o[2] <= ever[o[1]]}
<1>1. P!Recorded = Cardinality(R)
  BY SameCount, Zenon DEF P!Recorded, Sent
<1> SUFFICES ASSUME ever[y] >= MaxRecords
             PROVE  FALSE
  BY RoutingAssumption
<1> DEFINE f == [n \in 1..MaxRecords |-> <<y, n>>]
<1>2. f \in Injection(1..MaxRecords, R)
  <2>1. ASSUME NEW n \in 1..MaxRecords
        PROVE  f[n] \in R
    BY RoutingAssumption
  <2> QED
    BY <2>1 DEF Injection, IsInjective
<1>3. IsFiniteSet(R)
  <2>1. IsFiniteSet(1..MaxRecords)
    BY RoutingAssumption, FS_Interval
  <2>2. IsFiniteSet(P!PromoterRoutes)
    <3>1. IsFiniteSet({} \cup {"local"})
      BY FS_EmptySet, FS_AddElement
    <3>2. IsFiniteSet(({} \cup {"local"}) \cup {"fusion"})
      BY <3>1, FS_AddElement
    <3>3. IsFiniteSet((({} \cup {"local"}) \cup {"fusion"}) \cup {"frontier"})
      BY <3>2, FS_AddElement
    <3>4. P!PromoterRoutes = (({} \cup {"local"}) \cup {"fusion"}) \cup {"frontier"}
      BY DEF P!PromoterRoutes
    <3> QED
      BY <3>3, <3>4
  <2>3. IsFiniteSet(Sent)
    BY <2>2, RoutingAssumption, FS_Product DEF Sent
  <2>4. IsFiniteSet(Sent \X (1..MaxRecords))
    BY <2>1, <2>3, FS_Product
  <2> QED
    BY <2>4, FS_Subset
<1>4. Cardinality(1..MaxRecords) = MaxRecords
  BY RoutingAssumption, FS_Interval
<1> QED
  BY <1>1, <1>2, <1>3, <1>4, FS_Injection, FS_CardinalityType, RoutingAssumption

\* What was earned stays earned, and numbers stay numbers, as decisions are recorded.
LEMMA RecordingKeeps ==
  ASSUME ever \in [Sent -> Nat], ever' \in [Sent -> Nat], \A y \in Sent : ever[y] <= ever'[y]
  PROVE  /\ \A x \in Patterns : Earned(x) => Earned(x)'
         /\ \A h \in Seq(Sent) : \A k : Numbered(h, k, ever) => Numbered(h, k, ever')
<1>1. ASSUME NEW x \in Patterns, Earned(x)
      PROVE  Earned(x)'
  <2> DEFINE A == P!Occasions(x.gram, x.route)
  <2> DEFINE B == {o \in Prompts \X (1..MaxRecords) :
                     x.gram \in Grams[o[1]] /\ o[2] <= ever'[<<o[1], x.route>>]}
  <2>1. x.route \in P!PromoterRoutes
    BY DEF Patterns, P!PromoterRoutes
  <2>2. A \subseteq B
    <3> SUFFICES ASSUME NEW o \in A
                 PROVE  o \in B
      OBVIOUS
    <3>1. /\ o \in Prompts \X (1..MaxRecords) /\ x.gram \in Grams[o[1]]
          /\ o[2] <= ever[<<o[1], x.route>>]
      BY DEF P!Occasions
    <3>2. <<o[1], x.route>> \in Sent
      BY <2>1, <3>1 DEF Sent
    <3>3. ever[<<o[1], x.route>>] <= ever'[<<o[1], x.route>>] /\ o[2] \in Int
          /\ ever[<<o[1], x.route>>] \in Nat /\ ever'[<<o[1], x.route>>] \in Nat
      BY <3>1, <3>2
    <3> QED
      BY <3>1, <3>3
  <2>3. IsFiniteSet(B)
    BY OccasionsFinite, FS_Subset
  <2>4. Cardinality(A) <= Cardinality(B) /\ Cardinality(A) \in Nat /\ Cardinality(B) \in Nat
    BY <2>2, <2>3, FS_Subset, FS_CardinalityType
  <2>5. Cardinality(A) * 100 >= Share * MinCount
    BY <1>1 DEF Earned
  <2>6. Share * MinCount \in Nat
    BY RoutingAssumption
  <2>7. Cardinality(B) * 100 >= Share * MinCount
    <3> HIDE DEF A, B
    <3> QED
      BY <2>4, <2>5, <2>6
  <2>8. Earned(x)' <=> Cardinality(B) * 100 >= Share * MinCount
    BY Zenon DEF Earned, P!Occasions
  <2> QED
    BY <2>7, <2>8
<1>2. ASSUME NEW h \in Seq(Sent), NEW k, Numbered(h, k, ever)
      PROVE  Numbered(h, k, ever')
  <2>1. k \in [1..Len(h) -> 1..MaxRecords] /\ \A i \in 1..Len(h) : k[i] <= ever[h[i]]
    BY <1>2 DEF Numbered
  <2>2. ASSUME NEW i \in 1..Len(h)
        PROVE  k[i] <= ever'[h[i]]
    <3>1. h[i] \in Sent /\ k[i] \in 1..MaxRecords /\ k[i] <= ever[h[i]]
      BY <2>1
    <3>2. ever[h[i]] <= ever'[h[i]] /\ ever[h[i]] \in Nat /\ ever'[h[i]] \in Nat
      BY <3>1
    <3> QED
      BY <3>1, <3>2
  <2> QED
    BY <1>2, <2>2 DEF Numbered
<1> QED
  BY <1>1, <1>2

\* A later part of a history is witnessed, too.
LEMMA SuffixWitnessed ==
  ASSUME NEW h \in Seq(Sent), NEW k, NEW counts, Numbered(h, k, counts), NEW m \in 0..Len(h)
  PROVE  Witnessed(SubSeq(h, m + 1, Len(h)), counts)
<1> DEFINE s == SubSeq(h, m + 1, Len(h))
<1>1. \A i \in (m + 1)..Len(h) : h[i] \in Sent
  OBVIOUS
<1>2. /\ s \in Seq(Sent) /\ Len(s) = IF m + 1 <= Len(h) THEN Len(h) - (m + 1) + 1 ELSE 0
      /\ \A i \in 1..(Len(h) - (m + 1) + 1) : s[i] = h[(m + 1) + i - 1]
  BY <1>1, SubSeqProperties
<1>3. Len(s) = Len(h) - m /\ \A i \in 1..Len(s) : i + m \in 1..Len(h) /\ s[i] = h[i + m]
  BY <1>2
<1> HIDE DEF s
<1> DEFINE l == [i \in 1..Len(s) |-> k[i + m]]
<1>4. l \in [1..Len(s) -> 1..MaxRecords]
  BY <1>3 DEF Numbered
<1>5. \A i \in 1..Len(s) : l[i] <= counts[s[i]]
  BY <1>3 DEF Numbered
<1>6. ASSUME NEW i \in 1..Len(s), NEW j \in 1..Len(s), s[i] = s[j], l[i] = l[j]
      PROVE  i = j
  <2>1. h[i + m] = h[j + m] /\ k[i + m] = k[j + m]
    BY <1>3, <1>6
  <2>2. i + m = j + m
    BY <1>3, <2>1 DEF Numbered
  <2> QED
    BY <1>2, <2>2
<1>7. Numbered(s, l, counts)
  BY <1>4, <1>5, <1>6 DEF Numbered
<1> QED
  BY <1>2, <1>4, <1>7 DEF Witnessed, s

\* A decision that is recorded takes the number of its occasion.
LEMMA RecordWitnessed ==
  ASSUME PromoterInv, NEW p \in Prompts, NEW route \in P!PromoterRoutes,
         P!RecordDecision(p, route)
  PROVE  /\ ever' \in [Sent -> Nat] /\ \A y \in Sent : ever[y] <= ever'[y]
         /\ Witnessed(decisions', ever')
<1> DEFINE y == <<p, route>>
<1> DEFINE h == Append(decisions, y)
<1>1. /\ P!Recorded < MaxRecords /\ ever' = [ever EXCEPT ![y] = @ + 1]
      /\ decisions' = IF Len(h) > MaxHistory THEN SubSeq(h, (Len(h) \div 2) + 1, Len(h)) ELSE h
  BY DEF P!RecordDecision
<1>2. y \in Sent /\ ever \in [Sent -> Nat] /\ decisions \in Seq(Sent)
  BY DEF Sent, PromoterInv, Witnessed
<1> HIDE DEF y
<1>3. ever' \in [Sent -> Nat] /\ ever'[y] = ever[y] + 1 /\ \A z \in Sent : ever[z] <= ever'[z]
  BY <1>1, <1>2
<1>4. ever[y] < MaxRecords
  BY <1>1, <1>2, NumbersLeft
<1>5. PICK k \in [1..Len(decisions) -> 1..MaxRecords] : Numbered(decisions, k, ever)
  BY DEF PromoterInv, Witnessed
<1>6. /\ h \in Seq(Sent) /\ Len(h) = Len(decisions) + 1 /\ h[Len(decisions) + 1] = y
      /\ \A i \in 1..Len(decisions) : h[i] = decisions[i]
  BY <1>2, AppendProperties
<1> HIDE DEF h
<1> DEFINE l == [i \in 1..Len(h) |-> IF i = Len(h) THEN ever[y] + 1 ELSE k[i]]
<1>7. \A i \in 1..Len(h) : i = Len(decisions) + 1 \/ i \in 1..Len(decisions)
  BY <1>2, <1>6
<1>8. \A i \in 1..Len(decisions) : /\ i \in 1..Len(h) /\ i # Len(h) /\ l[i] = k[i]
                                   /\ k[i] \in 1..MaxRecords /\ k[i] <= ever[h[i]] /\ h[i] \in Sent
  <2>1. \A i \in 1..Len(decisions) : k[i] <= ever[decisions[i]]
    BY <1>5 DEF Numbered
  <2>2. \A i \in 1..Len(decisions) : i \in 1..Len(h) /\ i # Len(h)
    BY <1>2, <1>6
  <2>3. \A i \in 1..Len(decisions) : h[i] = decisions[i] /\ h[i] \in Sent /\ k[i] \in 1..MaxRecords
    BY <1>2, <1>5, <1>6
  <2>4. \A i \in 1..Len(decisions) : l[i] = k[i]
    BY <2>2
  <2> QED
    BY <2>1, <2>2, <2>3, <2>4
<1>9. Len(h) \in 1..Len(h) /\ l[Len(h)] = ever[y] + 1 /\ h[Len(h)] = y /\ Len(h) = Len(decisions) + 1
  BY <1>2, <1>6
<1>10. ever[y] + 1 \in 1..MaxRecords
  BY <1>2, <1>4, RoutingAssumption
<1> HIDE DEF l
<1>11. \A i \in 1..Len(h) : l[i] \in 1..MaxRecords /\ l[i] <= ever'[h[i]]
  <2> SUFFICES ASSUME NEW i \in 1..Len(h)
               PROVE  l[i] \in 1..MaxRecords /\ l[i] <= ever'[h[i]]
    OBVIOUS
  <2>1. CASE i = Len(decisions) + 1
    BY <2>1, <1>3, <1>9, <1>10
  <2>2. CASE i \in 1..Len(decisions)
    <3>1. l[i] = k[i] /\ k[i] \in 1..MaxRecords /\ k[i] <= ever[h[i]] /\ h[i] \in Sent
      BY <1>8, <2>2
    <3>2. ever[h[i]] <= ever'[h[i]] /\ ever[h[i]] \in Nat /\ ever'[h[i]] \in Nat
      BY <1>2, <1>3, <3>1
    <3> QED
      BY <3>1, <3>2
  <2> QED
    BY <1>7, <2>1, <2>2
<1>12. ASSUME NEW i \in 1..Len(h), NEW j \in 1..Len(h), h[i] = h[j], l[i] = l[j]
       PROVE  i = j
  <2>1. CASE i \in 1..Len(decisions) /\ j \in 1..Len(decisions)
    <3>1. k[i] = k[j] /\ decisions[i] = decisions[j]
      BY <1>6, <1>8, <1>12, <2>1
    <3> QED
      BY <1>5, <2>1, <3>1 DEF Numbered
  <2>2. ASSUME NEW u \in 1..Len(decisions), h[u] = y
        PROVE  l[u] # ever[y] + 1
    <3>1. l[u] = k[u] /\ k[u] <= ever[y] /\ k[u] \in Int
      BY <1>8, <2>2
    <3> QED
      BY <1>2, <3>1
  <2>3. CASE i \in 1..Len(decisions) /\ j = Len(decisions) + 1
    BY <1>9, <1>12, <2>2, <2>3
  <2>4. CASE j \in 1..Len(decisions) /\ i = Len(decisions) + 1
    BY <1>9, <1>12, <2>2, <2>4
  <2> QED
    BY <1>7, <2>1, <2>3, <2>4
<1>13. l \in [1..Len(h) -> 1..MaxRecords]
  BY <1>11 DEF l
<1>14. Numbered(h, l, ever')
  BY <1>11, <1>12, <1>13 DEF Numbered
<1>15. Witnessed(h, ever')
  BY <1>6, <1>13, <1>14 DEF Witnessed
<1>16. CASE Len(h) > MaxHistory
  <2> DEFINE m == Len(h) \div 2
  <2>1. m \in 0..Len(h)
    BY <1>6
  <2>2. decisions' = SubSeq(h, m + 1, Len(h))
    BY <1>1, <1>16 DEF h
  <2> HIDE DEF m
  <2>3. Witnessed(SubSeq(h, m + 1, Len(h)), ever')
    BY <1>6, <1>14, <2>1, SuffixWitnessed
  <2> QED
    BY <1>3, <2>2, <2>3
<1>17. CASE ~(Len(h) > MaxHistory)
  <2>1. decisions' = h
    BY <1>1, <1>17 DEF h
  <2> QED
    BY <1>3, <1>15, <2>1
<1> QED
  BY <1>16, <1>17

\* Every step of the promoter, in this life or into the next, keeps its invariant.
LEMMA PromoterStep == PromoterInv /\ [P!PromoterNext]_promoterVars => PromoterInv'
<1> SUFFICES ASSUME PromoterInv, [P!PromoterNext]_promoterVars
             PROVE  PromoterInv'
  OBVIOUS
<1>1. ASSUME NEW p \in Prompts, NEW route \in P!PromoterRoutes, P!RecordDecision(p, route)
      PROVE  PromoterInv'
  <2>1. UNCHANGED <<promoted, table, recompute, copied, behind>>
    BY <1>1 DEF P!RecordDecision
  <2>2. /\ ever \in [Sent -> Nat] /\ ever' \in [Sent -> Nat] /\ \A y \in Sent : ever[y] <= ever'[y]
        /\ Witnessed(decisions', ever')
    BY <1>1, RecordWitnessed DEF PromoterInv
  <2>3. Witnessed(copied, ever')
    BY <2>2, RecordingKeeps DEF PromoterInv, Witnessed
  <2>4. \A x \in Patterns : Earned(x) => Earned(x)'
    BY <2>2, RecordingKeeps
  <2> QED
    BY <2>1, <2>2, <2>3, <2>4 DEF PromoterInv
<1>2. ASSUME UNCHANGED ever
      PROVE  \A x : Earned(x)' <=> Earned(x)
  BY <1>2 DEF Earned, P!Occasions
<1>3. Witnessed(<<>>, ever)
  <2>1. <<>> \in Seq(Sent) /\ Len(<<>>) = 0
    OBVIOUS
  <2>2. Numbered(<<>>, [i \in 1..0 |-> 1], ever) /\ [i \in 1..0 |-> 1] \in [1..0 -> 1..MaxRecords]
    BY <2>1 DEF Numbered
  <2> QED
    BY <2>1, <2>2 DEF Witnessed
<1>4. CASE P!Copy
  BY <1>2, <1>4 DEF P!Copy, PromoterInv
<1>5. CASE P!Promote
  <2>1. /\ recompute' = "persisting" /\ promoted' = P!Extract(copied) /\ copied' = <<>>
        /\ UNCHANGED <<decisions, table, behind, ever>>
    BY <1>5 DEF P!Promote
  <2>2. promoted' \subseteq Patterns /\ \A x \in promoted' : Earned(x)
    BY <2>1, ExtractEarns DEF PromoterInv
  <2> QED
    BY <1>2, <1>3, <2>1, <2>2 DEF PromoterInv
<1>6. CASE P!Persist
  BY <1>2, <1>6 DEF P!Persist, PromoterInv
<1>7. CASE P!Restart
  BY <1>2, <1>3, <1>7 DEF P!Restart, PromoterInv
<1>8. CASE UNCHANGED promoterVars
  BY <1>2, <1>8 DEF promoterVars, PromoterInv
<1> QED
  BY <1>1, <1>4, <1>5, <1>6, <1>7, <1>8 DEF P!PromoterNext

\* The promoter starts with nothing promoted.
LEMMA PromoterStarts == P!PromoterInit => PromoterInv
<1> SUFFICES ASSUME P!PromoterInit
             PROVE  PromoterInv
  OBVIOUS
<1>1. /\ decisions = <<>> /\ promoted = {} /\ table = {} /\ copied = <<>>
      /\ ever = [x \in Sent |-> 0]
  BY DEF P!PromoterInit, Sent
<1>2. Witnessed(<<>>, ever)
  <2>1. <<>> \in Seq(Sent) /\ Len(<<>>) = 0
    OBVIOUS
  <2>2. Numbered(<<>>, [i \in 1..0 |-> 1], ever) /\ [i \in 1..0 |-> 1] \in [1..0 -> 1..MaxRecords]
    BY <2>1 DEF Numbered
  <2> QED
    BY <2>1, <2>2 DEF Witnessed
<1> QED
  BY <1>1, <1>2 DEF PromoterInv

\* The promoter never holds, in memory or in its table, a pattern that fewer decisions
\* than its share of the smallest sample earned, and unless a write failed the table
\* holds what is promoted: for any prompts, n-grams, share, sample and length of the
\* history, and through any number of recomputations and restarts
\* (internal/router/promoter.go).  The first half of what the run checks.
LEMMA PromoterEarns == RoutingSpec => []P!PatternsEarned
<1>1. RoutingInit => PromoterInv
  BY PromoterStarts DEF RoutingInit
<1>2. PromoterInv /\ [RoutingNext]_allVars => PromoterInv'
  BY PromoterStep DEF RoutingNext, allVars, promoterVars
<1>3. PromoterInv => P!PatternsEarned
  BY SameCount, Zenon DEF PromoterInv, P!PatternsEarned, Earned
<1> QED
  BY <1>1, <1>2, <1>3, PTL DEF RoutingSpec

-----------------------------------------------------------------------------
\* Provider selector.  The statistics of a provider and its price are natural numbers.
LEMMA PriceNatural ==
  ASSUME stats \in [Ranked -> Stats], NEW p \in Ranked
  PROVE  /\ stats[p] \in [samples : Nat, errors : Nat, p50 : Nat, p95 : Nat, cost : Nat]
         /\ S!Price(p) \in Nat
<1>1. stats[p] \in [samples : Nat, errors : Nat, p50 : Nat, p95 : Nat, cost : Nat]
  BY RoutingAssumption
<1> DEFINE tail == IF stats[p].p95 > stats[p].p50 THEN stats[p].p95 - stats[p].p50 ELSE 0
<1>2. tail \in Nat
  BY <1>1
<1>3. S!Price(p) = (stats[p].p50 + TailWeight * tail) * (1000 * stats[p].cost + 1)
  BY DEF S!Price
<1> HIDE DEF tail
<1>4. TailWeight * tail \in Nat
  BY <1>2, RoutingAssumption
<1>5. stats[p].p50 + TailWeight * tail \in Nat /\ 1000 * stats[p].cost + 1 \in Nat
  BY <1>1, <1>4
<1>6. (stats[p].p50 + TailWeight * tail) * (1000 * stats[p].cost + 1) \in Nat
  BY <1>5, TimesMonotone
<1> QED
  BY <1>1, <1>3, <1>6

\* Is q at least as fast at the median and the tail and as cheap as p, and better in one?
Beats(q, p) ==
  LET r == stats[q]
      s == stats[p]
  IN /\ r.p50 > 0 /\ r.p50 <= s.p50 /\ r.p95 >= r.p50 /\ s.p95 >= s.p50
     /\ r.p95 - r.p50 <= s.p95 - s.p50 /\ r.cost <= s.cost
     /\ (r.p50 < s.p50 \/ r.cost < s.cost)

\* A provider that beats another one has the lower price.
LEMMA BeatsIsCheaper ==
  ASSUME stats \in [Ranked -> Stats], NEW p \in Ranked, NEW q \in Ranked, Beats(q, p)
  PROVE  S!Price(q) < S!Price(p)
<1> DEFINE Spread(x) == stats[x].p95 - stats[x].p50
<1> DEFINE a == stats[q].p50 + TailWeight * Spread(q)
<1> DEFINE b == stats[p].p50 + TailWeight * Spread(p)
<1> DEFINE c == 1000 * stats[q].cost + 1
<1> DEFINE d == 1000 * stats[p].cost + 1
<1>1. /\ stats[p] \in [samples : Nat, errors : Nat, p50 : Nat, p95 : Nat, cost : Nat]
      /\ stats[q] \in [samples : Nat, errors : Nat, p50 : Nat, p95 : Nat, cost : Nat]
  BY PriceNatural
<1>2. Spread(q) \in Nat /\ Spread(p) \in Nat /\ Spread(q) <= Spread(p)
  BY <1>1 DEF Beats
<1>3. S!Price(q) = a * c /\ S!Price(p) = b * d
  <2>1. ASSUME NEW x \in {p, q}
        PROVE  (IF stats[x].p95 > stats[x].p50 THEN stats[x].p95 - stats[x].p50 ELSE 0) = Spread(x)
    BY <1>1 DEF Beats
  <2> QED
    BY <2>1 DEF S!Price
<1>4. TailWeight * Spread(q) \in Nat /\ TailWeight * Spread(p) \in Nat
      /\ TailWeight * Spread(q) <= TailWeight * Spread(p)
  <2>1. Spread(q) * TailWeight <= Spread(p) * TailWeight
        /\ Spread(q) * TailWeight \in Nat /\ Spread(p) * TailWeight \in Nat
    BY <1>2, RoutingAssumption, TimesMonotone
  <2> QED
    BY <1>2, <2>1, RoutingAssumption
<1>5. /\ a \in Nat /\ b \in Nat /\ c \in Nat /\ d \in Nat /\ 0 < a /\ a <= b /\ 0 < c /\ c <= d
      /\ a < b \/ c < d
  <2> HIDE DEF Spread
  <2> QED
    BY <1>1, <1>4 DEF Beats
<1> HIDE DEF a, b, c, d
<1>6. a * c <= b * c /\ (a < b => a * c < b * c) /\ a * c \in Nat /\ b * c \in Nat
  BY <1>5, TimesMonotone
<1>7. c * b <= d * b /\ (c < d => c * b < d * b) /\ c * b \in Nat /\ d * b \in Nat
  BY <1>5, TimesMonotone
<1>8. b * c = c * b /\ b * d = d * b
  BY <1>5
<1>9. a * c < b * d
  BY <1>5, <1>6, <1>7, <1>8
<1> QED
  BY <1>3, <1>9

\* Among eligible providers there is a best one.
LEMMA BestExists ==
  ASSUME stats \in [Ranked -> Stats], \E p \in Ranked : S!Eligible(p)
  PROVE  \E p \in Ranked :
           S!Eligible(p) /\ \A q \in Ranked :
             S!Eligible(q) => S!Price(p) < S!Price(q) \/ (S!Price(p) = S!Price(q) /\ p <= q)
<1> DEFINE E == {p \in Ranked : S!Eligible(p)}
<1> DEFINE T == {S!Price(p) : p \in E}
<1>1. T \in SUBSET Nat /\ T # {}
  BY PriceNatural
<1>2. PICK x \in T : \A y \in T : x <= y
  BY <1>1, LeastExists
<1> DEFINE B == {p \in E : S!Price(p) = x}
<1>3. B \in SUBSET Nat /\ B # {}
  BY <1>2, RoutingAssumption
<1>4. PICK p \in B : \A q \in B : p <= q
  BY <1>3, LeastExists
<1>5. ASSUME NEW q \in Ranked, S!Eligible(q)
      PROVE  S!Price(p) < S!Price(q) \/ (S!Price(p) = S!Price(q) /\ p <= q)
  <2>1. x <= S!Price(q) /\ S!Price(p) = x /\ x \in Nat /\ S!Price(q) \in Nat
    BY <1>1, <1>2, <1>5
  <2>2. S!Price(q) = x => p <= q
    BY <1>4, <1>5
  <2> QED
    BY <2>1, <2>2
<1> QED
  BY <1>5

\* The choice of a provider is one of the best eligible ones; whatever changes what
\* the choice rests on forgets it.
LEMMA SelectorStep == SelectorInv /\ [S!SelectorNext]_selectorVars => SelectorInv'
<1> SUFFICES ASSUME SelectorInv, [S!SelectorNext]_selectorVars
             PROVE  SelectorInv'
  OBVIOUS
<1>1. ASSUME picked' = 0, stats' \in [Ranked -> Stats], healthy' \subseteq Ranked
      PROVE  SelectorInv'
  BY <1>1 DEF SelectorInv, S!PickUndominated
<1>2. CASE S!SelectFrontier
  <2>1. UNCHANGED <<stats, healthy>>
    BY <1>2 DEF S!SelectFrontier
  <2>2. CASE ~ \E p \in Ranked : S!Eligible(p)
    BY <1>1, <1>2, <2>1, <2>2 DEF S!SelectFrontier, SelectorInv
  <2>3. CASE \E p \in Ranked : S!Eligible(p)
    <3>1. /\ picked' \in Ranked /\ S!Eligible(picked')
          /\ \A q \in Ranked : S!Eligible(q) =>
               S!Price(picked') < S!Price(q) \/ (S!Price(picked') = S!Price(q) /\ picked' <= q)
      <4>1. picked' = CHOOSE p \in Ranked :
              S!Eligible(p) /\ \A q \in Ranked :
                S!Eligible(q) => S!Price(p) < S!Price(q) \/ (S!Price(p) = S!Price(q) /\ p <= q)
        BY <1>2, <2>3, Zenon DEF S!SelectFrontier
      <4> QED
        BY <2>3, <4>1, BestExists, Zenon DEF SelectorInv
    <3> DEFINE c == picked'
    <3>2. c \in Ranked /\ S!Eligible(c)
      BY <3>1
    <3>3. ~ \E q \in healthy : /\ stats[q].samples >= MinSampleCount
                               /\ stats[q].errors <= MaxErrorRate /\ Beats(q, c)
      <4> SUFFICES ASSUME NEW q \in healthy, stats[q].samples >= MinSampleCount,
                          stats[q].errors <= MaxErrorRate, Beats(q, c)
                   PROVE  FALSE
        OBVIOUS
      <4>1. q \in Ranked
        BY DEF SelectorInv
      <4>2. S!Eligible(q)
        BY DEF S!Eligible, Beats
      <4>3. S!Price(q) < S!Price(c)
        BY <3>2, <4>1, BeatsIsCheaper DEF SelectorInv
      <4>4. S!Price(c) <= S!Price(q) /\ S!Price(c) \in Nat /\ S!Price(q) \in Nat
        BY <3>1, <3>2, <4>1, <4>2, PriceNatural DEF SelectorInv
      <4> QED
        BY <4>3, <4>4
    <3>4. S!PickUndominated'
      BY <2>1, <3>2, <3>3 DEF S!PickUndominated, S!Eligible, Beats
    <3> QED
      BY <2>1, <3>4 DEF SelectorInv
  <2> QED
    BY <2>2, <2>3
<1>3. ASSUME NEW p \in Ranked, S!HealthChanges(p)
      PROVE  SelectorInv'
  BY <1>1, <1>3 DEF S!HealthChanges, SelectorInv
<1>4. ASSUME NEW p \in Ranked, NEW s \in Stats, S!Refresh(p, s)
      PROVE  SelectorInv'
  BY <1>1, <1>4 DEF S!Refresh, SelectorInv
<1>5. CASE UNCHANGED selectorVars
  BY <1>5 DEF selectorVars, SelectorInv, S!PickUndominated
<1> QED
  BY <1>2, <1>3, <1>4, <1>5 DEF S!SelectorNext

\* A pattern the promoter matches was earned by recorded decisions, across crashes and
\* restarts, and the provider that is chosen is healthy, proven and beaten by no other
\* such provider: for any prompts, providers, statistics, shares and weights
\* (internal/router/promoter.go, selector.go).
THEOREM RoutingChoicesEarned == RoutingSpec => []ChoicesEarned
<1>1. RoutingInit => SelectorInv
  BY DEF RoutingInit, S!SelectorInit, SelectorInv, S!PickUndominated
<1>2. SelectorInv /\ [RoutingNext]_allVars => SelectorInv'
  BY SelectorStep DEF RoutingNext, allVars, selectorVars
<1>3. SelectorInv => S!PickUndominated
  BY DEF SelectorInv
<1> QED
  BY <1>1, <1>2, <1>3, PromoterEarns, PTL DEF RoutingSpec, ChoicesEarned

-----------------------------------------------------------------------------
\* Route planner.  Making room, for whatever reason, leaves the other entries alone.
LEMMA EvictionKeeps ==
  ASSUME NEW e, NEW x
  PROVE  /\ \A k \in DOMAIN evictExpired(e, x).e : k \in DOMAIN e /\ evictExpired(e, x).e[k] = e[k]
         /\ \A k \in DOMAIN MakeRoom(e, x).e : k \in DOMAIN e /\ MakeRoom(e, x).e[k] = e[k]
<1> DEFINE Part(f) == \A k \in DOMAIN f : k \in DOMAIN e /\ f[k] = e[k]
<1>1. \A keys : Part(RestrictTo(e, keys))
  BY DEF RestrictTo
<1> DEFINE c == evictExpired(e, x)
<1>2. Part(c.e)
  BY <1>1 DEF evictExpired
<1> HIDE DEF c
<1>3. Part(evictLru(c).e)
  <2>1. CASE c.x = <<>>
    BY <1>2, <2>1 DEF evictLru
  <2>2. CASE c.x # <<>>
    <3>1. evictLru(c).e = RestrictTo(c.e, DOMAIN c.e \ {Head(c.x)})
      BY <2>2 DEF evictLru
    <3> QED
      BY <1>2, <3>1 DEF RestrictTo
  <2> QED
    BY <2>1, <2>2
<1>4. \/ MakeRoom(e, x).e = e
      \/ MakeRoom(e, x).e = c.e
      \/ MakeRoom(e, x).e = evictLru(c).e
  BY DEF MakeRoom, c
<1>5. Part(MakeRoom(e, x).e)
  BY <1>2, <1>3, <1>4
<1> QED
  BY <1>2, <1>5 DEF c

\* A confidence is a level.
LEMMA ConfidenceIsLevel == \A c, failed : LocalConfidence(c, failed) \in Levels
BY DEF LocalConfidence, Levels

\* A decision that is served from an entry a text can hit was earned, and heeds the
\* scores of the moment.
LEMMA ServeKeeps ==
  ASSUME PlannerInv, NEW t, NEW k \in DOMAIN entries, Hittable(k), Fresh(k),
         k = t \/ <<t, k>> \in Similar,
         NEW failed \in BOOLEAN, Serve(t, k, failed), UNCHANGED <<now, entries, scores, said>>
  PROVE  HitsEarned' /\ ConfidenceHeeded'
<1> DEFINE conf == LocalConfidence(Category[t], failed)
<1>1. conf \in Levels /\ conf \in {LocalConfidence(Category[t], FALSE), 1}
  <2>1. failed => conf = 1
    BY DEF LocalConfidence
  <2> QED
    BY <2>1, ConfidenceIsLevel
<1>2. LocalConfidence(Category[t], FALSE)' = LocalConfidence(Category[t], FALSE)
  BY DEF LocalConfidence
<1>3. last' = IF Overridden(entries[k].route, conf)
              THEN Decision("frontier", "slm-escalation", t, conf, TRUE)
              ELSE Decision(entries[k].route, "slm", t, conf, TRUE)
  BY DEF Serve
<1> HIDE DEF conf
<1>4. CASE Overridden(entries[k].route, conf)
  BY <1>3, <1>4 DEF Decision, HitsEarned, ConfidenceHeeded
<1>5. CASE ~Overridden(entries[k].route, conf)
  <2>1. /\ last'.route = entries[k].route /\ last'.text = t /\ last'.conf = conf
        /\ last'.source = "slm" /\ last'.hit = TRUE
    BY <1>3, <1>5 DEF Decision
  <2>2. PICK d \in said : d.text = k /\ d.route = entries[k].route /\ d.at = entries[k].stamp
    BY DEF PlannerInv, EntriesEarned, Fresh
  <2>3. now - d.at <= TTL
    BY <2>2 DEF Fresh
  <2>4. HitsEarned'
    BY <2>1, <2>2, <2>3 DEF HitsEarned
  <2>5. entries[k].route \in {"local", "fusion"} => conf >= Threshold
    BY <1>1, <1>5, RoutingAssumption DEF Overridden, Levels
  <2>6. ConfidenceHeeded'
    BY <1>1, <1>2, <2>1, <2>5 DEF ConfidenceHeeded
  <2> QED
    BY <2>4, <2>6
<1> QED
  BY <1>4, <1>5

\* A decision that does not come from the cache has only its confidence to heed.
LEMMA MissKeeps ==
  ASSUME ~last'.hit,
         last'.source = "slm" /\ last'.route \in {"local", "fusion"} => last'.conf >= Threshold
  PROVE  HitsEarned' /\ ConfidenceHeeded'
BY DEF HitsEarned, ConfidenceHeeded

\* A planner that only looks things up.
LEMMA PlanKeeps ==
  ASSUME PlannerInv, NEW p \in Planners, NEW t \in Texts, NEW load, Plan(p, t, load)
  PROVE  PlannerInv'
<1>1. UNCHANGED <<now, entries, scores, said>>
  BY DEF Plan
<1>2. now' \in Nat /\ EntriesEarned'
  BY <1>1 DEF PlannerInv, EntriesEarned, Hittable
<1> DEFINE early == EarlyStages(load, t)
<1>3. CASE early # <<>>
  <2>1. last' = Decision(early[1], early[2], Idle, 1, FALSE) /\ held' = held
    BY <1>3 DEF Plan
  <2>2. early[2] \in {"guardrail", "budget-downtier", "dsl-promoted", "dsl"}
    BY <1>3 DEF EarlyStages
  <2>3. last'.source # "slm" /\ ~last'.hit
    BY <2>1, <2>2 DEF Decision
  <2> QED
    BY <1>2, <2>1, <2>3, MissKeeps DEF PlannerInv
<1>4. CASE early = <<>>
  <2>1. PlanSLM(p, t)
    BY <1>4 DEF Plan
  <2>2. PICK failed \in BOOLEAN, ok \in BOOLEAN :
          IF Fresh(t)
          THEN ok /\ Serve(t, t, failed) /\ held' = held
          ELSE \/ \E k \in Semantic(t) : ok /\ Serve(t, k, failed) /\ held' = held
               \/ /\ held' = [held EXCEPT ![p] = LocalConfidence(Category[t], failed)]
                  /\ last' = NoDecision
    BY <2>1 DEF PlanSLM
  <2>3. CASE Fresh(t) /\ Serve(t, t, failed) /\ held' = held
    <3>1. t \in DOMAIN entries /\ Hittable(t)
      BY <2>3 DEF Fresh, Hittable
    <3>2. HitsEarned' /\ ConfidenceHeeded'
      BY <1>1, <2>3, <3>1, ServeKeeps
    <3> QED
      BY <1>2, <2>3, <3>2 DEF PlannerInv
  <2>4. ASSUME NEW k \in Semantic(t), Serve(t, k, failed), held' = held
        PROVE  PlannerInv'
    <3>1. k \in DOMAIN entries /\ Hittable(k) /\ Fresh(k) /\ (k = t \/ <<t, k>> \in Similar)
      BY <2>4 DEF Semantic, Hittable
    <3>2. HitsEarned' /\ ConfidenceHeeded'
      BY <1>1, <2>4, <3>1, ServeKeeps
    <3> QED
      BY <1>2, <2>4, <3>2 DEF PlannerInv
  <2>5. CASE /\ held' = [held EXCEPT ![p] = LocalConfidence(Category[t], failed)]
             /\ last' = NoDecision
    <3>1. held' \in [Planners -> Levels]
      BY <2>5, ConfidenceIsLevel DEF PlannerInv
    <3>2. ~last'.hit /\ last'.source # "slm"
      BY <2>5 DEF NoDecision, Decision
    <3> QED
      BY <1>2, <3>1, <3>2, MissKeeps DEF PlannerInv
  <2> QED
    BY <2>2, <2>3, <2>4, <2>5
<1> QED
  BY <1>3, <1>4

\* An answer that stands is stored under its text, with the answer behind it.
LEMMA SetKeeps ==
  ASSUME PlannerInv, NEW t, NEW route, NEW emb, Set(t, route, emb), now' = now,
         said' = said \cup {[text |-> t, route |-> route, at |-> now]}
  PROVE  EntriesEarned'
<1> DEFINE e == MakeRoom(entries, expiry).e
<1>1. \A k \in DOMAIN e : k \in DOMAIN entries /\ e[k] = entries[k]
  BY EvictionKeeps
<1>2. entries' = [k \in DOMAIN e \cup {t} |->
                    IF k = t THEN [route |-> route, stamp |-> now, emb |-> emb] ELSE e[k]]
  BY DEF Set, Store
<1> HIDE DEF e
<1> SUFFICES ASSUME NEW k \in DOMAIN entries', Hittable(k)'
             PROVE  /\ entries'[k].stamp \in Nat
                    /\ now - entries'[k].stamp <= TTL =>
                         \E d \in said' : d.text = k /\ d.route = entries'[k].route /\ d.at = entries'[k].stamp
  BY DEF EntriesEarned
<1>3. CASE k = t
  <2> DEFINE d == [text |-> t, route |-> route, at |-> now]
  <2>1. entries'[k].stamp = now /\ entries'[k].route = route
    BY <1>2, <1>3
  <2>2. d \in said' /\ d.text = t /\ d.route = route /\ d.at = now
    OBVIOUS
  <2> HIDE DEF d
  <2> QED
    BY <1>3, <2>1, <2>2 DEF PlannerInv
<1>4. CASE k # t
  <2>1. k \in DOMAIN entries /\ entries'[k] = entries[k]
    BY <1>1, <1>2, <1>4
  <2>2. Hittable(k)
    BY <2>1 DEF Hittable
  <2>3. /\ entries[k].stamp \in Nat
        /\ now - entries[k].stamp <= TTL =>
             \E d \in said : d.text = k /\ d.route = entries[k].route /\ d.at = entries[k].stamp
    BY <2>1, <2>2 DEF PlannerInv, EntriesEarned
  <2> QED
    BY <2>1, <2>3
<1> QED
  BY <1>3, <1>4

\* The answer of the SLM, an error, an overridden or an accepted one.
LEMMA ReturnKeeps ==
  ASSUME PlannerInv, NEW p \in Planners, NEW reply, SLMReturns(p, reply)
  PROVE  PlannerInv'
<1>1. /\ now' = now /\ scores' = scores /\ held' = [held EXCEPT ![p] = 1]
      /\ now \in Nat /\ held[p] \in Levels
  BY DEF SLMReturns, PlannerInv
<1>2. held' \in [Planners -> Levels]
  BY <1>1 DEF PlannerInv, Levels
<1>3. ASSUME UNCHANGED <<entries, said>>
      PROVE  EntriesEarned'
  BY <1>1, <1>3 DEF PlannerInv, EntriesEarned, Hittable
<1>4. CASE Answer(reply) = "error"
  <2>1. /\ last' = Decision("frontier", "slm-error", asking[p], held[p], FALSE)
        /\ UNCHANGED <<entries, said>>
    BY <1>4 DEF SLMReturns
  <2>2. ~last'.hit /\ last'.source # "slm"
    BY <2>1 DEF Decision
  <2> QED
    BY <1>1, <1>2, <1>3, <2>1, <2>2, MissKeeps DEF PlannerInv
<1>5. CASE Answer(reply) # "error"
  <2> DEFINE route == Answer(reply)
  <2> DEFINE t == asking[p]
  <2>1. Accept(p, t, route)
    BY <1>5 DEF SLMReturns
  <2> HIDE DEF route, t
  <2>2. CASE Overridden(route, held[p])
    <3>1. /\ last' = Decision("frontier", "slm-escalation", t, held[p], FALSE)
          /\ UNCHANGED <<entries, said>>
      BY <2>1, <2>2 DEF Accept
    <3>2. ~last'.hit /\ last'.source # "slm"
      BY <3>1 DEF Decision
    <3> QED
      BY <1>1, <1>2, <1>3, <3>1, <3>2, MissKeeps DEF PlannerInv
  <2>3. CASE ~Overridden(route, held[p])
    <3>1. /\ \E ok \in BOOLEAN : Set(t, route, ok)
          /\ last' = Decision(route, "slm", t, held[p], FALSE)
          /\ said' = said \cup {[text |-> t, route |-> route, at |-> now]}
      BY <2>1, <2>3 DEF Accept
    <3>2. EntriesEarned'
      BY <1>1, <3>1, SetKeeps
    <3>3. ~last'.hit /\ last'.route = route /\ last'.conf = held[p]
      BY <3>1 DEF Decision
    <3>4. route \in {"local", "fusion"} => held[p] >= Threshold
      BY <1>1, <2>3, RoutingAssumption DEF Overridden, Levels
    <3> QED
      BY <1>1, <1>2, <3>2, <3>3, <3>4, MissKeeps DEF PlannerInv
  <2> QED
    BY <2>2, <2>3
<1> QED
  BY <1>4, <1>5

\* Every step of a planner, of the judge, of the evicting goroutine and of the clock.
LEMMA PlannerStep == PlannerInv /\ [Next]_vars => PlannerInv'
<1> SUFFICES ASSUME PlannerInv, [Next]_vars
             PROVE  PlannerInv'
  OBVIOUS
<1>1. ASSUME last' = NoDecision
      PROVE  HitsEarned' /\ ConfidenceHeeded'
  <2>1. ~last'.hit /\ last'.source # "slm"
    BY <1>1 DEF NoDecision, Decision
  <2> QED
    BY <2>1, MissKeeps
<1>2. ASSUME NEW c, NEW good, RecordOutcome(c, good)
      PROVE  PlannerInv'
  BY <1>1, <1>2 DEF RecordOutcome, PlannerInv, EntriesEarned, Hittable, cacheVars
<1>3. ASSUME NEW c, WindowPasses(c)
      PROVE  PlannerInv'
  BY <1>1, <1>3 DEF WindowPasses, PlannerInv, EntriesEarned, Hittable, cacheVars
<1>4. CASE EvictExpired
  <2>1. /\ entries' = evictExpired(entries, expiry).e /\ last' = NoDecision
        /\ UNCHANGED <<now, held, said>>
    BY <1>4 DEF EvictExpired
  <2>2. \A k \in DOMAIN entries' : k \in DOMAIN entries /\ entries'[k] = entries[k]
    BY <2>1, EvictionKeeps
  <2>3. EntriesEarned'
    BY <2>1, <2>2 DEF PlannerInv, EntriesEarned, Hittable
  <2> QED
    BY <1>1, <2>1, <2>3 DEF PlannerInv
<1>5. CASE Tick
  <2>1. /\ now' = now + 1 /\ said' = {d \in said : now' - d.at <= TTL} /\ last' = NoDecision
        /\ UNCHANGED <<entries, held>> /\ now \in Nat
    BY <1>5 DEF Tick, PlannerInv
  <2>2. ASSUME NEW k \in DOMAIN entries, Hittable(k), now' - entries[k].stamp <= TTL
        PROVE  \E d \in said' : d.text = k /\ d.route = entries[k].route /\ d.at = entries[k].stamp
    <3>1. entries[k].stamp \in Nat
      BY <2>2 DEF PlannerInv, EntriesEarned
    <3>2. now - entries[k].stamp <= TTL
      BY <2>1, <2>2, <3>1, RoutingAssumption
    <3>3. PICK d \in said : d.text = k /\ d.route = entries[k].route /\ d.at = entries[k].stamp
      BY <2>2, <3>2 DEF PlannerInv, EntriesEarned
    <3> QED
      BY <2>1, <2>2, <3>3
  <2>3. EntriesEarned'
    BY <2>1, <2>2 DEF PlannerInv, EntriesEarned, Hittable
  <2> QED
    BY <1>1, <2>1, <2>3 DEF PlannerInv
<1>6. CASE UNCHANGED vars
  BY <1>6 DEF vars, PlannerInv, EntriesEarned, Hittable, HitsEarned, ConfidenceHeeded, LocalConfidence
<1> QED
  BY <1>2, <1>3, <1>4, <1>5, <1>6, PlanKeeps, ReturnKeeps DEF Next

\* A route that comes out of the cache was given by the SLM within the last TTL, for the
\* same text or a similar one, and stood when it was given; and no decision of the SLM
\* stage keeps work away from the frontier on a confidence below the threshold, whatever
\* was recorded while the SLM was asked: for any planners, texts, replies, caps and
\* TTLs, as long as no text is the name of a category with outcomes to start from
\* (internal/router/planner.go, slm_cache.go).
THEOREM RoutingDecisionsEarned == WarmApart /\ RoutingSpec => [](HitsEarned /\ ConfidenceHeeded)
<1>1. WarmApart /\ RoutingInit => PlannerInv
  <2> SUFFICES ASSUME WarmApart, RoutingInit
               PROVE  PlannerInv
    OBVIOUS
  <2>1. /\ \E rows \in Outcomes : entries = Warm(rows).e
        /\ now = 0 /\ held = [p \in Planners |-> 1] /\ last = NoDecision
    BY DEF RoutingInit, Init
  <2>2. \A k \in DOMAIN entries : ~Hittable(k)
    BY <2>1 DEF WarmApart, Hittable
  <2>3. ~last.hit /\ last.source # "slm"
    BY <2>1 DEF NoDecision, Decision
  <2> QED
    BY <2>1, <2>2, <2>3 DEF PlannerInv, EntriesEarned, HitsEarned, ConfidenceHeeded, Levels
<1>2. PlannerInv /\ [RoutingNext]_allVars => PlannerInv'
  BY PlannerStep DEF RoutingNext, allVars
<1>3. PlannerInv => HitsEarned /\ ConfidenceHeeded
  BY DEF PlannerInv
<1> QED
  BY <1>1, <1>2, <1>3, PTL DEF RoutingSpec

-----------------------------------------------------------------------------
\* What holds of zero and passes on to the next number holds of every number.
LEMMA NumbersInduct ==
  ASSUME NEW T, 0 \in T, \A n \in Nat : n \in T => n + 1 \in T
  PROVE  \A n \in Nat : n \in T
<1> SUFFICES ASSUME Nat \ T # {} PROVE FALSE
  OBVIOUS
<1>1. PICK x \in Nat \ T : \A y \in Nat \ T : ~ (<<y, x>> \in OpToRel(<, Nat))
  BY WFMin, NatLessThanWellFounded
<1>2. \A y \in Nat \ T : ~ (y < x)
  BY <1>1 DEF OpToRel
<1>3. x - 1 \in Nat /\ x - 1 \in T
  BY <1>2
<1> QED
  BY <1>3

\* What an entry may be named: a category of the store or a text.
Names == STRING \cup Texts

\* The names of x at the places of I, each as often as it is there.
NamesAt(x, I) == {x[i] : i \in I}

\* Sorting loses no name and makes none up.
LEMMA SortKeepsNames ==
  ASSUME NEW x \in Seq(Names), NEW e, NEW I \in SUBSET (1..Len(x)),
         \A i \in I : Stamp(e, x[i]) \in Int
  PROVE  SortedByStamp(e, x, I) \in Seq(Names) /\ ToSet(SortedByStamp(e, x, I)) = NamesAt(x, I)
<1> DEFINE before(i) == {j \in I : Earlier(e, x, j, i)}
           n == Cardinality(I)
           r == [i \in I |-> Cardinality(before(i))]
           s == SortedByStamp(e, x, I)
<1>1. IsFiniteSet(I) /\ n \in Nat /\ \A i \in I : i \in Nat
  <2>1. IsFiniteSet(1..Len(x))
    BY FS_Interval
  <2>2. IsFiniteSet(I)
    BY <2>1, FS_Subset
  <2> QED
    BY <2>2, FS_CardinalityType
<1>2. \A i \in I : IsFiniteSet(before(i)) /\ Cardinality(before(i)) \in 0..n - 1
  <2> SUFFICES ASSUME NEW i \in I
               PROVE  IsFiniteSet(before(i)) /\ Cardinality(before(i)) \in 0..n - 1
    OBVIOUS
  <2>1. ~Earlier(e, x, i, i)
    BY <1>1 DEF Earlier
  <2>2. before(i) \in SUBSET (I \ {i})
    BY <2>1
  <2>3. IsFiniteSet(I \ {i}) /\ Cardinality(I \ {i}) = n - 1
    BY <1>1, FS_RemoveElement
  <2>4. IsFiniteSet(before(i)) /\ Cardinality(before(i)) <= n - 1
    BY <2>2, <2>3, FS_Subset
  <2>5. Cardinality(before(i)) \in Nat
    BY <2>4, FS_CardinalityType
  <2> HIDE DEF before, n
  <2> QED
    BY <1>1, <2>4, <2>5
<1>3. ASSUME NEW i \in I, NEW j \in I, Earlier(e, x, i, j) PROVE r[i] < r[j]
  <2>1. before(i) \in SUBSET before(j)
    <3> SUFFICES ASSUME NEW k \in I, Earlier(e, x, k, i) PROVE Earlier(e, x, k, j)
      OBVIOUS
    <3> DEFINE a == Stamp(e, x[k])
               b == Stamp(e, x[i])
               c == Stamp(e, x[j])
    <3>1. a \in Int /\ b \in Int /\ c \in Int /\ i \in Nat /\ j \in Nat /\ k \in Nat
      BY <1>1
    <3>2. (a < b \/ (a = b /\ k < i)) /\ (b < c \/ (b = c /\ i < j))
      BY <1>3 DEF Earlier
    <3> HIDE DEF a, b, c
    <3>3. a < c \/ (a = c /\ k < j)
      BY <3>1, <3>2
    <3> QED
      BY <3>3 DEF a, b, c, Earlier
  <2>2. i \in before(j) /\ i \notin before(i)
    BY <1>1, <1>3 DEF Earlier
  <2>3. IsFiniteSet(before(i)) /\ IsFiniteSet(before(j)) /\ Cardinality(before(i)) \in Nat
          /\ Cardinality(before(j)) \in Nat
    BY <1>2, FS_CardinalityType
  <2> HIDE DEF before
  <2>4. Cardinality(before(i)) <= Cardinality(before(j))
          /\ Cardinality(before(i)) # Cardinality(before(j))
    BY <2>1, <2>2, <2>3, FS_Subset
  <2> QED
    BY <2>3, <2>4
<1>4. r \in [I -> 0..n - 1]
  BY <1>2
<1>5. ASSUME NEW i \in I, NEW j \in I, i # j PROVE r[i] # r[j]
  <2>1. Stamp(e, x[i]) \in Int /\ Stamp(e, x[j]) \in Int /\ i \in Nat /\ j \in Nat
    BY <1>1
  <2>2. Earlier(e, x, i, j) \/ Earlier(e, x, j, i)
    BY <1>5, <2>1 DEF Earlier
  <2>3. r[i] \in Int /\ r[j] \in Int
    BY <1>4
  <2> HIDE DEF r
  <2> QED
    BY <1>3, <2>2, <2>3
<1>6. \A k \in 0..n - 1 : \E i \in I : r[i] = k
  <2>1. r \in Injection(I, 0..n - 1)
    <3> HIDE DEF r
    <3>1. \A i \in I, j \in I : r[i] = r[j] => i = j
      BY <1>5
    <3> QED
      BY <1>4, <3>1 DEF Injection, IsInjective
  <2>2. IsFiniteSet(0..n - 1) /\ Cardinality(0..n - 1) = Cardinality(I)
    <3>0. 0 \in Int /\ n - 1 \in Int
      <4> HIDE DEF n
      <4> QED
        BY <1>1
    <3>1. IsFiniteSet(0..n - 1) /\ Cardinality(0..n - 1) = IF 0 > n - 1 THEN 0 ELSE (n - 1) - 0 + 1
      <4> HIDE DEF n
      <4> QED
        BY <3>0, FS_Interval
    <3>2. (IF 0 > n - 1 THEN 0 ELSE (n - 1) - 0 + 1) = n
      <4> HIDE DEF n
      <4> QED
        BY <1>1
    <3> QED
      BY <3>1, <3>2
  <2> HIDE DEF r
  <2>3. r \in Surjection(I, 0..n - 1)
    BY <2>1, <2>2, FS_Injection
  <2> QED
    BY <2>3 DEF Surjection
<1> DEFINE at == [k \in 1..n |-> CHOOSE i \in I : r[i] = k - 1]
<1>7. \A k \in 1..n : at[k] \in I /\ r[at[k]] = k - 1
  <2> SUFFICES ASSUME NEW k \in 1..n PROVE at[k] \in I /\ r[at[k]] = k - 1
    OBVIOUS
  <2>1. k - 1 \in 0..n - 1
    BY <1>1
  <2> HIDE DEF r
  <2>2. \E i \in I : r[i] = k - 1
    BY <1>6, <2>1
  <2> QED
    BY <2>2
<1>8. \A k \in 1..n : s[k] = x[at[k]]
  <2> SUFFICES ASSUME NEW k \in 1..n PROVE s[k] = x[at[k]]
    OBVIOUS
  <2>1. s[k] = x[CHOOSE i \in I : Cardinality(before(i)) = k - 1]
    BY DEF SortedByStamp
  <2>2. (CHOOSE i \in I : Cardinality(before(i)) = k - 1) = CHOOSE i \in I : r[i] = k - 1
    <3>1. \A i \in I : r[i] = Cardinality(before(i))
      OBVIOUS
    <3> HIDE DEF r, before
    <3> QED
      BY <3>1
  <2> QED
    BY <2>1, <2>2
<1>9. s \in [1..n -> NamesAt(x, I)]
  <2>1. s = [k \in 1..n |-> s[k]]
    BY DEF SortedByStamp
  <2>2. \A k \in 1..n : s[k] \in NamesAt(x, I)
    <3> HIDE DEF s, at, r
    <3> QED
      BY <1>7, <1>8 DEF NamesAt
  <2> HIDE DEF s
  <2> QED
    BY <2>1, <2>2
<1>10. NamesAt(x, I) \subseteq Names
  BY DEF NamesAt
<1> HIDE DEF s, at
<1>11. s \in Seq(Names)
  BY <1>1, <1>9, <1>10
<1>12. ASSUME NEW i \in I PROVE \E k \in 1..n : s[k] = x[i]
  <2>1. r[i] \in 0..n - 1
    BY <1>4
  <2> DEFINE k == r[i] + 1
  <2>2. k \in 1..n /\ k - 1 = r[i]
    <3> HIDE DEF r
    <3> QED
      BY <1>1, <2>1
  <2> HIDE DEF r, k
  <2>3. r[at[k]] = r[i] /\ at[k] \in I
    BY <1>7, <2>2
  <2>4. at[k] = i
    BY <1>5, <2>3
  <2> QED
    BY <1>8, <2>2, <2>4
<1>13. ToSet(s) = NamesAt(x, I)
  <2>1. DOMAIN s = 1..n
    BY <1>9
  <2>2. ToSet(s) = {s[k] : k \in 1..n}
    BY <2>1 DEF ToSet
  <2> QED
    BY <1>9, <1>12, <2>2 DEF NamesAt
<1> QED
  BY <1>11, <1>13 DEF s

\* The cache is in order: its entries are as many as it may hold at most, and every one
\* has a place in the list of names.
CacheWell(e, x) ==
  /\ x \in Seq(Names) /\ DOMAIN e \subseteq ToSet(x)
  /\ \A k \in DOMAIN e : e[k].stamp \in Int
  /\ Cardinality(DOMAIN e) <= MaxEntries

HasRoom(e, x) == CacheWell(e, x) /\ Cardinality(DOMAIN e) < MaxEntries

\* The names of a list, and so the entries, are finitely many.
LEMMA EntriesFinite ==
  ASSUME NEW e, NEW x, x \in Seq(Names), DOMAIN e \subseteq ToSet(x)
  PROVE  IsFiniteSet(DOMAIN e) /\ Cardinality(DOMAIN e) \in Nat
<1>1. x \in Surjection(1..Len(x), ToSet(x))
  <2>1. DOMAIN x = 1..Len(x)
    OBVIOUS
  <2>2. ToSet(x) = {x[i] : i \in 1..Len(x)}
    BY <2>1 DEF ToSet
  <2>3. x = [i \in 1..Len(x) |-> x[i]]
    BY <2>1
  <2>4. x \in [1..Len(x) -> ToSet(x)]
    BY <2>2, <2>3
  <2> QED
    BY <2>2, <2>4 DEF Surjection
<1>2. IsFiniteSet(1..Len(x))
  BY FS_Interval
<1>3. IsFiniteSet(ToSet(x))
  BY <1>1, <1>2, FS_Surjection
<1> QED
  BY <1>3, FS_Subset, FS_CardinalityType

\* Evicting what is past its time leaves the names of the entries that are left.
LEMMA EvictedWell ==
  ASSUME NEW e, NEW x, CacheWell(e, x)
  PROVE  /\ CacheWell(evictExpired(e, x).e, evictExpired(e, x).x)
         /\ ToSet(evictExpired(e, x).x) = DOMAIN evictExpired(e, x).e
<1> DEFINE I == Live(e, x)
           keep == SortedByStamp(e, x, I)
           c == evictExpired(e, x)
<1>1. x \in Seq(Names) /\ DOMAIN e \subseteq ToSet(x) /\ \A k \in DOMAIN e : e[k].stamp \in Int
  BY DEF CacheWell
<1>2. I \in SUBSET (1..Len(x)) /\ \A i \in I : x[i] \in DOMAIN e
  BY DEF Live
<1>3. c.e = RestrictTo(e, ToSet(keep)) /\ c.x = keep
  BY DEF evictExpired
<1> HIDE DEF I, c
<1>4. \A i \in I : Stamp(e, x[i]) \in Int
  BY <1>1, <1>2 DEF Stamp
<1>5. keep \in Seq(Names) /\ ToSet(keep) = NamesAt(x, I)
  BY <1>1, <1>2, <1>4, SortKeepsNames
<1> HIDE DEF keep
<1>6. DOMAIN c.e = ToSet(keep) /\ \A k \in DOMAIN c.e : k \in DOMAIN e /\ c.e[k] = e[k]
  BY <1>2, <1>3, <1>5 DEF RestrictTo, NamesAt
<1>7. Cardinality(DOMAIN c.e) <= MaxEntries
  <2>1. IsFiniteSet(DOMAIN e) /\ Cardinality(DOMAIN e) \in Nat
          /\ Cardinality(DOMAIN e) <= MaxEntries
    BY <1>1, EntriesFinite DEF CacheWell
  <2>2. DOMAIN c.e \in SUBSET DOMAIN e
    BY <1>6
  <2>3. Cardinality(DOMAIN c.e) <= Cardinality(DOMAIN e) /\ IsFiniteSet(DOMAIN c.e)
    BY <2>1, <2>2, FS_Subset
  <2>4. Cardinality(DOMAIN c.e) \in Nat
    BY <2>3, FS_CardinalityType
  <2> QED
    BY <2>1, <2>3, <2>4, CacheAssumption
<1>8. c.x \in Seq(Names) /\ ToSet(c.x) = DOMAIN c.e /\ \A k \in DOMAIN c.e : c.e[k].stamp \in Int
  BY <1>1, <1>3, <1>5, <1>6
<1> QED
  BY <1>7, <1>8 DEF CacheWell, c

\* A full cache loses its oldest entry and stays in order.
LEMMA LruMakesRoom ==
  ASSUME NEW c, CacheWell(c.e, c.x), ToSet(c.x) = DOMAIN c.e,
         ~(Cardinality(DOMAIN c.e) < MaxEntries)
  PROVE  HasRoom(evictLru(c).e, evictLru(c).x)
<1> DEFINE D == DOMAIN c.e
           d == evictLru(c)
<1>1. /\ c.x \in Seq(Names) /\ D = ToSet(c.x) /\ (\A k \in D : c.e[k].stamp \in Int)
      /\ IsFiniteSet(D) /\ Cardinality(D) \in Nat /\ Cardinality(D) <= MaxEntries
  BY EntriesFinite DEF CacheWell
<1>2. c.x # <<>>
  <2>1. ASSUME c.x = <<>> PROVE FALSE
    <3>1. D = {}
      BY <1>1, <2>1 DEF ToSet
    <3>2. Cardinality(D) = 0
      BY <3>1, FS_EmptySet
    <3> QED
      BY <3>2, CacheAssumption
  <2> QED
    BY <2>1
<1>3. d.e = RestrictTo(c.e, D \ {Head(c.x)}) /\ d.x = Tail(c.x)
  BY <1>2 DEF evictLru
<1> DEFINE h == Head(c.x)
           t == Tail(c.x)
<1>4. /\ Len(c.x) \in Nat \ {0} /\ h = c.x[1] /\ t \in Seq(Names) /\ Len(t) = Len(c.x) - 1
      /\ \A i \in 1..Len(c.x) - 1 : t[i] = c.x[i + 1]
  BY <1>1, <1>2
<1>5. h \in D
  <2>1. 1 \in DOMAIN c.x
    BY <1>1, <1>4
  <2> QED
    BY <1>1, <1>4, <2>1 DEF ToSet
<1> HIDE DEF d
<1>6. DOMAIN d.e = D \ {h} /\ \A k \in DOMAIN d.e : d.e[k] = c.e[k]
  BY <1>3 DEF RestrictTo
<1> HIDE DEF h, t
<1>7. D \ {h} \subseteq ToSet(t)
  <2> SUFFICES ASSUME NEW k \in D, k # h PROVE k \in ToSet(t)
    OBVIOUS
  <2>1. PICK i \in 1..Len(c.x) : c.x[i] = k
    <3>1. DOMAIN c.x = 1..Len(c.x)
      BY <1>1
    <3> QED
      BY <1>1, <3>1 DEF ToSet
  <2>2. i - 1 \in 1..Len(c.x) - 1 /\ (i - 1) + 1 = i
    BY <1>4, <2>1
  <2>3. t[i - 1] = k /\ i - 1 \in DOMAIN t
    BY <1>4, <2>1, <2>2
  <2> QED
    BY <2>3 DEF ToSet
<1>8. Cardinality(D \ {h}) = Cardinality(D) - 1
  BY <1>1, <1>5, FS_RemoveElement
<1>9. Cardinality(DOMAIN d.e) < MaxEntries /\ Cardinality(DOMAIN d.e) <= MaxEntries
  BY <1>1, <1>6, <1>8, CacheAssumption
<1>10. d.x \in Seq(Names) /\ DOMAIN d.e \subseteq ToSet(d.x)
         /\ \A k \in DOMAIN d.e : d.e[k].stamp \in Int
  BY <1>1, <1>3, <1>4, <1>6, <1>7 DEF h, t
<1> QED
  BY <1>9, <1>10 DEF HasRoom, CacheWell, d

\* Making room does make room, and leaves the cache in order.
LEMMA RoomMade ==
  ASSUME NEW e, NEW x, CacheWell(e, x)
  PROVE  HasRoom(MakeRoom(e, x).e, MakeRoom(e, x).x)
<1> DEFINE c == evictExpired(e, x)
<1>1. CASE Cardinality(DOMAIN e) < MaxEntries
  BY <1>1 DEF MakeRoom, HasRoom
<1>2. CASE ~(Cardinality(DOMAIN e) < MaxEntries)
  <2>1. CacheWell(c.e, c.x) /\ ToSet(c.x) = DOMAIN c.e
    BY EvictedWell
  <2>2. MakeRoom(e, x) = IF Cardinality(DOMAIN c.e) < MaxEntries THEN c ELSE evictLru(c)
    BY <1>2 DEF MakeRoom
  <2> HIDE DEF c
  <2>3. CASE Cardinality(DOMAIN c.e) < MaxEntries
    BY <2>1, <2>2, <2>3 DEF HasRoom
  <2>4. CASE ~(Cardinality(DOMAIN c.e) < MaxEntries)
    BY <2>1, <2>2, <2>4, LruMakesRoom
  <2> QED
    BY <2>3, <2>4
<1> QED
  BY <1>1, <1>2

\* A cache with room for one more entry takes one and stays in order.
LEMMA StoredWell ==
  ASSUME NEW c, HasRoom(c.e, c.x), NEW k \in Names, NEW v, v.stamp \in Int
  PROVE  CacheWell(Store(c, k, v).e, Store(c, k, v).x)
<1> DEFINE d == Store(c, k, v)
<1>1. /\ c.x \in Seq(Names) /\ DOMAIN c.e \subseteq ToSet(c.x)
      /\ (\A m \in DOMAIN c.e : c.e[m].stamp \in Int)
      /\ IsFiniteSet(DOMAIN c.e) /\ Cardinality(DOMAIN c.e) \in Nat
      /\ Cardinality(DOMAIN c.e) < MaxEntries
  BY EntriesFinite DEF HasRoom, CacheWell
<1>2. /\ d.x = Append(c.x, k) /\ DOMAIN d.e = DOMAIN c.e \cup {k}
      /\ \A m \in DOMAIN d.e : d.e[m] = IF m = k THEN v ELSE c.e[m]
  BY DEF Store
<1> HIDE DEF d
<1>3. \A m \in DOMAIN d.e : d.e[m].stamp \in Int
  BY <1>1, <1>2
<1>4. Cardinality(DOMAIN d.e) <= MaxEntries
  <2>1. Cardinality(DOMAIN c.e \cup {k})
        = IF k \in DOMAIN c.e THEN Cardinality(DOMAIN c.e) ELSE Cardinality(DOMAIN c.e) + 1
    BY <1>1, FS_AddElement
  <2> QED
    BY <1>1, <1>2, <2>1, CacheAssumption
<1>5. d.x \in Seq(Names) /\ Len(d.x) = Len(c.x) + 1 /\ d.x[Len(c.x) + 1] = k
        /\ \A i \in 1..Len(c.x) : d.x[i] = c.x[i]
  BY <1>1, <1>2
<1>6. DOMAIN d.e \subseteq ToSet(d.x)
  <2>1. DOMAIN c.x = 1..Len(c.x) /\ DOMAIN d.x = 1..Len(c.x) + 1 /\ Len(c.x) \in Nat
    BY <1>1, <1>5
  <2>2. Len(c.x) + 1 \in DOMAIN d.x /\ \A i \in DOMAIN c.x : i \in DOMAIN d.x /\ d.x[i] = c.x[i]
    BY <1>5, <2>1
  <2> QED
    BY <1>1, <1>2, <1>5, <2>2 DEF ToSet
<1> QED
  BY <1>3, <1>4, <1>5, <1>6 DEF CacheWell, d

\* The cache before anything was warmed.
Empty == [e |-> <<>>, x |-> <<>>]

\* How the cache grows over the first n rows.
WarmRun(g, rows, n) ==
  g = [i \in 0..n |-> IF i = 0 THEN Empty ELSE Warmed(g[i - 1], rows[i])]

\* A row of the confidence store.
StoredRow == [category : STRING, route : Routes, age : Nat]

\* The cache can be warmed with any rows.
LEMMA WarmRunExists ==
  ASSUME NEW rows \in Seq(StoredRow)
  PROVE  \E g : WarmRun(g, rows, Len(rows))
<1> DEFINE T == {n \in Nat : \E g : WarmRun(g, rows, n)}
<1>1. 0 \in T
  <2>1. WarmRun([i \in 0..0 |-> Empty], rows, 0)
    BY DEF WarmRun
  <2> QED
    BY <2>1
<1>2. ASSUME NEW n \in Nat, n \in T PROVE n + 1 \in T
  <2>1. PICK g : WarmRun(g, rows, n)
    BY <1>2
  <2> DEFINE step(f, i) == IF i = 0 THEN Empty ELSE Warmed(f[i - 1], rows[i])
  <2>2. \A i \in 0..n : g[i] = step(g, i)
    BY <2>1 DEF WarmRun
  <2> DEFINE h == [i \in 0..n + 1 |-> IF i = n + 1 THEN Warmed(g[n], rows[n + 1]) ELSE g[i]]
  <2>3. h[n + 1] = Warmed(g[n], rows[n + 1]) /\ (\A i \in 0..n : h[i] = g[i]) /\ DOMAIN h = 0..n + 1
    OBVIOUS
  <2>4. \A i \in 0..n + 1 : h[i] = step(h, i)
    <3> SUFFICES ASSUME NEW i \in 0..n + 1 PROVE h[i] = step(h, i)
      OBVIOUS
    <3> HIDE DEF h
    <3>1. CASE i = 0
      <4>1. h[i] = g[i] /\ i \in 0..n
        BY <2>3, <3>1
      <4> QED
        BY <2>2, <3>1, <4>1
    <3>2. CASE i \in 1..n
      <4>1. i - 1 \in 0..n /\ i \in 0..n /\ i # 0
        BY <3>2
      <4>2. h[i] = g[i] /\ h[i - 1] = g[i - 1]
        BY <2>3, <4>1
      <4>3. g[i] = Warmed(g[i - 1], rows[i])
        BY <2>2, <4>1
      <4> QED
        BY <4>1, <4>2, <4>3
    <3>3. CASE i = n + 1
      <4>1. i - 1 = n /\ n \in 0..n /\ i # 0
        BY <3>3
      <4>2. h[i - 1] = g[n]
        BY <2>3, <4>1
      <4> QED
        BY <2>3, <3>3, <4>1, <4>2
    <3> QED
      BY <3>1, <3>2, <3>3
  <2>5. h = [i \in 0..n + 1 |-> h[i]]
    OBVIOUS
  <2> HIDE DEF h
  <2>6. WarmRun(h, rows, n + 1)
    BY <2>4, <2>5 DEF WarmRun
  <2> QED
    BY <2>6
<1>3. \A n \in Nat : n \in T
  <2> HIDE DEF T
  <2> QED
    BY <1>1, <1>2, NumbersInduct
<1>4. Len(rows) \in Nat
  OBVIOUS
<1> QED
  BY <1>3, <1>4

\* What Warm returns is where that leads.
LEMMA WarmIsRun ==
  ASSUME NEW rows \in Seq(StoredRow)
  PROVE  \E g : WarmRun(g, rows, Len(rows)) /\ Warm(rows) = g[Len(rows)]
<1> DEFINE g == CHOOSE g : WarmRun(g, rows, Len(rows))
<1>1. WarmRun(g, rows, Len(rows))
  BY WarmRunExists
<1>2. Warm(rows) = g[Len(rows)]
  BY DEF Warm, WarmRun, Empty
<1> QED
  BY <1>1, <1>2

\* A row leaves the cache in order.
LEMMA WarmedWell ==
  ASSUME NEW c, CacheWell(c.e, c.x), NEW r \in StoredRow
  PROVE  CacheWell(Warmed(c, r).e, Warmed(c, r).x)
<1> DEFINE m == MakeRoom(c.e, c.x)
           v == [route |-> r.route, stamp |-> 0 - r.age, emb |-> FALSE]
<1>1. CASE r.age > TTL
  BY <1>1 DEF Warmed
<1>2. CASE ~(r.age > TTL)
  <2>1. HasRoom(m.e, m.x)
    BY RoomMade
  <2>2. r.category \in Names /\ v.stamp \in Int
    BY DEF Names, StoredRow
  <2>3. Warmed(c, r) = Store(m, r.category, v)
    BY <1>2 DEF Warmed
  <2> HIDE DEF m, v
  <2> QED
    BY <2>1, <2>2, <2>3, StoredWell
<1> QED
  BY <1>1, <1>2

\* The warmed cache is in order.
LEMMA WarmWell ==
  ASSUME NEW rows \in Seq(StoredRow)
  PROVE  CacheWell(Warm(rows).e, Warm(rows).x)
<1>1. PICK g : WarmRun(g, rows, Len(rows)) /\ Warm(rows) = g[Len(rows)]
  BY WarmIsRun
<1>2. Len(rows) \in Nat /\ \A i \in 1..Len(rows) : rows[i] \in StoredRow
  OBVIOUS
<1>3. g[0] = Empty /\ \A i \in 1..Len(rows) : g[i] = Warmed(g[i - 1], rows[i])
  <2>1. \A i \in 0..Len(rows) : g[i] = IF i = 0 THEN Empty ELSE Warmed(g[i - 1], rows[i])
    BY <1>1 DEF WarmRun
  <2> QED
    BY <1>2, <2>1
<1> DEFINE T == {n \in Nat : n <= Len(rows) => CacheWell(g[n].e, g[n].x)}
<1>4. 0 \in T
  <2>1. DOMAIN <<>> = {} /\ <<>> \in Seq(Names) /\ Cardinality({}) = 0
    BY FS_EmptySet
  <2>2. CacheWell(<<>>, <<>>)
    BY <2>1, CacheAssumption DEF CacheWell
  <2>3. g[0].e = <<>> /\ g[0].x = <<>>
    BY <1>3 DEF Empty
  <2> QED
    BY <2>2, <2>3
<1>5. ASSUME NEW n \in Nat, n \in T PROVE n + 1 \in T
  <2> SUFFICES ASSUME n + 1 <= Len(rows) PROVE CacheWell(g[n + 1].e, g[n + 1].x)
    OBVIOUS
  <2>1. n + 1 \in 1..Len(rows) /\ (n + 1) - 1 = n /\ CacheWell(g[n].e, g[n].x)
    BY <1>2, <1>5
  <2>2. g[n + 1] = Warmed(g[n], rows[n + 1]) /\ rows[n + 1] \in StoredRow
    BY <1>2, <1>3, <2>1
  <2> QED
    BY <2>1, <2>2, WarmedWell
<1>6. \A n \in Nat : n \in T
  <2> HIDE DEF T
  <2> QED
    BY <1>4, <1>5, NumbersInduct
<1>7. CacheWell(g[Len(rows)].e, g[Len(rows)].x)
  BY <1>2, <1>6
<1> QED
  BY <1>1, <1>7

\* The cache is in order, and a planner that waits asked about a text.
CacheInv ==
  /\ CacheWell(entries, expiry) /\ now \in Int
  /\ asking \in [Planners -> Texts \cup {Idle}]

\* A planner starts with its cache in order.
LEMMA CacheStarts == RoutingInit => CacheInv
<1> SUFFICES ASSUME RoutingInit PROVE CacheInv
  OBVIOUS
<1>1. PICK rows \in Outcomes : entries = Warm(rows).e
        /\ expiry = SortedByStamp(Warm(rows).e, Warm(rows).x, 1..Len(Warm(rows).x))
  BY DEF RoutingInit, Init
<1>2. now = 0 /\ asking = [p \in Planners |-> Idle]
  BY DEF RoutingInit, Init
<1> DEFINE e == Warm(rows).e
           x == Warm(rows).x
<1>3. rows \in Seq(StoredRow)
  BY CacheAssumption DEF StoredRow
<1>4. CacheWell(e, x)
  BY <1>3, WarmWell
<1> HIDE DEF e, x
<1>5. x \in Seq(Names) /\ DOMAIN e \subseteq ToSet(x) /\ \A k \in DOMAIN e : e[k].stamp \in Int
  BY <1>4 DEF CacheWell
<1>6. \A i \in 1..Len(x) : Stamp(e, x[i]) \in Int
  BY <1>5, RoutingAssumption DEF Stamp
<1>7. SortedByStamp(e, x, 1..Len(x)) \in Seq(Names)
        /\ ToSet(SortedByStamp(e, x, 1..Len(x))) = NamesAt(x, 1..Len(x))
  BY <1>5, <1>6, SortKeepsNames
<1>8. NamesAt(x, 1..Len(x)) = ToSet(x)
  <2>1. DOMAIN x = 1..Len(x)
    BY <1>5
  <2> QED
    BY <2>1 DEF NamesAt, ToSet
<1>9. CacheWell(e, SortedByStamp(e, x, 1..Len(x)))
  BY <1>4, <1>5, <1>7, <1>8 DEF CacheWell
<1>10. CacheWell(entries, expiry)
  BY <1>1, <1>9 DEF e, x
<1> QED
  BY <1>2, <1>10 DEF CacheInv

\* Every step keeps the cache in order.
LEMMA CacheStep == CacheInv /\ [Next]_vars => CacheInv'
<1> SUFFICES ASSUME CacheInv, [Next]_vars PROVE CacheInv'
  OBVIOUS
<1>0. CacheWell(entries, expiry) /\ now \in Int /\ asking \in [Planners -> Texts \cup {Idle}]
  BY DEF CacheInv
<1>1. ASSUME UNCHANGED <<entries, expiry, now>>, asking' \in [Planners -> Texts \cup {Idle}]
      PROVE CacheInv'
  BY <1>0, <1>1 DEF CacheInv
<1>2. ASSUME NEW p \in Planners, NEW t \in Texts, NEW load, Plan(p, t, load) PROVE CacheInv'
  <2>1. UNCHANGED <<entries, expiry, now>>
    BY <1>2 DEF Plan
  <2>2. asking' = asking \/ asking' = [asking EXCEPT ![p] = t]
    BY <1>2 DEF Plan, PlanSLM
  <2>3. asking' \in [Planners -> Texts \cup {Idle}]
    BY <1>0, <2>2
  <2> QED
    BY <1>1, <2>1, <2>3
<1>3. ASSUME NEW p \in Planners, NEW reply, SLMReturns(p, reply) PROVE CacheInv'
  <2>1. now' = now /\ asking' \in [Planners -> Texts \cup {Idle}]
    BY <1>0, <1>3 DEF SLMReturns
  <2>2. \/ UNCHANGED <<entries, expiry>>
        \/ \E ok, route : Set(asking[p], route, ok)
    BY <1>3 DEF SLMReturns, Accept
  <2>3. ASSUME NEW ok, NEW route, Set(asking[p], route, ok) PROVE CacheWell(entries', expiry')
    <3> DEFINE m == MakeRoom(entries, expiry)
               v == [route |-> route, stamp |-> now, emb |-> ok]
               k == asking[p]
    <3>1. entries' = Store(m, k, v).e /\ expiry' = Store(m, k, v).x
      BY <2>3 DEF Set
    <3>2. k \in Names /\ v.stamp \in Int
      <4>1. asking[p] \in Texts
        BY <1>0, <1>3 DEF SLMReturns
      <4> QED
        BY <1>0, <4>1 DEF Names
    <3>3. HasRoom(m.e, m.x)
      BY <1>0, RoomMade
    <3> HIDE DEF m, v, k
    <3> QED
      BY <3>1, <3>2, <3>3, StoredWell
  <2>4. CacheWell(entries', expiry')
    BY <1>0, <2>2, <2>3
  <2> QED
    BY <1>0, <2>1, <2>4 DEF CacheInv
<1>4. CASE EvictExpired
  <2>1. /\ entries' = evictExpired(entries, expiry).e /\ expiry' = evictExpired(entries, expiry).x
        /\ UNCHANGED <<now, asking>>
    BY <1>4 DEF EvictExpired
  <2>2. CacheWell(evictExpired(entries, expiry).e, evictExpired(entries, expiry).x)
    BY <1>0, EvictedWell
  <2>3. CacheWell(entries', expiry')
    BY <2>1, <2>2
  <2> QED
    BY <1>0, <2>1, <2>3 DEF CacheInv
<1>5. CASE Tick
  <2>1. now' = now + 1 /\ UNCHANGED <<entries, expiry, asking>>
    BY <1>5 DEF Tick
  <2> QED
    BY <1>0, <2>1 DEF CacheInv
<1>6. ASSUME NEW c, NEW good, RecordOutcome(c, good) PROVE CacheInv'
  BY <1>0, <1>1, <1>6 DEF RecordOutcome, cacheVars
<1>7. ASSUME NEW c, WindowPasses(c) PROVE CacheInv'
  BY <1>0, <1>1, <1>7 DEF WindowPasses, cacheVars
<1>8. CASE UNCHANGED vars
  BY <1>0, <1>1, <1>8 DEF vars
<1> QED
  BY <1>2, <1>3, <1>4, <1>5, <1>6, <1>7, <1>8 DEF Next

\* For any planners, texts, cap, TTL and rows to start from: the cache holds no more entries
\* than its cap, and each of them has its name in the expiry list, where an eviction finds
\* it, although a text stored twice has two places there (internal/router/slm_cache.go).
THEOREM RoutingCacheBounded == RoutingSpec => []CacheBounded
<1>1. CacheInv /\ [RoutingNext]_allVars => CacheInv'
  BY CacheStep DEF RoutingNext, allVars
<1>2. CacheInv => CacheBounded
  BY DEF CacheInv, CacheWell, CacheBounded
<1> QED
  BY <1>1, <1>2, CacheStarts, PTL DEF RoutingSpec

\* Decisions served from the cache were earned within the last TTL, heed the confidence of
\* their category, and the cache stays within its bound: for any planners, texts, replies,
\* caps and TTLs, as long as no text is the name of a category with outcomes to start from
\* (internal/router/planner.go, slm_cache.go).
THEOREM RoutingPlansSound == WarmApart /\ RoutingSpec => []PlansSound
BY RoutingDecisionsEarned, RoutingCacheBounded, PTL DEF PlansSound
=============================================================================
