-------------------------- MODULE PatternPromoter --------------------------
(***************************************************************************)
(* The pattern promoter (src/internal/router/promoter.go): a bounded       *)
(* history of routing decisions, from which n-grams that nearly always     *)
(* lead to the same route are promoted to fast-pass patterns, kept in      *)
(* memory and in a SQLite table.  Decisions arrive while a recomputation   *)
(* works on its copy, and the process may die between any two steps.       *)
(***************************************************************************)
EXTENDS Integers, Sequences, FiniteSets

CONSTANTS
  Prompts,
  Grams,        \* tokenize: the n-grams of each prompt, without repetition
  MinCount,     \* NEXUS_DSL_PROMOTION_MIN_SAMPLES
  Share,        \* NEXUS_DSL_PROMOTION_CONFIDENCE, in percent
  MaxHistory,   \* maxDecisionHistory
  MaxRecords    \* decisions recorded in one behaviour

VARIABLES
  decisions,  \* PatternPromoter.decisions
  promoted,   \* PatternPromoter.promoted
  table,      \* the promoted_dsl_patterns table
  recompute,  \* "idle", "computing" on a copy, or "persisting"
  copied,     \* the copy
  behind,     \* has a write to the table failed since one succeeded?
  ever        \* how often each prompt was sent down each route, over all lives

promoterVars == <<decisions, promoted, table, recompute, copied, behind, ever>>

AllGrams == UNION {Grams[p] : p \in Prompts}
PromoterRoutes == {"local", "fusion", "frontier"}

PromoterInit ==
  /\ decisions = <<>> /\ promoted = {} /\ table = {} /\ recompute = "idle" /\ copied = <<>>
  /\ behind = FALSE /\ ever = [x \in Prompts \X PromoterRoutes |-> 0]

Recorded == Cardinality({o \in (Prompts \X PromoterRoutes) \X (1..MaxRecords) : o[2] <= ever[o[1]]})

\* RecordDecision: a history that has grown too long loses its older half.
RecordDecision(p, route) ==
  /\ Recorded < MaxRecords
  /\ LET h == Append(decisions, <<p, route>>) IN
     decisions' = IF Len(h) > MaxHistory THEN SubSeq(h, (Len(h) \div 2) + 1, Len(h)) ELSE h
  /\ ever' = [ever EXCEPT ![<<p, route>>] = @ + 1]
  /\ UNCHANGED <<promoted, table, recompute, copied, behind>>

Count(h, g, routes) == Cardinality({i \in 1..Len(h) : g \in Grams[h[i][1]] /\ h[i][2] \in routes})

\* extractPromotableNGrams: enough decisions, and one route, never the frontier, with
\* its share of them.
Extract(h) ==
  {x \in [gram : AllGrams, route : {"local", "fusion"}] :
     LET n == Count(h, x.gram, {x.route})
         total == Count(h, x.gram, PromoterRoutes)
     IN total >= MinCount /\ n * 100 >= Share * total /\ n > 0}

\* Recompute: a copy under the read lock; the result under the write lock; the table.
Copy ==
  /\ recompute = "idle" /\ recompute' = "computing" /\ copied' = decisions
  /\ UNCHANGED <<decisions, promoted, table, behind, ever>>

Promote ==
  /\ recompute = "computing" /\ recompute' = "persisting"
  /\ promoted' = Extract(copied) /\ copied' = <<>>
  /\ UNCHANGED <<decisions, table, behind, ever>>

\* The rows that are no longer promoted stay.
BugPersist ==
  /\ recompute = "persisting" /\ recompute' = "idle"
  /\ \/ table' = {x \in table : x.gram \notin {y.gram : y \in promoted}} \cup promoted /\ behind' = FALSE
     \/ UNCHANGED table /\ behind' = TRUE
  /\ UNCHANGED <<decisions, promoted, copied, ever>>

\* persist: the table is cleared and filled in one transaction; a row that cannot be
\* written is skipped, a transaction that cannot be committed changes nothing.
Persist ==
  /\ recompute = "persisting" /\ recompute' = "idle"
  /\ \/ table' = promoted /\ behind' = FALSE
     \/ \E x \in promoted : table' = promoted \ {x} /\ behind' = TRUE
     \/ UNCHANGED table /\ behind' = TRUE
  /\ UNCHANGED <<decisions, promoted, copied, ever>>

\* The process ends, and NewPatternPromoter and loadPersisted start the next one.
Restart ==
  /\ promoted' = table /\ decisions' = <<>> /\ recompute' = "idle" /\ copied' = <<>>
  /\ behind' = FALSE /\ UNCHANGED <<table, ever>>

PromoterNext ==
  \/ \E p \in Prompts, route \in PromoterRoutes : RecordDecision(p, route)
  \/ Copy \/ Promote \/ Persist \/ Restart
-----------------------------------------------------------------------------
\* The decisions, over all lives, that sent a prompt with the n-gram down the route.
Occasions(g, route) ==
  {o \in Prompts \X (1..MaxRecords) : g \in Grams[o[1]] /\ o[2] <= ever[<<o[1], route>>]}

\* Match in memory or after a restart never uses a pattern that the recorded
\* decisions did not earn: a promoted n-gram was sent down its route in at least its
\* share of the smallest sample, whatever was recorded, copied, lost or reloaded
\* since; and unless a write failed the table holds what is promoted.
PatternsEarned ==
  /\ \A x \in promoted \cup table : Cardinality(Occasions(x.gram, x.route)) * 100 >= Share * MinCount
  /\ recompute # "persisting" /\ ~behind => table = promoted
=============================================================================
