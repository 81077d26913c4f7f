----------------------------- MODULE ChatIntake -----------------------------
(***************************************************************************)
(* The front half of the chat handler, from the arrival of a request to    *)
(* the choice of a route: the early rejections, the scan for prompt        *)
(* injection, model aliases, prompt engineering, retrieval, compression    *)
(* of JSON into TOON, and what the planner is asked.  Requests share the   *)
(* embedding cache and its hit counter.                                    *)
(*                                                                         *)
(* A message is what the stages tell apart: who wrote it, whether its      *)
(* content is a string or a list of parts (the OpenAI array form, or none  *)
(* at all), its length, the JSON in it, and what the proxy put in.  `own'  *)
(* is whether the client's content is still there.                         *)
(***************************************************************************)
EXTENDS Integers, Sequences, SequencesExt, FiniteSetsExt

CONSTANTS
    Requests,
    Traffic,            \* the requests the clients may send: functions on Requests
    Settings,           \* configurations: mode, scan, meta, strict, unfenced, topK
    Routes,             \* the planner's verdicts
    Examples,           \* what a retrieval may return: lengths of the examples found
    MaxInjection,       \* RAGMaxInjectionTokens
    MaxBytes,           \* EffectiveMaxBodyBytes, as far as the injected block meets it
    Turns               \* RoutingContextTurns

VARIABLES
    cfg,                \* the configuration in force
    asked,              \* the request each client sent
    stage,              \* where its handler is
    msgs,               \* the conversation as it stands
    refusal,            \* the reason recorded for a rejected request, or "none"
    before,             \* the hit counter as read before the retrieval
    hits, embedded,     \* EmbedHitCount, and the prompts the embedding cache holds
    served,             \* whether the cache answered this request's own retrieval
    seen,               \* the retrieval event and the cacheHit flag reported
    plan                \* what the planner is asked and what comes of it

intakeVars == <<cfg, asked, stage, msgs, refusal, before, hits, embedded, served, seen, plan>>

NoWords == "empty"      \* the empty string

Isolated == cfg.mode \in {"warn", "strict"}

Note(text) ==
    [from |-> 0, role |-> "system", text |-> TRUE, says |-> NoWords, size |-> 1, json |-> {}, suspect |-> FALSE,
     marks |-> {}, own |-> TRUE, added |-> {text}]

\* Messages of a role whose content satisfies a condition.
Where(ms, role, Ok(_)) == {i \in DOMAIN ms : ms[i].role = role /\ Ok(ms[i])}
AnyContent(x) == TRUE

-----------------------------------------------------------------------------
(* Rejections, in the order in which the handler meets them. *)

\* DetectSuspiciousRoles: a text holding the policy's opening mark is never looked at.
DetectSuspiciousRoles(ms) ==
    {i \in DOMAIN ms : /\ ms[i].role \in cfg.scan /\ ms[i].text
                       /\ "begin" \notin ms[i].marks /\ ms[i].suspect}

\* ResolveAlias: "dangling" is an alias whose provider is not registered.
ResolveAlias(model) == model = "alias"

\* HasProviderModel.
HasProviderModel(model) == model = "provider"

\* The first reason to turn a request away, or "none".
Rejection(q) ==
    IF q.kind = "method" THEN "method"
    ELSE IF q.kind = "huge" THEN "body_too_large"
    ELSE IF q.kind # "chat" THEN "bad_request"
    ELSE IF cfg.mode = "strict" /\ DetectSuspiciousRoles(q.talk) # {} THEN "bad_request"
    ELSE IF cfg.strict /\ q.model # "none" /\ ~ResolveAlias(q.model) /\ ~HasProviderModel(q.model)
         THEN "bad_request"
    ELSE "none"

-----------------------------------------------------------------------------
(* The transformations. *)

\* The proxy adds to a message; a content that is no string is replaced.
With(m, what) == [m EXCEPT !.own = @ /\ m.text, !.text = TRUE, !.added = @ \union {what}]

Extended(ms, i, what) == [ms EXCEPT ![i] = With(ms[i], what)]

ApplyPromptEngineering(ms) ==
    LET S == Where(ms, "system", AnyContent) IN
    IF ~cfg.meta THEN ms
    ELSE IF S = {} THEN <<Note("policy")>> \o ms
    ELSE Extended(ms, Min(S), "policy")

ApplyPromptEngineeringIsolated(ms) ==
    IF cfg.meta THEN <<[Note("policy") EXCEPT !.marks = {"begin", "end"}]>> \o ms ELSE ms

\* The block goes to the latest user message, unless it would grow beyond the limit.
Grown(m, size) == (IF m.text THEN m.size ELSE 0) + size

\* InjectRAGWithLimit.
InjectRAG(ms, size) ==
    LET U == Where(ms, "user", AnyContent) IN
    IF U = {} \/ Grown(ms[Max(U)], size) > MaxBytes THEN ms
    ELSE [ms EXCEPT ![Max(U)] = [With(ms[Max(U)], "context") EXCEPT !.size = Grown(ms[Max(U)], size)]]

\* The examples kept of a list: the first always, then as long as the tokens last.
Kept(found) ==
    LET Total(n) == FoldSeq(+, 0, SubSeq(found, 1, n))
    IN  Max({1} \union {n \in DOMAIN found : \A k \in 2..n : Total(k) <= MaxInjection})

Block(found) ==
    IF cfg.topK THEN FoldSeq(+, 0, SubSeq(found, 1, Kept(found))) ELSE found[1]

\* The JSON that compression finds in a message.
Compressible(m) ==
    IF m.role \in {"user", "assistant"} /\ m.text
    THEN m.json \cap ({"fenced", "nested"} \union IF cfg.unfenced THEN {"unfenced"} ELSE {})
    ELSE {}

\* CompressJSONBlocks.  Once something was found, every later user or assistant message
\* is written back from its string, which for a content that is no string is empty.
CompressJSONBlocks(ms) ==
    [i \in DOMAIN ms |->
        IF ms[i].role \notin {"user", "assistant"} \/ \A j \in 1..i : Compressible(ms[j]) = {}
        THEN ms[i]
        ELSE [ms[i] EXCEPT !.own = @ /\ ms[i].text, !.text = TRUE,
                           !.json = @ \ Compressible(ms[i])]]

CompressionMethod(ms) ==
    LET found == UNION {Compressible(ms[i]) : i \in DOMAIN ms}
    IN  CASE "fenced" \in found -> "fenced"
          [] "nested" \in found /\ "fenced" \notin found -> "nested"
          [] OTHER -> IF found = {} THEN "none" ELSE "unfenced"

AppendSystemNote(ms) ==
    LET S == Where(ms, "system", AnyContent)
    IN  IF S = {} THEN <<Note("notice")>> \o ms ELSE Extended(ms, Min(S), "notice")

BugAppendSystemNoteIsolated(ms) == AppendSystemNote(ms)

\* The notice goes inside the first policy block, before its closing mark.
AppendSystemNoteIsolated(ms) ==
    LET P == Where(ms, "system", LAMBDA m : m.text /\ "begin" \in m.marks)
    IN  IF P = {} THEN <<[Note("notice") EXCEPT !.marks = {"begin", "end"}]>> \o ms
        ELSE IF "end" \in ms[Min(P)].marks THEN Extended(ms, Min(P), "notice") ELSE ms

-----------------------------------------------------------------------------
(* What the planner is asked. *)

\* ExtractLatestUserPrompt: the latest user message with a string; 0 for none.
Prompt(ms) ==
    LET U == Where(ms, "user", LAMBDA m : m.text)
    IN  IF U = {} THEN 0 ELSE Max(U)

\* BuildConversationContext: the turns before the latest user message.
Context(ms) ==
    LET U == Where(ms, "user", AnyContent)
        end == IF U = {} THEN Len(ms) + 1 ELSE Max(U)
    IN  {i \in Max({1, end - Turns})..(end - 1) : ms[i].role # "system"}

-----------------------------------------------------------------------------
NoPlan == [prompt |-> 0, context |-> {}, route |-> "none", told |-> "none"]

IntakeInit ==
    /\ cfg \in Settings
    /\ asked \in Traffic
    /\ stage = [r \in Requests |-> "new"]
    /\ msgs = [r \in Requests |-> asked[r].talk]
    /\ refusal = [r \in Requests |-> "none"]
    /\ before = [r \in Requests |-> 0]
    /\ hits = 0 /\ embedded = {}
    /\ served = [r \in Requests |-> FALSE]
    /\ seen = [r \in Requests |-> <<"none", FALSE>>]
    /\ plan = [r \in Requests |-> NoPlan]

\* An early return: recordRejection and the error answer.
Reject(r) ==
    /\ stage[r] = "new" /\ Rejection(asked[r]) # "none"
    /\ refusal' = [refusal EXCEPT ![r] = Rejection(asked[r])]
    /\ stage' = [stage EXCEPT ![r] = "rejected"]
    /\ UNCHANGED <<cfg, asked, msgs, before, hits, embedded, served, seen, plan>>

\* The hit counter as read before the retrieval.
Count(r) == hits

\* Prompt engineering, and the hit counter is read.
Engineer(r) ==
    /\ stage[r] = "new" /\ Rejection(asked[r]) = "none"
    /\ msgs' = [msgs EXCEPT ![r] = IF Isolated THEN ApplyPromptEngineeringIsolated(@)
                                   ELSE ApplyPromptEngineering(@)]
    /\ before' = [before EXCEPT ![r] = Count(r)]
    /\ stage' = [stage EXCEPT ![r] = "retrieve"]
    /\ UNCHANGED <<cfg, asked, refusal, hits, embedded, served, seen, plan>>

\* What the embedder is asked for: the text of the latest prompt, by its author's words.
Wanted(r) == LET p == Prompt(msgs[r]) IN IF p = 0 THEN NoWords ELSE msgs[r][p].says

Retrieved(r, what) ==
    /\ stage[r] = "retrieve"
    /\ stage' = [stage EXCEPT ![r] = "count"]
    /\ seen' = [seen EXCEPT ![r] = <<what, FALSE>>]
    /\ UNCHANGED <<cfg, asked, refusal, before, plan>>

\* The store is empty, or there is no prompt: nothing is embedded.
RetrieveNothing(r) ==
    /\ \E what \in {"empty_store"} \union IF Wanted(r) = NoWords THEN {"threshold"} ELSE {} :
          Retrieved(r, what)
    /\ UNCHANGED <<msgs, hits, embedded, served>>

\* The embedder, behind its cache, fails.
RetrieveFails(r) ==
    /\ Wanted(r) # NoWords /\ Wanted(r) \notin embedded
    /\ Retrieved(r, "embed_error")
    /\ UNCHANGED <<msgs, hits, embedded, served>>

Embedded(r) ==
    /\ Wanted(r) # NoWords
    /\ served' = [served EXCEPT ![r] = Wanted(r) \in embedded]
    /\ hits' = IF Wanted(r) \in embedded THEN hits + 1 ELSE hits
    /\ embedded' = embedded \union {Wanted(r)}

\* No example is close enough.
RetrieveMisses(r) == Retrieved(r, "threshold") /\ Embedded(r) /\ UNCHANGED msgs

\* Examples were found and, if there is room, injected.
RetrieveFinds(r) ==
    /\ Embedded(r)
    /\ \E found \in Examples :
          LET ms == InjectRAG(msgs[r], Block(found)) IN
          /\ msgs' = [msgs EXCEPT ![r] = ms]
          /\ Retrieved(r, IF ms = msgs[r] THEN "size_limit" ELSE "hit")

\* The hit counter is read again; compression; the planner; an alias overrides its route.
Compressed(ms) ==
    IF CompressionMethod(ms) = "none" THEN ms
    ELSE IF Isolated THEN AppendSystemNoteIsolated(CompressJSONBlocks(ms))
    ELSE AppendSystemNote(CompressJSONBlocks(ms))

Route(r) ==
    /\ stage[r] = "count"
    /\ stage' = [stage EXCEPT ![r] = "planned"]
    /\ seen' = [seen EXCEPT ![r] = <<@[1], hits > before[r]>>]
    /\ LET ms == Compressed(msgs[r]) IN
       /\ msgs' = [msgs EXCEPT ![r] = ms]
       /\ \E route \in Routes :
             plan' = [plan EXCEPT ![r] =
                [prompt |-> Prompt(ms), context |-> Context(ms), told |-> route,
                 route |-> IF ResolveAlias(asked[r].model) THEN "frontier" ELSE route]]
    /\ UNCHANGED <<cfg, asked, refusal, before, hits, embedded, served>>

IntakeStep(r) ==
    \/ Reject(r) \/ Engineer(r) \/ RetrieveNothing(r) \/ RetrieveFails(r)
    \/ RetrieveMisses(r) \/ RetrieveFinds(r) \/ Route(r)

IntakeNext == \E r \in Requests : IntakeStep(r)

IntakeSpec == IntakeInit /\ [][IntakeNext]_intakeVars
-----------------------------------------------------------------------------
Latest(ms) == Max({0} \union Where(ms, "user", AnyContent))

\* What is sent on is the client's conversation (middleware/injection.go:176-180,
\* 196-200): its messages in their order, behind at most one message of the proxy; no
\* string lost; the retrieved block only in the latest user message.  Isolated, the
\* policy leads and client system messages are untouched, save that without a meta
\* prompt the notice goes to a client's text that carries the policy's own marks.  The
\* planner is not told the prompt a second time as context, unless the latest user
\* message had no string and an earlier one stands in for it.
ConversationKept ==
    \A r \in Requests : stage[r] = "planned" =>
        LET ms == msgs[r]
            n == Len(asked[r].talk)
            extra == Len(ms) - n
        IN  /\ extra \in {0, 1} /\ \A i \in DOMAIN ms : ms[i].from = Max({0, i - extra})
            /\ \A i \in 1..n : asked[r].talk[i].text => ms[i + extra].own
            /\ \A i \in DOMAIN ms : "context" \in ms[i].added => i = Latest(ms)
            /\ Isolated =>
                  /\ cfg.meta => extra = 1 /\ "policy" \in ms[1].added
                  /\ \A i \in Where(ms, "system", AnyContent) :
                        ms[i].from = 0 \/ ms[i].added = {} \/ (~cfg.meta /\ "begin" \in ms[i].marks)
            /\ plan[r].prompt \in plan[r].context => ~asked[r].talk[Latest(ms) - extra].text

\* The RAG cache flag (handlers/chat.go:1491): a prompt the embedding cache answered is
\* reported as a hit; a false hit takes the hit of another request in between.
HitsReported ==
    \A r \in Requests : stage[r] = "planned" =>
        /\ served[r] => seen[r][2]
        /\ seen[r][2] => served[r] \/ \E q \in Requests \ {r} : served[q]

\* Nothing a client sent is lost on the way to the model, not even a content sent as a
\* list of parts (providers/adapter.go:292-295, "so a client sending multi-part content
\* does not lose data").
PartsKept == \A r \in Requests : \A i \in DOMAIN msgs[r] : msgs[r][i].own
=============================================================================
