---------------------------- MODULE FusionPanel ----------------------------
(***************************************************************************)
(* The fusion panel (Panel and PanelStreaming of                           *)
(* src/internal/upstream/upstream.go) and the arbiter cache its requests   *)
(* share (arbiter_cache.go).                                               *)
(*                                                                         *)
(* Two members are asked at once and answer in either order; the request   *)
(* goes on when it has both.  A progressive request sends the winner and   *)
(* asks the arbiter only if the members disagree; a plain one always asks  *)
(* the arbiter, or the cache.  Texts are members of a small set.           *)
(***************************************************************************)
EXTENDS Naturals, FiniteSets, Sequences

CONSTANTS
  Requests,     \* fusion requests in flight at the same time
  Texts,        \* what a member may say, NoText among them
  MaxEntries,   \* NEXUS_ARBITER_CACHE_MAX_ENTRIES
  CacheTTL,     \* NEXUS_ARBITER_CACHE_TTL, 0 leaves the cache out
  PanelClock,   \* bound on the clock
  MaxPanels     \* bound on the requests launched

VARIABLES
  stage,     \* where each request stands
  mode,      \* "progressive", "stream" or "buffered"
  results,   \* the members' results, in order of arrival, until both are in
  texts,     \* what the two said, for the arbiter and the cache
  wire,      \* what the client has been sent
  outcome,   \* PanelOutcome, and whether an error was returned
  left,      \* requests whose client has gone
  items,     \* ArbiterCache.items: a partial function from keys
  lru,       \* ArbiterCache.lru, least recently used first
  time,
  panels     \* requests launched so far

panelVars == <<stage, mode, results, texts, wire, outcome, left, items, lru, time, panels>>
cacheVars == <<items, lru, time, panels>>

Modes == {"progressive", "stream", "buffered"}
Sources == {"local", "frontier"}

\* The empty string, as a text and as a source or a reason.
NoText  == "empty"
Unnamed == "none"

\* PanelResult: a failed member has neither text nor tool calls.
Failed(s) == [source |-> s, text |-> NoText, tools |-> FALSE, err |-> TRUE]
Replies(s) == [source : {s}, text : Texts, tools : BOOLEAN, err : {FALSE}]

Undecided == [skipped |-> FALSE, source |-> Unnamed, reason |-> Unnamed, hit |-> FALSE, err |-> FALSE]

\* Warm: syntheses of an earlier run of the proxy, read back when it starts.
Warm(keys) ==
  /\ items = [k \in IF CacheTTL > 0 THEN keys ELSE {} |-> [of |-> k, at |-> 0]]
  /\ \E order \in [1..Cardinality(DOMAIN items) -> DOMAIN items] :
       lru = order /\ Cardinality({order[i] : i \in DOMAIN order}) = Len(order)

PanelInit ==
  /\ stage = [r \in Requests |-> "idle"]
  /\ mode = [r \in Requests |-> "stream"]
  /\ results = [r \in Requests |-> <<>>]
  /\ texts = [r \in Requests |-> {}]
  /\ wire = [r \in Requests |-> <<>>]
  /\ outcome = [r \in Requests |-> Undecided]
  /\ left = {} /\ time = 0 /\ panels = 0
  /\ Warm({}) \/ \E a, b \in Texts : Warm({{a, b}})

-----------------------------------------------------------------------------
\* The members are set off; a degraded local model answers with an error at once.
Launch(r) ==
  /\ stage[r] = "idle" /\ panels < MaxPanels /\ panels' = panels + 1
  /\ stage' = [stage EXCEPT ![r] = "members"]
  /\ \E m \in Modes : mode' = [mode EXCEPT ![r] = m]
  /\ \E skipLocal \in BOOLEAN :
       results' = [results EXCEPT ![r] = IF skipLocal THEN <<Failed("local")>> ELSE <<>>]
  /\ UNCHANGED <<texts, wire, outcome, left, items, lru, time>>

Heard(r) == {results[r][i].source : i \in 1..Len(results[r])}

\* FetchPanel: one exchange on the request's context.  Transport, status, type,
\* decoding, an empty choice and a panic are all an error of that member alone.
FetchPanel(r, s) ==
  /\ stage[r] = "members" /\ s \notin Heard(r)
  /\ \E x \in {Failed(s)} \cup IF r \in left THEN {} ELSE Replies(s) :
       results' = [results EXCEPT ![r] = Append(@, x)]
  /\ UNCHANGED <<stage, mode, texts, wire, outcome, left, cacheVars>>

\* What ends a request: chunks for the client unless it has gone, and the outcome.
Finish(r, chunks, o) ==
  /\ stage' = [stage EXCEPT ![r] = "done"]
  /\ wire' = [wire EXCEPT ![r] = IF r \in left THEN @ ELSE @ \o chunks]
  /\ outcome' = [outcome EXCEPT ![r] = o]

Member(x) == [kind |-> "member", source |-> x.source, of |-> {x.text}]
Done      == [kind |-> "done", source |-> Unnamed, of |-> {}]
Envelope  == [kind |-> "error", source |-> Unnamed, of |-> {}]
Synthesis(ts) == [kind |-> "synthesis", source |-> "arbiter", of |-> ts]

First(r)  == results[r][1]
Second(r) == results[r][2]
TextsOf(r) == {First(r).text, Second(r).text}

\* first := <-results; second := <-results
Joined(r) ==
  /\ stage[r] = "members" /\ Len(results[r]) = 2
  /\ results' = [results EXCEPT ![r] = <<>>]
  /\ texts' = [texts EXCEPT ![r] = TextsOf(r)]

\* Whoever answered first, failed or not.
BugWinner(r) == IF Second(r).tools /\ ~First(r).tools THEN Second(r) ELSE First(r)

\* The first member, unless it failed or only the second brings tool calls.
Winner(r) ==
  IF First(r).err \/ (Second(r).tools /\ ~First(r).tools) THEN Second(r) ELSE First(r)

\* The members agree: the same text always does (no text, too), other texts may,
\* by words or by embeddings, unless one of them is empty.
Similar(r) == IF Cardinality(TextsOf(r)) = 1 THEN {TRUE}
              ELSE IF NoText \in TextsOf(r) THEN {FALSE} ELSE BOOLEAN

SkipReasons(r) ==
  IF Winner(r).tools THEN {"tool_calls"}
  ELSE IF First(r).err \/ Second(r).err THEN {"one_member"}
  ELSE {IF agree THEN "agreement" ELSE Unnamed : agree \in Similar(r)}

\* PanelStreaming, once both members are in: the winner is sent, and unless the
\* members disagree that is the answer.
PanelStreaming(r) ==
  /\ Joined(r) /\ mode[r] = "progressive"
  /\ \/ /\ First(r).err /\ Second(r).err
        /\ Finish(r, <<Envelope>>, [Undecided EXCEPT !.err = TRUE])
     \/ /\ ~(First(r).err /\ Second(r).err)
        /\ r \in left                                   \* ErrClientAbort
        /\ Finish(r, <<>>, [Undecided EXCEPT !.source = Winner(r).source])
     \/ /\ ~(First(r).err /\ Second(r).err)
        /\ r \notin left
        /\ \E reason \in SkipReasons(r) :
             IF reason # Unnamed
             THEN Finish(r, <<Member(Winner(r)), Done>>,
                    [Undecided EXCEPT !.skipped = TRUE, !.reason = reason,
                                      !.source = Winner(r).source])
             ELSE /\ stage' = [stage EXCEPT ![r] = "arbiter"]
                  /\ wire' = [wire EXCEPT ![r] = <<Member(Winner(r))>>]
                  /\ outcome' = [outcome EXCEPT ![r].source = Winner(r).source]
  /\ UNCHANGED <<mode, left, cacheVars>>

\* Panel has no use for a comparison: the arbiter gets both, an error in place of
\* a text where a member failed.
Panel(r) ==
  /\ Joined(r) /\ mode[r] # "progressive"
  /\ stage' = [stage EXCEPT ![r] = "arbiter"]
  /\ UNCHANGED <<mode, wire, outcome, left, cacheVars>>

-----------------------------------------------------------------------------
\* The text of whoever came first.
BugCacheKey(r) == {CHOOSE x \in texts[r] : TRUE}

\* cacheKey: the two texts, whichever came first.  Neither the user's prompt nor
\* whether a member failed is part of it.
cacheKey(r) == texts[r]

\* The key goes to the end; its first mention, if there is one, goes away.
touch(order, k) ==
  LET mentions == {i \in 1..Len(order) : order[i] = k}
      first    == CHOOSE i \in mentions : \A j \in mentions : i <= j
      Other(i) == IF i < first THEN order[i] ELSE order[i + 1]
  IN  IF mentions = {} THEN Append(order, k)
      ELSE Append([i \in 1..(Len(order) - 1) |-> Other(i)], k)

Without(f, k) == [x \in DOMAIN f \ {k} |-> f[x]]
With(f, k, v) == [x \in DOMAIN f \cup {k} |-> IF x = k THEN v ELSE f[x]]

Usable(r) ==
  CacheTTL > 0 /\ cacheKey(r) \in DOMAIN items /\ time - items[cacheKey(r)].at <= CacheTTL

\* ArbiterCache.Get, and on a hit the stored synthesis to the client.  Only Panel
\* counts a hit as a skipped arbiter.
Get(r) ==
  /\ stage[r] = "arbiter"
  /\ \/ /\ Usable(r)
        /\ lru' = touch(lru, cacheKey(r))
        /\ LET chunk == Synthesis(items[cacheKey(r)].of)
               plain == mode[r] # "progressive"
           IN  Finish(r, IF mode[r] = "buffered" THEN <<chunk>> ELSE <<chunk, Done>>,
                 [outcome[r] EXCEPT !.hit = TRUE, !.skipped = plain, !.err = plain /\ r \in left,
                                    !.reason = IF plain THEN "cache_hit" ELSE @])
     \/ /\ ~Usable(r)
        /\ stage' = [stage EXCEPT ![r] = "synthesis"]
        /\ UNCHANGED <<wire, outcome, lru>>
  /\ UNCHANGED <<mode, results, texts, left, items, time, panels>>

\* Set: at the cap the least recently used entry makes room, the one about to be
\* written again included.
Set(k, s) ==
  LET full == Cardinality(DOMAIN items) >= MaxEntries /\ lru # <<>>
  IN  /\ items' = With(IF full THEN Without(items, Head(lru)) ELSE items,
                       k, [of |-> s, at |-> time])
      /\ lru' = touch(IF full THEN Tail(lru) ELSE lru, k)

\* The arbiter's answer as a stream: passed on, with the [DONE] it may bring, then
\* closed by one of the panel's own.
ArbiterStream(r) ==
  /\ stage[r] = "synthesis" /\ mode[r] # "buffered"
  /\ \/ /\ r \notin left
        /\ \E upstream \in {<<>>, <<Done>>} :
             Finish(r, <<Synthesis(texts[r])>> \o upstream \o <<Done>>, outcome[r])
     \/ \* No stream, or one cut off after its first chunk.
        /\ r \notin left
        /\ \E begun \in {<<>>, <<Synthesis(texts[r]), Done>>} :
             Finish(r, begun \o <<Envelope>>, [outcome[r] EXCEPT !.err = TRUE])
     \/ \* The client has gone: an error for Panel only.
        /\ r \in left
        /\ Finish(r, <<>>, [outcome[r] EXCEPT !.err = (mode[r] = "stream")])
  /\ UNCHANGED <<mode, results, texts, left, cacheVars>>

\* The arbiter's answer in one piece, kept for the next panel with these texts.
ArbiterBuffered(r) ==
  /\ stage[r] = "synthesis" /\ mode[r] = "buffered"
  /\ \/ /\ r \notin left
        /\ IF CacheTTL > 0 THEN Set(cacheKey(r), texts[r]) ELSE UNCHANGED <<items, lru>>
        /\ Finish(r, <<Synthesis(texts[r])>>, outcome[r])
     \/ /\ Finish(r, <<Envelope>>, [outcome[r] EXCEPT !.err = TRUE])
        /\ UNCHANGED <<items, lru>>
  /\ UNCHANGED <<mode, results, texts, left, time, panels>>

\* The handler returns; the connection carries its next request.
Return(r) ==
  /\ stage[r] = "done"
  /\ stage' = [stage EXCEPT ![r] = "idle"]
  /\ mode' = [mode EXCEPT ![r] = "stream"]
  /\ texts' = [texts EXCEPT ![r] = {}]
  /\ wire' = [wire EXCEPT ![r] = <<>>]
  /\ outcome' = [outcome EXCEPT ![r] = Undecided]
  /\ left' = left \ {r}
  /\ UNCHANGED <<results, cacheVars>>

\* The environment.
Disconnect(r) ==
  /\ r \notin left /\ stage[r] \notin {"idle", "done"}
  /\ left' = left \cup {r}
  /\ UNCHANGED <<stage, mode, results, texts, wire, outcome, cacheVars>>

PanelTick ==
  /\ time < PanelClock /\ time' = time + 1
  /\ UNCHANGED <<stage, mode, results, texts, wire, outcome, left, items, lru, panels>>

PanelStep(r) ==
  \/ PanelStreaming(r) \/ Panel(r) \/ Get(r)
  \/ ArbiterStream(r) \/ ArbiterBuffered(r)
  \/ \E s \in Sources : FetchPanel(r, s)

PanelNext == PanelTick \/ \E r \in Requests : Launch(r) \/ PanelStep(r) \/ Return(r) \/ Disconnect(r)
-----------------------------------------------------------------------------
Sent(r, k) == \E i \in 1..Len(wire[r]) : wire[r][i].kind = k

\* What a client is sent first comes from a member that did not fail, and brings
\* tool calls if any member has some, whichever of the two answered first.
WinnerHonest ==
  [][\A r \in Requests : (wire[r] = <<>> /\ wire'[r] # <<>> /\ wire'[r][1].kind = "member") =>
       \E x \in {First(r), Second(r)} :
         /\ Member(x) = wire'[r][1] /\ ~x.err
         /\ (First(r).tools \/ Second(r).tools) => x.tools]_panelVars

\* A synthesis on the wire was made from the texts of this panel; an answer without
\* an error is complete (a stream ends with [DONE]); it is without the arbiter's
\* synthesis exactly when the members' agreement, failure or tool calls made the
\* arbiter unnecessary; and the handler reports the errors it was told of.
PanelHonest ==
  \A r \in Requests :
    LET o == outcome[r]
        last == wire[r][Len(wire[r])].kind
    IN  /\ \A i \in 1..Len(wire[r]) :
             wire[r][i].kind = "synthesis" => wire[r][i].of = texts[r]
        /\ (stage[r] = "done" /\ r \notin left) =>
             /\ o.err <=> Sent(r, "error")
             /\ ~o.err =>
                  /\ wire[r] # <<>>
                  /\ mode[r] = "buffered" \/ last = "done"
                  /\ Sent(r, "synthesis") <=> (~o.skipped \/ o.hit)

\* The cache never holds more than it may and its order names what it holds, once
\* each, so that eviction can reach every entry.
ArbiterCacheSound ==
  /\ Cardinality(DOMAIN items) <= MaxEntries
  /\ Len(lru) = Cardinality(DOMAIN items)
  /\ {lru[i] : i \in 1..Len(lru)} = DOMAIN items

\* "cache_hit" when the synthesis was served from the arbiter cache.
\* The code does not keep this for progressive streams.
HitsReported == \A r \in Requests : outcome[r].hit => outcome[r].reason = "cache_hit"

\* A request that was launched is answered, whatever its members and its client do.
PanelEnds == \A r \in Requests : (stage[r] \notin {"idle", "done"}) ~> (stage[r] = "done")
=============================================================================
