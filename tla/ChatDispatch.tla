---------------------------- MODULE ChatDispatch ----------------------------
(***************************************************************************)
(* The second half of handlers.Chat (src/internal/handlers/chat.go): once   *)
(* the route is decided, a request looks at the local arm's health, waits   *)
(* for a local slot or passes the budget, talks to its upstreams, answers   *)
(* its client and leaves its records.  Many requests do so at once over one *)
(* health verdict, one cooldown, one limiter and one spend guard.           *)
(*                                                                         *)
(* Limiter.tla looks inside the limiter, which appears here by what it      *)
(* promises; a fusion panel is one exchange whose outcome is given.         *)
(***************************************************************************)
EXTENDS Integers, FiniteSets, Sequences, SequencesExt

CONSTANTS
  Requests,     \* the requests being served
  Routes,       \* what the planner may decide for a request
  Providers,    \* the names a configured step may have
  Cascades,     \* configured steps after "local", in order (those with a key)
  Failovers,    \* values of NEXUS_FRONTIER_FAILOVER
  MaxAttempts,  \* NEXUS_FRONTIER_FAILOVER_MAX_ATTEMPTS, 0 for no cap
  Slots,        \* effective slots of the local limiter
  Limit,        \* NEXUS_BUDGET_DAILY_USD in units of one request, 0 disables it
  Leavers       \* the requests whose client may disconnect

Nobody == "nobody"   \* CascadeResult.ServedBy when no step served

ASSUME DispatchAssumption ==
  /\ IsFiniteSet(Requests)
  /\ Routes \subseteq {"local", "frontier", "fusion"}
  /\ Leavers \subseteq Requests
  /\ Cascades \subseteq Seq(Providers) /\ Providers \cap {"local", Nobody} = {}
  /\ Failovers \subseteq BOOLEAN
  /\ MaxAttempts \in Nat /\ Slots \in Nat \ {0} /\ Limit \in Nat

VARIABLES
  healthy,    \* Health.IsLocalHealthy(), set by the poller
  cooldown,   \* LocalCooldown.Active()
  holders,    \* requests that hold a slot of the local limiter
  spent,      \* the total of the spend guard's window
  gone,       \* requests whose client has disconnected
  failover,   \* NEXUS_FRONTIER_FAILOVER and there are providers
  fallbacks,  \* the configured providers, fixed at start-up
  pc,         \* where each request stands
  route,      \* the route planned for each request
  streaming,  \* the requests that asked for "stream": true
  skipLocal,  \* the handler's local variable of that name
  tried,      \* the cascade steps contacted so far (RouteAttempted)
  localFailed,  \* CascadeResult.LocalStepFailed
  servedBy,   \* CascadeResult.ServedBy, also sent as a header
  result,     \* how the upstream call returned to the handler
  status,     \* the first WriteHeader of the response, 0 before it
  body,       \* what was written after it
  records     \* records handed to the metrics, telemetry and audit sinks

shared == <<healthy, cooldown, spent, gone, failover, fallbacks>>
plan   == <<route, streaming, skipLocal>>
call   == <<tried, localFailed, servedBy>>
answer == <<result, status, body>>
vars   == <<healthy, cooldown, spent, gone, failover, fallbacks, holders, pc,
            route, streaming, skipLocal, tried, localFailed, servedBy,
            result, status, body, records>>

-----------------------------------------------------------------------------
\* The pure parts of the provider cascade (src/internal/upstream/cascade.go): which
\* steps a request may try, and what one upstream reply means for the runner.

\* What one HTTP exchange with a step can end in, as far as the code tells
\* replies apart.  "5xx" stands for 500, 502, 503 and 504, "501" for every other
\* server error, "4xx" for a client error other than 404, 408 and 429.
Replies == {"ok", "malformed", "no_reply", "read_error",
            "404", "408", "429", "4xx", "5xx", "501"}

\* ShouldRetry on a status code.
RetryStatuses == {"408", "429", "5xx"}

\* doFetchCascadeStep and extractAssistantMessage: serve the reply, fall back to
\* the next step, or give up.
Verdict(name, reply) ==
  IF reply = "ok" THEN "serve"
  ELSE IF \/ reply \in {"no_reply", "read_error", "malformed"}
          \/ reply \in RetryStatuses
          \/ reply = "404" /\ name = "local"
       THEN "retry"
       ELSE "fatal"

\* BuildLocalCascade: the local step unless it is to be skipped, then the
\* fallbacks that have a key.
BuildLocalCascade(skip, steps) ==
  IF skip THEN steps ELSE <<"local">> \o steps

-----------------------------------------------------------------------------
Positions == {"new", "acquire", "cascade", "buffered", "budget", "frontier",
              "failover", "fusion", "returned", "charge", "tail", "done"}

\* ok: a response was relayed.  failed: an error, nothing written.  late: an
\* error after the status line.  truncated: the SSE terminator was sent.
Results == {"none", "ok", "failed", "late", "truncated"}

Parts == {"completion", "partial", "upstream_error", "terminator", "error"}

Init ==
  /\ healthy \in BOOLEAN /\ cooldown = FALSE /\ failover \in Failovers
  /\ fallbacks \in Cascades /\ (failover => fallbacks # <<>>)
  /\ holders = {} /\ spent = 0 /\ gone = {}
  /\ pc = [r \in Requests |-> "new"]
  /\ route = [r \in Requests |-> "none"] /\ streaming = {}
  /\ skipLocal = [r \in Requests |-> FALSE]
  /\ tried = [r \in Requests |-> <<>>]
  /\ localFailed = [r \in Requests |-> FALSE]
  /\ servedBy = [r \in Requests |-> Nobody]
  /\ result = [r \in Requests |-> "none"]
  /\ status = [r \in Requests |-> 0]
  /\ body = [r \in Requests |-> {}]
  /\ records = [r \in Requests |-> 0]

Goto(r, here, there) == pc[r] = here /\ pc' = [pc EXCEPT ![r] = there]

\* Only the first WriteHeader counts; what is written afterwards adds up.
\* A zero code writes nothing.
Write(r, code, what) ==
  /\ status' = [status EXCEPT ![r] = IF @ = 0 THEN code ELSE @]
  /\ body' = [body EXCEPT ![r] = @ \cup what]

\* writeJSONError.
WriteError(r, code) == Write(r, code, {"error"})

\* The upstream call is over; the handler looks at its result next.
Finish(r, res, code, what) ==
  /\ pc' = [pc EXCEPT ![r] = "returned"]
  /\ result' = [result EXCEPT ![r] = res]
  /\ Write(r, code, what)

\* A reply is written out whole, or the connection of a client that may leave
\* breaks half-way.
Deliver(r, code, what) ==
  \/ Finish(r, "ok", code, what)
  \/ r \in Leavers /\ Finish(r, "late", code, {"partial"})

-----------------------------------------------------------------------------
\* The request is parsed and its route planned; the health of the local arm is
\* looked at once, before any waiting.
Plan(r) ==
  /\ pc[r] = "new"
  /\ \E way \in Routes, stream \in BOOLEAN :
       /\ route' = [route EXCEPT ![r] = way]
       /\ streaming' = IF stream THEN streaming \cup {r} ELSE streaming
       /\ skipLocal' = [skipLocal EXCEPT ![r] =
                          (~healthy \/ cooldown) /\ way \in {"local", "fusion"}]
       /\ pc' = [pc EXCEPT ![r] = IF way = "local" THEN "acquire" ELSE "budget"]
  /\ UNCHANGED <<shared, holders, call, answer, records>>

\* The slot is taken without looking at the ceiling.
BugAcquireSlot(r) ==
  /\ Goto(r, "acquire", IF r \in streaming THEN "cascade" ELSE "buffered")
  /\ r \notin gone
  /\ holders' = holders \cup {r}
  /\ UNCHANGED <<shared, plan, call, answer, records>>

\* LocalLimiter.Acquire, also when the local arm is going to be skipped.
AcquireSlot(r) ==
  /\ Goto(r, "acquire", IF r \in streaming THEN "cascade" ELSE "buffered")
  /\ r \notin gone
  /\ Cardinality(holders) < Slots
  /\ holders' = holders \cup {r}
  /\ UNCHANGED <<shared, plan, call, answer, records>>

\* The queue is left without an answer.
BugAcquireFails(r) ==
  /\ Goto(r, "acquire", "tail")
  /\ r \in gone
  /\ result' = [result EXCEPT ![r] = "failed"]
  /\ UNCHANGED <<shared, holders, plan, call, status, body, records>>

\* Its context ended in the queue: a 503, and the tail still runs.
AcquireFails(r) ==
  /\ Goto(r, "acquire", "tail")
  /\ r \in gone
  /\ result' = [result EXCEPT ![r] = "failed"]
  /\ WriteError(r, 503)
  /\ UNCHANGED <<shared, holders, plan, call, records>>

-----------------------------------------------------------------------------
\* The failover of route=frontier tries the configured providers up to a cap.
FailoverSteps ==
  IF MaxAttempts \in 1..(Len(fallbacks) - 1)
  THEN SubSeq(fallbacks, 1, MaxAttempts) ELSE fallbacks

\* The steps of the cascade this request runs.
Steps(r) == IF route[r] = "local"
            THEN BuildLocalCascade(skipLocal[r], fallbacks)
            ELSE FailoverSteps

\* The request context bounds the exchange: a client that left ends it.
CascadeReplies(r) == IF r \in gone THEN {"no_reply"} ELSE Replies

Verdicts(r, name) == {Verdict(name, reply) : reply \in CascadeReplies(r)}

\* One turn of the loop of Cascade.Run (buffered = FALSE) and of RunBuffered:
\* contact the next step and serve its reply, stop with an error, or stay in
\* the loop.  RunBuffered names a server and writes 200 on an error, too.
RunStep(r, buffered) ==
  LET n    == Len(tried[r]) + 1
      name == Steps(r)[n]
      fail == IF buffered THEN Finish(r, "late", 200, {})
                          ELSE Finish(r, "failed", 0, {})
  IN /\ n <= Len(Steps(r))
     /\ tried' = [tried EXCEPT ![r] = Append(@, name)]
     /\ \E verdict \in Verdicts(r, name) :
          /\ localFailed' = [localFailed EXCEPT ![r] =
                               @ \/ (name = "local" /\ verdict = "retry")]
          /\ \/ /\ verdict = "serve"
                /\ servedBy' = [servedBy EXCEPT ![r] = name]
                /\ Deliver(r, 200, {"completion"})
             \/ /\ \/ verdict = "fatal"
                   \/ verdict = "retry" /\ n = Len(Steps(r))
                /\ servedBy' = [servedBy EXCEPT ![r] = IF buffered THEN name ELSE Nobody]
                /\ fail
             \/ /\ verdict = "retry" /\ n < Len(Steps(r))
                /\ UNCHANGED <<pc, servedBy, answer>>

RunCascade(r) ==
  /\ pc[r] = "cascade"
  /\ \/ RunStep(r, FALSE)
     \/ /\ Steps(r) = <<>>
        /\ Finish(r, "failed", 0, {})
        /\ UNCHANGED call
  /\ UNCHANGED <<shared, holders, plan, records>>

\* The buffered runner for everybody.
BugRunFailover(r) ==
  /\ pc[r] = "failover"
  /\ RunStep(r, TRUE)
  /\ UNCHANGED <<shared, holders, plan, records>>

RunFailover(r) ==
  /\ pc[r] = "failover"
  /\ RunStep(r, r \notin streaming)
  /\ UNCHANGED <<shared, holders, plan, records>>

\* The status an upstream error is relayed with.
RelayedStatus(reply) == IF reply \in {"5xx", "501"} THEN 500 ELSE 400

ErrorReplies == {"404", "408", "429", "4xx", "5xx", "501"}

\* BufferedFetch, on a context of its own: JSON is relayed whatever its status;
\* a body that cannot be read to its end fails after the status line.
BufferedExchange(r, reply) ==
  \/ reply = "ok" /\ Deliver(r, 200, {"completion"})
  \/ reply \in ErrorReplies
       /\ Deliver(r, RelayedStatus(reply), {"upstream_error"})
  \/ reply \in {"no_reply", "malformed"} /\ Finish(r, "failed", 0, {})
  \/ reply = "read_error" /\ Finish(r, "late", 200, {})

\* Stream, on a context of its own: lines are forwarded as they come, and a
\* connection that drops after the first line is closed with a terminator.
StreamExchange(r, reply) ==
  \/ reply = "ok" /\ Deliver(r, 200, {"completion"})
  \/ reply \in ErrorReplies
       /\ Deliver(r, RelayedStatus(reply), {"upstream_error"})
  \/ reply \in {"no_reply", "malformed"} /\ Finish(r, "failed", 0, {})
  \/ reply = "malformed" /\ Deliver(r, 200, {"partial", "terminator"})
  \/ reply = "read_error" /\ \/ Finish(r, "late", 200, {})
                             \/ Finish(r, "truncated", 200, {"partial", "terminator"})

\* route=local without streaming: one exchange, with Ollama or with the frontier.
FetchBuffered(r) ==
  /\ pc[r] = "buffered"
  /\ \E reply \in Replies : BufferedExchange(r, reply)
  /\ tried' = [tried EXCEPT ![r] = IF skipLocal[r] THEN <<"frontier">> ELSE <<"local">>]
  /\ UNCHANGED <<shared, holders, plan, localFailed, servedBy, records>>

FetchFrontier(r) ==
  /\ pc[r] = "frontier"
  /\ \E reply \in Replies : IF r \in streaming THEN StreamExchange(r, reply)
                                               ELSE BufferedExchange(r, reply)
  /\ UNCHANGED <<shared, holders, plan, call, records>>

\* Panel and PanelStreaming: they may fail before or after the first byte.
RunPanel(r) ==
  /\ pc[r] = "fusion"
  /\ \/ Deliver(r, 200, {"completion"})
     \/ Finish(r, "failed", 0, {})
     \/ r \in streaming /\ Finish(r, "late", 200, {"partial"})
  /\ UNCHANGED <<shared, holders, plan, call, records>>

-----------------------------------------------------------------------------
\* SpendGuard.Check, for the routes that touch the frontier.
Exhausted == Limit > 0 /\ spent + 1 > Limit

PassBudget(r) ==
  /\ Goto(r, "budget", IF route[r] = "fusion" THEN "fusion"
                       ELSE IF failover THEN "failover" ELSE "frontier")
  /\ ~Exhausted
  /\ UNCHANGED <<shared, holders, plan, call, answer, records>>

\* recordRejection, a 429, and a break that leads to the tail.
RejectBudget(r) ==
  /\ Goto(r, "budget", "tail")
  /\ Exhausted
  /\ records' = [records EXCEPT ![r] = @ + 1]
  /\ WriteError(r, 429)
  /\ UNCHANGED <<shared, holders, plan, call, result>>

\* The handler after a call on route=frontier and route=fusion.
ReturnFrontier(r) ==
  /\ route[r] # "local"
  /\ Goto(r, "returned", IF result[r] = "ok" THEN "charge" ELSE "tail")
  /\ IF result[r] \in {"failed", "late"} THEN WriteError(r, 502)
                                         ELSE UNCHANGED <<status, body>>
  /\ UNCHANGED <<shared, holders, plan, call, result, records>>

\* SpendGuard.Record.
Charge(r) ==
  /\ Goto(r, "charge", "tail")
  /\ spent' = IF Limit > 0 THEN spent + 1 ELSE spent
  /\ UNCHANGED <<healthy, cooldown, gone, failover, fallbacks, holders, plan, call,
                 answer, records>>

\* The handler after a call on route=local: a failed local step arms the
\* cooldown, and every error is answered with a 502.
ReturnLocal(r) ==
  /\ route[r] = "local"
  /\ Goto(r, "returned", "tail")
  /\ LET failed == IF r \in streaming THEN localFailed[r]
                   ELSE result[r] # "ok" /\ ~skipLocal[r]
     IN  cooldown' = (cooldown \/ failed)
  /\ IF result[r] # "ok" THEN WriteError(r, 502) ELSE UNCHANGED <<status, body>>
  /\ UNCHANGED <<healthy, spent, gone, failover, fallbacks, holders, plan, call, result, records>>

\* The records of a request that was not served are left out.
BugTailRecord(r) ==
  /\ Goto(r, "tail", "done")
  /\ records' = [records EXCEPT ![r] = IF result[r] = "ok" THEN @ + 1 ELSE @]
  /\ holders' = holders \ {r}
  /\ UNCHANGED <<shared, plan, call, answer>>

\* The tail of the handler: the records, then the deferred release.
RecordAndRelease(r) ==
  /\ Goto(r, "tail", "done")
  /\ records' = [records EXCEPT ![r] = @ + 1]
  /\ holders' = holders \ {r}
  /\ UNCHANGED <<shared, plan, call, answer>>

-----------------------------------------------------------------------------
\* The environment: a client disconnects, the cooldown window ends, the health
\* poller changes its verdict.
Leave(r) ==
  /\ r \in Leavers \ gone /\ pc[r] # "done"
  /\ gone' = gone \cup {r}
  /\ UNCHANGED <<healthy, cooldown, spent, failover, fallbacks, holders, pc, plan, call,
                 answer, records>>

CooldownEnds ==
  /\ cooldown /\ cooldown' = FALSE
  /\ UNCHANGED <<healthy, spent, gone, failover, fallbacks, holders, pc, plan, call,
                 answer, records>>

PollerVerdict ==
  /\ healthy' = ~healthy
  /\ UNCHANGED <<cooldown, spent, gone, failover, fallbacks, holders, pc, plan, call,
                 answer, records>>

\* What the handler does once the request has arrived.
Serve(r) ==
  \/ AcquireSlot(r) \/ AcquireFails(r)
  \/ RunCascade(r) \/ FetchBuffered(r) \/ ReturnLocal(r)
  \/ PassBudget(r) \/ RejectBudget(r)
  \/ FetchFrontier(r) \/ RunFailover(r) \/ RunPanel(r)
  \/ ReturnFrontier(r) \/ Charge(r) \/ RecordAndRelease(r)

Next ==
  \/ \E r \in Requests : Plan(r) \/ Serve(r) \/ Leave(r)
  \/ CooldownEnds
  \/ PollerVerdict

Spec == Init /\ [][Next]_vars

\* A handler goroutine runs on, the limiter serves its queue (EveryoneServed of
\* Limiter), and every upstream exchange ends: the cascade and the HTTP client
\* have timeouts.
FairSpec == Spec /\ \A r \in Requests : WF_vars(Serve(r)) /\ SF_vars(AcquireSlot(r))
-----------------------------------------------------------------------------
TypeOK ==
  /\ healthy \in BOOLEAN /\ cooldown \in BOOLEAN /\ failover \in Failovers
  /\ fallbacks \in Cascades /\ holders \subseteq Requests /\ streaming \subseteq Requests
  /\ spent \in Nat
  /\ gone \subseteq Leavers
  /\ pc \in [Requests -> Positions]
  /\ route \in [Requests -> Routes \cup {"none"}]
  /\ skipLocal \in [Requests -> BOOLEAN]
  /\ tried \in [Requests -> Seq(Providers \cup {"local", "frontier"})]
  /\ localFailed \in [Requests -> BOOLEAN]
  /\ servedBy \in [Requests -> Providers \cup {"local", Nobody}]
  /\ result \in [Requests -> Results]
  /\ status \in [Requests -> {0, 200, 400, 429, 500, 502, 503}]
  /\ body \in [Requests -> SUBSET Parts]
  /\ records \in [Requests -> Nat]

\* The local arm never has more requests than slots, a request talks to it only
\* while it holds one, and no way out of the handler keeps the slot.
SlotDiscipline ==
  /\ Cardinality(holders) <= Slots
  /\ \A r \in Requests : pc[r] \in {"cascade", "buffered"} => r \in holders
  /\ \A r \in Requests : pc[r] \in {"new", "acquire", "done"} => r \notin holders

\* The requests that run a cascade and stream its answer: Cascade.Run.
Cascaded(r) ==
  r \in streaming /\ (route[r] = "local" \/ (failover /\ route[r] = "frontier"))

\* Cascade.Run validates a reply before it writes anything, so a client that
\* stays gets one whole completion under 200, from a named server, or one
\* error envelope under an error status, from nobody: never a mixture, and never
\* an error dressed as a success, whichever steps failed before and however.
StreamAnswerHonest ==
  \A r \in Requests : (pc[r] = "done" /\ Cascaded(r) /\ r \notin Leavers) =>
    \/ status[r] = 200 /\ body[r] = {"completion"} /\ servedBy[r] # Nobody
    \/ status[r] >= 400 /\ body[r] = {"error"} /\ servedBy[r] = Nobody

\* An error envelope is never appended to what an upstream has sent, as long as
\* the client stays.  (The streaming fusion panel may do so when it fails late.)
OneEnvelope ==
  \A r \in Requests \ Leavers :
    ("error" \in body[r] /\ route[r] # "fusion") => body[r] = {"error"}

\* The cascade contacts the configured steps in order, each once, the local arm
\* only if the plan did not skip it, and names as its server the last one it
\* contacted: the Fallback and provider headers tell the truth.
CascadeInOrder ==
  \A r \in Requests :
    LET order == IF route[r] = "local" /\ ~skipLocal[r]
                 THEN <<"local">> \o fallbacks ELSE fallbacks
    IN /\ pc[r] \in {"cascade", "failover"} \/ servedBy[r] # Nobody =>
            IsPrefix(tried[r], order)
       /\ servedBy[r] # Nobody => servedBy[r] = Last(tried[r])

\* "Recorder receives one record per proxied request": true of every request the
\* budget did not reject, on every route and every error path.  (A rejected one
\* leaves two, recordRejection's and the tail's.)
RecordedOnce ==
  \A r \in Requests : (pc[r] = "done" /\ status[r] # 429) => records[r] = 1

\* The spend guard is charged once for every request the frontier answered and
\* for no other: a rejected, failed or truncated call costs nothing.
SpendMatchesService ==
  Limit > 0 =>
    spent = Cardinality({r \in Requests : /\ route[r] \in {"frontier", "fusion"}
                                          /\ result[r] = "ok"
                                          /\ pc[r] \in {"tail", "done"}})

\* A client that stays gets one whole answer or one error envelope, whichever steps failed
\* before, and the server named is the last one contacted (upstream/cascade.go:180-326).
AnswersHonest == StreamAnswerHonest /\ OneEnvelope /\ CascadeInOrder

\* The records and the spend agree with what was served (handlers/chat.go:2279-2665).
BooksAgree == TypeOK /\ RecordedOnce /\ SpendMatchesService

\* "The cooldown closes the window between the cascade observing a local failure
\* and the background health poller catching up": a request that takes its slot
\* during the cooldown does not try the dead endpoint again.
\* The code does not keep this: skipLocal is computed before the wait.
CooldownHeeded ==
  [][\A r \in holders' \ holders : cooldown => skipLocal[r]]_vars

\* Whoever got past the plan is answered, recorded and has left: nobody waits
\* for ever for a slot, whoever disconnects or fails meanwhile.
Answered == \A r \in Requests : (pc[r] # "new") ~> (pc[r] = "done" /\ status[r] # 0)
=============================================================================
