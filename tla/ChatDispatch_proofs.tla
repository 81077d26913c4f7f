------------------------ MODULE ChatDispatch_proofs ------------------------
(***************************************************************************)
(* Proofs about the dispatch half of handlers.Chat, for any number of       *)
(* requests, slots, cascade steps and budget.                               *)
(*                                                                         *)
(* The inductive invariant is DispatchInv: the types, and for each request  *)
(* by itself what it may have written, recorded and been served with at     *)
(* each position (RequestInv).  A step belongs to one request, keeps that   *)
(* one in order and leaves the others the Same, so all interleavings are    *)
(* covered by the argument about one request.  What ties requests together, *)
(* the slots and the spend, is counted on top of it.                        *)
(***************************************************************************)
EXTENDS ChatDispatch, FiniteSetTheorems, TLAPS

StepNames == Providers \cup {"local"}

\* Every step of the cascade has a name, and it is not Nobody.
LEMMA StepsNamed ==
  ASSUME TypeOK, NEW r \in Requests
  PROVE  Steps(r) \in Seq(StepNames)
<1>1. fallbacks \in Seq(StepNames)
  BY DispatchAssumption DEF TypeOK, StepNames
<1>2. FailoverSteps \in Seq(StepNames)
  <2>1. CASE MaxAttempts \in 1..(Len(fallbacks) - 1)
    <3>1. SubSeq(fallbacks, 1, MaxAttempts) \in Seq(StepNames)
      BY <1>1, <2>1
    <3> QED
      BY <2>1, <3>1 DEF FailoverSteps
  <2>2. CASE MaxAttempts \notin 1..(Len(fallbacks) - 1)
    BY <1>1, <2>2 DEF FailoverSteps
  <2> QED
    BY <2>1, <2>2
<1>3. <<"local">> \o fallbacks \in Seq(StepNames)
  BY <1>1 DEF StepNames
<1>4. BuildLocalCascade(skipLocal[r], fallbacks) \in {fallbacks, <<"local">> \o fallbacks}
  BY DEF BuildLocalCascade
<1> QED
  BY <1>1, <1>2, <1>3, <1>4 DEF Steps

\* The initial states are well typed.
LEMMA DispatchInitTypes == Init => TypeOK
<1> SUFFICES ASSUME Init PROVE TypeOK
  OBVIOUS
<1>1. /\ healthy \in BOOLEAN /\ cooldown \in BOOLEAN /\ failover \in Failovers
      /\ fallbacks \in Cascades /\ holders \subseteq Requests /\ streaming \subseteq Requests
      /\ spent \in Nat /\ gone \subseteq Leavers
  BY DEF Init
<1>2. /\ pc \in [Requests -> Positions] /\ route \in [Requests -> Routes \cup {"none"}]
      /\ result \in [Requests -> Results] /\ servedBy \in [Requests -> Providers \cup {"local", Nobody}]
  BY DEF Init, Positions, Results
<1>3. /\ skipLocal \in [Requests -> BOOLEAN] /\ localFailed \in [Requests -> BOOLEAN]
      /\ tried \in [Requests -> Seq(Providers \cup {"local", "frontier"})]
  BY DEF Init
<1>4. /\ status \in [Requests -> {0, 200, 400, 429, 500, 502, 503}]
      /\ body \in [Requests -> SUBSET Parts] /\ records \in [Requests -> Nat]
  BY DEF Init
<1> QED
  BY <1>1, <1>2, <1>3, <1>4 DEF TypeOK

-----------------------------------------------------------------------------
\* What an exchange with the upstreams may end in.
Code == {0, 200, 400, 500}
Said == SUBSET {"completion", "partial", "upstream_error", "terminator"}
Ends == {"ok", "failed", "late", "truncated"}

\* A request that has called its upstreams and has nothing written of its own.
Outcome(r, res, code, what) ==
  /\ (r \notin Leavers /\ route[r] # "fusion" /\ res \in {"failed", "late"}) => what = {}
  /\ route[r] = "local" => res # "truncated"
  /\ (Cascaded(r) /\ r \notin Leavers) =>
       \/ res = "ok" /\ code = 200 /\ what = {"completion"} /\ servedBy'[r] # Nobody
       \/ res = "failed" /\ code = 0 /\ what = {} /\ servedBy'[r] = Nobody

Concluded(r) ==
  \E res \in Ends, code \in Code, what \in Said : Finish(r, res, code, what) /\ Outcome(r, res, code, what)

\* Where each request is on its way, and with which route.
OnRoute(r) ==
  /\ pc[r] \in {"acquire", "cascade", "buffered"} => route[r] = "local"
  /\ pc[r] = "budget" => route[r] \in {"frontier", "fusion"}
  /\ pc[r] = "frontier" => route[r] = "frontier" /\ ~failover
  /\ pc[r] = "failover" => route[r] = "frontier" /\ failover
  /\ pc[r] = "fusion" => route[r] = "fusion"
  /\ pc[r] = "cascade" => r \in streaming
  /\ pc[r] = "buffered" => r \notin streaming

Exchange(r) ==
  RunCascade(r) \/ FetchBuffered(r) \/ FetchFrontier(r) \/ RunFailover(r) \/ RunPanel(r)

\* A whole reply, or one broken off by a client that may leave.
LEMMA DeliverConcludes ==
  ASSUME TypeOK, NEW r \in Requests, NEW code \in Code, NEW what \in Said,
         Deliver(r, code, what),
         (Cascaded(r) /\ r \notin Leavers) =>
            code = 200 /\ what = {"completion"} /\ servedBy'[r] # Nobody
  PROVE  Concluded(r)
<1>1. CASE Finish(r, "ok", code, what)
  <2>1. Outcome(r, "ok", code, what)
    BY DEF Outcome
  <2> QED
    BY <1>1, <2>1 DEF Concluded, Ends
<1>2. CASE r \in Leavers /\ Finish(r, "late", code, {"partial"})
  <2>1. Outcome(r, "late", code, {"partial"})
    BY <1>2 DEF Outcome
  <2>2. {"partial"} \in Said
    BY DEF Said
  <2> QED
    BY <1>2, <2>1, <2>2 DEF Concluded, Ends
<1> QED
  BY <1>1, <1>2 DEF Deliver

\* One turn of the cascade loop: it ends the call or stays in the loop.
LEMMA StepConcludes ==
  ASSUME TypeOK, NEW r \in Requests, NEW buffered \in BOOLEAN, RunStep(r, buffered),
         buffered => ~Cascaded(r), servedBy[r] = Nobody
  PROVE  /\ Concluded(r) \/ UNCHANGED <<pc, servedBy, answer>>
         /\ Len(tried[r]) + 1 <= Len(Steps(r))
         /\ tried' = [tried EXCEPT ![r] = Append(@, Steps(r)[Len(tried[r]) + 1])]
         /\ localFailed' \in [Requests -> BOOLEAN]
         /\ \E name \in {Nobody, Steps(r)[Len(tried[r]) + 1]} :
              servedBy' = [servedBy EXCEPT ![r] = name]
<1> DEFINE n == Len(tried[r]) + 1
           name == Steps(r)[n]
<1>1. n <= Len(Steps(r)) /\ tried' = [tried EXCEPT ![r] = Append(@, name)]
  BY DEF RunStep
<1>2. name \in StepNames /\ name # Nobody
  <2>1. n \in 1..Len(Steps(r))
    BY <1>1, StepsNamed DEF TypeOK
  <2> QED
    BY <2>1, StepsNamed, DispatchAssumption DEF StepNames, Nobody
<1>3. PICK verdict \in Verdicts(r, name) :
        /\ localFailed' = [localFailed EXCEPT ![r] = @ \/ (name = "local" /\ verdict = "retry")]
        /\ \/ /\ servedBy' = [servedBy EXCEPT ![r] = name]
              /\ Deliver(r, 200, {"completion"})
           \/ /\ servedBy' = [servedBy EXCEPT ![r] = IF buffered THEN name ELSE Nobody]
              /\ IF buffered THEN Finish(r, "late", 200, {}) ELSE Finish(r, "failed", 0, {})
           \/ UNCHANGED <<pc, servedBy, answer>>
  BY DEF RunStep
<1>4. localFailed' \in [Requests -> BOOLEAN]
  BY <1>3 DEF TypeOK
<1>5. CASE /\ servedBy' = [servedBy EXCEPT ![r] = name]
           /\ Deliver(r, 200, {"completion"})
  <2>1. servedBy'[r] # Nobody
    BY <1>2, <1>5 DEF TypeOK
  <2>2. {"completion"} \in Said /\ 200 \in Code
    BY DEF Said, Code
  <2>3. Concluded(r)
    BY <1>5, <2>1, <2>2, DeliverConcludes
  <2> QED
    BY <1>1, <1>4, <1>5, <2>3
<1>6. CASE /\ servedBy' = [servedBy EXCEPT ![r] = IF buffered THEN name ELSE Nobody]
           /\ IF buffered THEN Finish(r, "late", 200, {}) ELSE Finish(r, "failed", 0, {})
  <2>1. CASE buffered
    <3>1. Finish(r, "late", 200, {}) /\ servedBy' = [servedBy EXCEPT ![r] = name]
      BY <1>6, <2>1
    <3>2. Outcome(r, "late", 200, {})
      BY <2>1 DEF Outcome
    <3>3. Concluded(r)
      BY <3>1, <3>2 DEF Concluded, Ends, Code, Said
    <3> QED
      BY <1>1, <1>4, <3>1, <3>3
  <2>2. CASE ~buffered
    <3>1. Finish(r, "failed", 0, {}) /\ servedBy' = [servedBy EXCEPT ![r] = Nobody]
      BY <1>6, <2>2
    <3>2. Outcome(r, "failed", 0, {})
      BY <3>1 DEF Outcome, TypeOK
    <3>3. Concluded(r)
      BY <3>1, <3>2 DEF Concluded, Ends, Code, Said
    <3> QED
      BY <1>1, <1>4, <3>1, <3>3
  <2> QED
    BY <2>1, <2>2
<1>7. CASE UNCHANGED <<pc, servedBy, answer>>
  <2>1. servedBy' = [servedBy EXCEPT ![r] = Nobody]
    BY <1>7 DEF TypeOK
  <2> QED
    BY <1>1, <1>4, <1>7, <2>1
<1> QED
  BY <1>3, <1>5, <1>6, <1>7

\* BufferedFetch and Stream end in one of the outcomes.
LEMMA FetchConcludes ==
  ASSUME TypeOK, NEW r \in Requests, NEW reply, ~Cascaded(r),
         BufferedExchange(r, reply) \/ (StreamExchange(r, reply) /\ route[r] # "local")
  PROVE  Concluded(r)
<1>1. ASSUME NEW code \in Code, NEW what \in Said, Deliver(r, code, what) PROVE Concluded(r)
  BY <1>1, DeliverConcludes
<1>2. ASSUME NEW code \in Code, NEW res \in {"failed", "late"}, Finish(r, res, code, {})
      PROVE  Concluded(r)
  <2>1. Outcome(r, res, code, {})
    BY DEF Outcome
  <2>2. {} \in Said
    BY DEF Said
  <2> QED
    BY <1>2, <2>1, <2>2 DEF Concluded, Ends
<1>3. ASSUME route[r] # "local", Finish(r, "truncated", 200, {"partial", "terminator"})
      PROVE  Concluded(r)
  <2>1. Outcome(r, "truncated", 200, {"partial", "terminator"})
    BY <1>3 DEF Outcome
  <2>2. {"partial", "terminator"} \in Said /\ 200 \in Code
    BY DEF Said, Code
  <2> QED
    BY <1>3, <2>1, <2>2 DEF Concluded, Ends
<1>4. /\ {"completion"} \in Said /\ {"upstream_error"} \in Said /\ {"partial", "terminator"} \in Said
      /\ 0 \in Code /\ 200 \in Code /\ RelayedStatus(reply) \in Code
  BY DEF Said, Code, RelayedStatus
<1>5. CASE BufferedExchange(r, reply)
  BY <1>1, <1>2, <1>4, <1>5 DEF BufferedExchange
<1>6. CASE StreamExchange(r, reply) /\ route[r] # "local"
  BY <1>1, <1>2, <1>3, <1>4, <1>6 DEF StreamExchange
<1> QED
  BY <1>5, <1>6

\* What an exchange changes: r's call and answer, and nothing else.
Called(r) ==
  /\ UNCHANGED <<shared, holders, plan, records>>
  /\ pc[r] \in {"cascade", "buffered", "frontier", "failover", "fusion"}
  /\ Concluded(r) \/ UNCHANGED <<pc, servedBy, answer>>
  /\ \E t \in Seq(Providers \cup {"local", "frontier"}) : tried' = [tried EXCEPT ![r] = t]
  /\ localFailed' \in [Requests -> BOOLEAN]
  /\ \E name \in StepNames \cup {Nobody} : servedBy' = [servedBy EXCEPT ![r] = name]

\* A call that contacts no step.
LEMMA IdleCall ==
  ASSUME TypeOK, NEW r \in Requests, servedBy[r] = Nobody, UNCHANGED call
  PROVE  /\ \E t \in Seq(Providers \cup {"local", "frontier"}) : tried' = [tried EXCEPT ![r] = t]
         /\ localFailed' \in [Requests -> BOOLEAN]
         /\ \E name \in StepNames \cup {Nobody} : servedBy' = [servedBy EXCEPT ![r] = name]
<1>1. tried[r] \in Seq(Providers \cup {"local", "frontier"})
  BY DEF TypeOK
<1>2. tried' = [tried EXCEPT ![r] = tried[r]] /\ servedBy' = [servedBy EXCEPT ![r] = Nobody]
  BY DEF TypeOK, call
<1> QED
  BY <1>1, <1>2 DEF TypeOK, call

\* One turn of the cascade loop is such a call.
LEMMA TurnCalls ==
  ASSUME TypeOK, NEW r \in Requests, servedBy[r] = Nobody,
         NEW buffered \in BOOLEAN, RunStep(r, buffered), buffered => ~Cascaded(r),
         pc[r] \in {"cascade", "failover"}, UNCHANGED <<shared, holders, plan, records>>
  PROVE  Called(r)
<1>1. /\ Concluded(r) \/ UNCHANGED <<pc, servedBy, answer>>
      /\ Len(tried[r]) + 1 <= Len(Steps(r))
      /\ tried' = [tried EXCEPT ![r] = Append(@, Steps(r)[Len(tried[r]) + 1])]
      /\ localFailed' \in [Requests -> BOOLEAN]
      /\ \E name \in {Nobody, Steps(r)[Len(tried[r]) + 1]} :
              servedBy' = [servedBy EXCEPT ![r] = name]
  BY StepConcludes
<1>2. Steps(r)[Len(tried[r]) + 1] \in StepNames
  BY <1>1, StepsNamed DEF TypeOK
<1>3. Append(tried[r], Steps(r)[Len(tried[r]) + 1]) \in Seq(Providers \cup {"local", "frontier"})
  BY <1>2 DEF TypeOK, StepNames
<1> QED
  BY <1>1, <1>2, <1>3 DEF Called

\* Every exchange changes r's call and answer, and nothing else.
LEMMA ExchangeCalls ==
  ASSUME TypeOK, NEW r \in Requests, OnRoute(r), servedBy[r] = Nobody, Exchange(r)
  PROVE  Called(r)
<1>1. CASE RunCascade(r)
  <2>1. CASE RunStep(r, FALSE)
    BY <1>1, <2>1, TurnCalls DEF RunCascade
  <2>2. CASE Finish(r, "failed", 0, {}) /\ UNCHANGED call
    <3>1. Outcome(r, "failed", 0, {})
      BY <2>2 DEF Outcome, call
    <3>2. Concluded(r)
      BY <2>2, <3>1 DEF Concluded, Ends, Code, Said
    <3> QED
      BY <1>1, <2>2, <3>2, IdleCall DEF RunCascade, Called
  <2> QED
    BY <1>1, <2>1, <2>2 DEF RunCascade
<1>2. CASE RunFailover(r)
  <2>1. (r \notin streaming) => ~Cascaded(r)
    BY DEF Cascaded
  <2> QED
    BY <1>2, <2>1, TurnCalls DEF RunFailover
<1>3. CASE FetchBuffered(r)
  <2>1. ~Cascaded(r)
    BY <1>3 DEF OnRoute, FetchBuffered, Cascaded
  <2>2. Concluded(r)
    BY <1>3, <2>1, FetchConcludes DEF FetchBuffered
  <2>3. \E t \in Seq(Providers \cup {"local", "frontier"}) : tried' = [tried EXCEPT ![r] = t]
    <3>1. /\ <<"local">> \in Seq(Providers \cup {"local", "frontier"})
          /\ <<"frontier">> \in Seq(Providers \cup {"local", "frontier"})
      OBVIOUS
    <3> QED
      BY <1>3, <3>1 DEF FetchBuffered
  <2>4. servedBy' = [servedBy EXCEPT ![r] = Nobody]
    BY <1>3 DEF FetchBuffered, TypeOK
  <2> QED
    BY <1>3, <2>2, <2>3, <2>4 DEF FetchBuffered, Called, TypeOK
<1>4. CASE FetchFrontier(r) \/ RunPanel(r)
  <2>1. UNCHANGED call
    BY <1>4 DEF FetchFrontier, RunPanel
  <2>3. Concluded(r)
    <3>1. CASE FetchFrontier(r)
      <4>1. ~Cascaded(r) /\ route[r] # "local"
        BY <3>1 DEF OnRoute, FetchFrontier, Cascaded
      <4> QED
        BY <3>1, <4>1, FetchConcludes DEF FetchFrontier
    <3>2. CASE RunPanel(r)
      <4>1. ~Cascaded(r) /\ route[r] = "fusion"
        BY <3>2 DEF OnRoute, RunPanel, Cascaded
      <4>2. Outcome(r, "failed", 0, {}) /\ Outcome(r, "late", 200, {"partial"})
        BY <4>1 DEF Outcome
      <4>3. {"completion"} \in Said /\ {"partial"} \in Said /\ {} \in Said
        BY DEF Said
      <4>4. CASE Deliver(r, 200, {"completion"})
        BY <4>1, <4>3, <4>4, DeliverConcludes DEF Code
      <4>5. CASE Finish(r, "failed", 0, {}) \/ Finish(r, "late", 200, {"partial"})
        BY <4>2, <4>3, <4>5 DEF Concluded, Ends, Code
      <4> QED
        BY <3>2, <4>4, <4>5 DEF RunPanel
    <3> QED
      BY <1>4, <3>1, <3>2
  <2> QED
    BY <1>4, <2>1, <2>3, IdleCall DEF FetchFrontier, RunPanel, Called
<1> QED
  BY <1>1, <1>2, <1>3, <1>4 DEF Exchange

-----------------------------------------------------------------------------
\* Before its upstreams have answered, nothing is written, recorded or served.
Untouched(r) ==
  pc[r] \in {"new", "acquire", "cascade", "buffered", "budget", "frontier", "failover", "fusion"} =>
    /\ result[r] = "none" /\ status[r] = 0 /\ body[r] = {}
    /\ servedBy[r] = Nobody /\ records[r] = 0

\* The answer of a cascade to a client that stays.
Served(r) == status[r] = 200 /\ body[r] = {"completion"} /\ servedBy[r] # Nobody
Refused(r) == status[r] >= 400 /\ body[r] = {"error"} /\ servedBy[r] = Nobody
Watched(r) == Cascaded(r) /\ r \notin Leavers

\* What the handler has in hand when the call has returned.
Returned(r) ==
  pc[r] = "returned" =>
    /\ route[r] \in {"local", "frontier", "fusion"} /\ result[r] \in Ends
    /\ status[r] \in Code /\ body[r] \in Said /\ records[r] = 0
    /\ (r \notin Leavers /\ route[r] # "fusion" /\ result[r] \in {"failed", "late"}) => body[r] = {}
    /\ route[r] = "local" => result[r] # "truncated"
    /\ Watched(r) => \/ result[r] = "ok" /\ Served(r)
                     \/ result[r] = "failed" /\ status[r] = 0 /\ body[r] = {} /\ servedBy[r] = Nobody

Charging(r) ==
  pc[r] = "charge" =>
    /\ route[r] \in {"frontier", "fusion"} /\ result[r] = "ok"
    /\ status[r] # 429 /\ "error" \notin body[r] /\ records[r] = 0
    /\ Watched(r) => Served(r)

Ended(r) ==
  /\ pc[r] \in {"tail", "done"} /\ Watched(r) => Served(r) \/ Refused(r)
  /\ pc[r] = "tail" /\ status[r] # 429 => records[r] = 0
  /\ pc[r] = "done" /\ status[r] # 429 => records[r] = 1
  /\ (r \notin Leavers /\ "error" \in body[r] /\ route[r] # "fusion") => body[r] = {"error"}

RequestInv(r) == OnRoute(r) /\ Untouched(r) /\ Returned(r) /\ Charging(r) /\ Ended(r)

\* The state of a request that is not this step's.
Same(q) ==
  /\ pc'[q] = pc[q] /\ route'[q] = route[q] /\ (q \in streaming') = (q \in streaming)
  /\ skipLocal'[q] = skipLocal[q] /\ tried'[q] = tried[q] /\ servedBy'[q] = servedBy[q]
  /\ result'[q] = result[q] /\ status'[q] = status[q] /\ body'[q] = body[q]
  /\ records'[q] = records[q]
  /\ failover' = failover /\ fallbacks' = fallbacks

\* A step elsewhere does not disturb it.
LEMMA SameKeeps ==
  ASSUME NEW q \in Requests, RequestInv(q), Same(q)
  PROVE  RequestInv(q)'
BY DEF Same, RequestInv, OnRoute, Untouched, Returned, Charging, Ended, Served, Refused, Watched, Cascaded

\* An exchange keeps the types, leaves the others alone and keeps its request in order.
LEMMA CalledStep ==
  ASSUME TypeOK, NEW r \in Requests, RequestInv(r), Called(r)
  PROVE  TypeOK' /\ RequestInv(r)' /\ \A q \in Requests \ {r} : Same(q)
<1>1. /\ UNCHANGED <<healthy, cooldown, spent, gone, failover, fallbacks, holders,
                     route, streaming, skipLocal, records>>
      /\ pc[r] \in {"cascade", "buffered", "frontier", "failover", "fusion"}
  BY DEF Called, shared, plan
<1>2. PICK t \in Seq(Providers \cup {"local", "frontier"}) : tried' = [tried EXCEPT ![r] = t]
  BY DEF Called
<1>3. PICK name \in StepNames \cup {Nobody} : servedBy' = [servedBy EXCEPT ![r] = name]
  BY DEF Called
<1>4. localFailed' \in [Requests -> BOOLEAN]
  BY DEF Called
<1>5. /\ tried' \in [Requests -> Seq(Providers \cup {"local", "frontier"})]
      /\ servedBy' \in [Requests -> Providers \cup {"local", Nobody}]
  BY <1>2, <1>3 DEF TypeOK, StepNames
<1>6. /\ result[r] = "none" /\ status[r] = 0 /\ body[r] = {}
      /\ servedBy[r] = Nobody /\ records[r] = 0
  BY <1>1 DEF RequestInv, Untouched
<1>7. CASE Concluded(r)
  <2>1. PICK res \in Ends, code \in Code, what \in Said :
          Finish(r, res, code, what) /\ Outcome(r, res, code, what)
    BY <1>7 DEF Concluded
  <2>2. res \in Results /\ code \in {0, 200, 400, 500} /\ what \in SUBSET Parts
    BY DEF Ends, Code, Said, Results, Parts
  <2>3. /\ pc' = [pc EXCEPT ![r] = "returned"] /\ result' = [result EXCEPT ![r] = res]
        /\ status' = [status EXCEPT ![r] = IF @ = 0 THEN code ELSE @]
        /\ body' = [body EXCEPT ![r] = @ \cup what]
    BY <2>1 DEF Finish, Write
  <2>4. /\ pc' \in [Requests -> Positions] /\ result' \in [Requests -> Results]
        /\ status' \in [Requests -> {0, 200, 400, 429, 500, 502, 503}]
        /\ body' \in [Requests -> SUBSET Parts]
    <3>1. pc' \in [Requests -> Positions]
      BY <2>3 DEF TypeOK, Positions
    <3>2. result' \in [Requests -> Results]
      BY <2>2, <2>3 DEF TypeOK
    <3>3. status' \in [Requests -> {0, 200, 400, 429, 500, 502, 503}]
      BY <2>2, <2>3 DEF TypeOK
    <3>4. body' \in [Requests -> SUBSET Parts]
      BY <2>2, <2>3 DEF TypeOK
    <3> QED
      BY <3>1, <3>2, <3>3, <3>4
  <2>5. TypeOK'
    BY <1>1, <1>4, <1>5, <2>4 DEF TypeOK
  <2>6. \A q \in Requests \ {r} : Same(q)
    BY <1>1, <1>2, <1>3, <2>3 DEF Same, TypeOK
  <2>7. /\ pc'[r] = "returned" /\ result'[r] = res /\ status'[r] = code /\ body'[r] = what
        /\ servedBy'[r] = name /\ records'[r] = 0 /\ route'[r] = route[r]
        /\ route[r] \in {"local", "frontier", "fusion"}
    BY <1>1, <1>3, <1>6, <2>3 DEF TypeOK, RequestInv, OnRoute
  <2>8. "error" \notin what
    BY DEF Said
  <2>9. Cascaded(r)' = Cascaded(r)
    BY <1>1 DEF Cascaded
  <2>10. Returned(r)'
    BY <2>1, <2>7, <2>9 DEF Returned, Outcome, Watched, Served
  <2>11. OnRoute(r)' /\ Untouched(r)' /\ Charging(r)' /\ Ended(r)'
    BY <2>7, <2>8 DEF OnRoute, Untouched, Charging, Ended
  <2> QED
    BY <2>5, <2>6, <2>10, <2>11 DEF RequestInv
<1>8. CASE UNCHANGED <<pc, servedBy, answer>>
  <2>1. UNCHANGED <<pc, servedBy, result, status, body>>
    BY <1>8 DEF answer
  <2>2. TypeOK'
    BY <1>1, <1>4, <1>5, <2>1 DEF TypeOK
  <2>3. \A q \in Requests \ {r} : Same(q)
    BY <1>1, <1>2, <2>1 DEF Same, TypeOK
  <2>4. RequestInv(r)'
    BY <1>1, <1>6, <2>1 DEF RequestInv, OnRoute, Untouched, Returned, Charging, Ended
  <2> QED
    BY <2>2, <2>3, <2>4
<1> QED
  BY <1>7, <1>8 DEF Called

\* The plan, the queue for a slot and the budget.
LEMMA AdmissionStep ==
  ASSUME TypeOK, NEW r \in Requests, RequestInv(r),
         Plan(r) \/ AcquireSlot(r) \/ AcquireFails(r) \/ PassBudget(r) \/ RejectBudget(r)
  PROVE  TypeOK' /\ RequestInv(r)' /\ \A q \in Requests \ {r} : Same(q)
<1> USE DEF shared, plan, call, answer, Goto
<1>1. CASE Plan(r)
  <2>1. PICK way \in Routes, stream \in BOOLEAN :
          /\ route' = [route EXCEPT ![r] = way]
          /\ streaming' = IF stream THEN streaming \cup {r} ELSE streaming
          /\ skipLocal' = [skipLocal EXCEPT ![r] = (~healthy \/ cooldown) /\ way \in {"local", "fusion"}]
          /\ pc' = [pc EXCEPT ![r] = IF way = "local" THEN "acquire" ELSE "budget"]
    BY <1>1 DEF Plan
  <2>2. way \in {"local", "frontier", "fusion"}
    BY DispatchAssumption
  <2>3. UNCHANGED <<healthy, cooldown, spent, gone, failover, fallbacks, holders, tried,
                    localFailed, servedBy, result, status, body, records>> /\ pc[r] = "new"
    BY <1>1 DEF Plan
  <2>4. TypeOK'
    BY <2>1, <2>3 DEF TypeOK, Positions
  <2>5. \A q \in Requests \ {r} : Same(q)
    BY <2>1, <2>3 DEF Same, TypeOK
  <2>6. /\ pc'[r] = (IF way = "local" THEN "acquire" ELSE "budget") /\ route'[r] = way
    BY <2>1 DEF TypeOK
  <2>7. RequestInv(r)'
    BY <2>2, <2>3, <2>6 DEF RequestInv, OnRoute, Untouched, Returned, Charging, Ended
  <2> QED
    BY <2>4, <2>5, <2>7
<1>2. CASE AcquireSlot(r)
  <2>1. TypeOK'
    BY <1>2 DEF AcquireSlot, TypeOK, Positions
  <2>2. \A q \in Requests \ {r} : Same(q)
    BY <1>2 DEF AcquireSlot, Same, TypeOK
  <2>3. RequestInv(r)'
    BY <1>2 DEF AcquireSlot, TypeOK, RequestInv, OnRoute, Untouched, Returned, Charging, Ended
  <2> QED
    BY <2>1, <2>2, <2>3
<1>3. CASE AcquireFails(r)
  <2>1. TypeOK'
    BY <1>3 DEF AcquireFails, WriteError, Write, TypeOK, Positions, Results, Parts
  <2>2. \A q \in Requests \ {r} : Same(q)
    BY <1>3 DEF AcquireFails, WriteError, Write, Same, TypeOK
  <2>3. r \in Leavers
    BY <1>3 DEF AcquireFails, TypeOK
  <2>4. /\ pc'[r] = "tail" /\ records'[r] = 0
    BY <1>3 DEF AcquireFails, TypeOK, RequestInv, Untouched
  <2>5. RequestInv(r)'
    BY <2>3, <2>4 DEF RequestInv, OnRoute, Untouched, Returned, Charging, Ended, Watched
  <2> QED
    BY <2>1, <2>2, <2>5
<1>4. CASE PassBudget(r)
  <2>1. TypeOK'
    BY <1>4 DEF PassBudget, TypeOK, Positions
  <2>2. \A q \in Requests \ {r} : Same(q)
    BY <1>4 DEF PassBudget, Same, TypeOK
  <2>3. RequestInv(r)'
    BY <1>4 DEF PassBudget, TypeOK, RequestInv, OnRoute, Untouched, Returned, Charging, Ended
  <2> QED
    BY <2>1, <2>2, <2>3
<1>5. CASE RejectBudget(r)
  <2>1. TypeOK'
    BY <1>5 DEF RejectBudget, WriteError, Write, TypeOK, Positions, Parts
  <2>2. \A q \in Requests \ {r} : Same(q)
    BY <1>5 DEF RejectBudget, WriteError, Write, Same, TypeOK
  <2>3. /\ pc'[r] = "tail" /\ status'[r] = 429 /\ body'[r] = {"error"} /\ servedBy'[r] = Nobody
    BY <1>5 DEF RejectBudget, WriteError, Write, TypeOK, RequestInv, Untouched
  <2>4. RequestInv(r)'
    BY <2>3 DEF RequestInv, OnRoute, Untouched, Returned, Charging, Ended, Refused
  <2> QED
    BY <2>1, <2>2, <2>4
<1> QED
  BY <1>1, <1>2, <1>3, <1>4, <1>5

\* The handler after the call, the charge and the tail.
LEMMA ReturnStep ==
  ASSUME TypeOK, NEW r \in Requests, RequestInv(r),
         ReturnLocal(r) \/ ReturnFrontier(r) \/ Charge(r) \/ RecordAndRelease(r) \/ Leave(r)
  PROVE  TypeOK' /\ RequestInv(r)' /\ \A q \in Requests \ {r} : Same(q)
<1> USE DEF shared, plan, call, answer, Goto
<1>1. CASE ReturnLocal(r) \/ ReturnFrontier(r)
  <2>0. pc[r] = "returned" /\ \E there \in {"charge", "tail"} : pc' = [pc EXCEPT ![r] = there]
    <3>1. CASE ReturnLocal(r)
      BY <3>1 DEF ReturnLocal
    <3>2. CASE ReturnFrontier(r)
      BY <3>2 DEF ReturnFrontier
    <3> QED
      BY <1>1, <3>1, <3>2
  <2>1. /\ pc[r] = "returned" /\ pc'[r] \in {"charge", "tail"} /\ pc' \in [Requests -> Positions]
        /\ \A q \in Requests \ {r} : pc'[q] = pc[q]
        /\ UNCHANGED <<healthy, spent, gone, failover, fallbacks, holders, route, streaming,
                       skipLocal, tried, localFailed, servedBy, result, records>>
        /\ cooldown' \in BOOLEAN
    <3>1. /\ pc'[r] \in {"charge", "tail"} /\ pc' \in [Requests -> Positions]
          /\ \A q \in Requests \ {r} : pc'[q] = pc[q]
      BY <2>0 DEF TypeOK, Positions
    <3>2. UNCHANGED <<healthy, spent, gone, failover, fallbacks, holders, route, streaming,
                     skipLocal, tried, localFailed, servedBy, result, records>>
      BY <1>1 DEF ReturnLocal, ReturnFrontier
    <3>3. cooldown' \in BOOLEAN
      <4>1. CASE ReturnLocal(r)
        BY <4>1 DEF ReturnLocal
      <4>2. CASE ReturnFrontier(r)
        BY <4>2 DEF ReturnFrontier, TypeOK
      <4> QED
        BY <1>1, <4>1, <4>2
    <3> QED
      BY <2>0, <3>1, <3>2, <3>3
  <2>2. \/ UNCHANGED <<status, body>>
        \/ /\ status' = [status EXCEPT ![r] = IF @ = 0 THEN 502 ELSE @]
           /\ body' = [body EXCEPT ![r] = @ \cup {"error"}]
    BY <1>1 DEF ReturnLocal, ReturnFrontier, WriteError, Write
  <2>3. TypeOK'
    <3>2. status' \in [Requests -> {0, 200, 400, 429, 500, 502, 503}]
      <4>1. CASE UNCHANGED status
        BY <4>1 DEF TypeOK
      <4>2. CASE status' = [status EXCEPT ![r] = IF @ = 0 THEN 502 ELSE @]
        BY <4>2 DEF TypeOK
      <4> QED
        BY <2>2, <4>1, <4>2
    <3>3. body' \in [Requests -> SUBSET Parts]
      <4>1. CASE UNCHANGED body
        BY <4>1 DEF TypeOK
      <4>2. CASE body' = [body EXCEPT ![r] = @ \cup {"error"}]
        <5>1. body[r] \cup {"error"} \in SUBSET Parts
          BY DEF TypeOK, Parts
        <5> QED
          BY <4>2, <5>1 DEF TypeOK
      <4> QED
        BY <2>2, <4>1, <4>2
    <3> QED
      BY <2>1, <3>2, <3>3 DEF TypeOK
  <2>4. \A q \in Requests \ {r} : Same(q)
    BY <2>1, <2>2 DEF Same, TypeOK
  <2>5. Cascaded(r)' = Cascaded(r)
    BY <2>1 DEF Cascaded
  <2>6. CASE result[r] = "ok"
    <3>1. UNCHANGED <<status, body>>
      BY <1>1, <2>6 DEF ReturnLocal, ReturnFrontier
    <3>2. pc'[r] = "charge" => route[r] \in {"frontier", "fusion"}
      BY <1>1, <2>1 DEF ReturnLocal, ReturnFrontier, TypeOK, RequestInv, Returned
    <3>3. "error" \notin body[r] /\ status[r] # 429
      BY <2>1 DEF RequestInv, Returned, Said, Code
    <3>4. Watched(r)' => Served(r)'
      BY <2>1, <2>5, <2>6, <3>1 DEF RequestInv, Returned, Watched, Served
    <3> QED
      BY <2>1, <2>3, <2>4, <2>6, <3>1, <3>2, <3>3, <3>4
         DEF RequestInv, OnRoute, Untouched, Returned, Charging, Ended
  <2>7. CASE result[r] = "truncated"
    <3>1. UNCHANGED <<status, body>> /\ pc'[r] = "tail"
      BY <1>1, <2>1, <2>7 DEF ReturnLocal, ReturnFrontier, RequestInv, Returned, TypeOK
    <3>2. "error" \notin body[r] /\ status[r] # 429
      BY <2>1 DEF RequestInv, Returned, Said, Code
    <3>3. ~Watched(r)'
      BY <2>1, <2>5, <2>7 DEF RequestInv, Returned, Watched
    <3> QED
      BY <2>1, <2>3, <2>4, <2>7, <3>1, <3>2, <3>3
         DEF RequestInv, OnRoute, Untouched, Returned, Charging, Ended
  <2>8. CASE result[r] \in {"failed", "late"}
    <3>1. /\ status' = [status EXCEPT ![r] = IF @ = 0 THEN 502 ELSE @]
          /\ body' = [body EXCEPT ![r] = @ \cup {"error"}]
          /\ pc'[r] = "tail"
      BY <1>1, <2>1, <2>8 DEF ReturnLocal, ReturnFrontier, WriteError, Write, TypeOK
    <3>2. status[r] \in Code /\ status'[r] = (IF status[r] = 0 THEN 502 ELSE status[r])
          /\ body'[r] = body[r] \cup {"error"}
      BY <2>1, <3>1 DEF TypeOK, RequestInv, Returned
    <3>3. Watched(r)' => Refused(r)'
      BY <2>1, <2>5, <2>8, <3>2 DEF RequestInv, Returned, Watched, Refused
    <3>4. (r \notin Leavers /\ route[r] # "fusion") => body'[r] = {"error"}
      BY <2>1, <2>8, <3>2 DEF RequestInv, Returned
    <3>5. status'[r] # 429 /\ records'[r] = 0
      BY <2>1, <3>2 DEF Code, RequestInv, Returned
    <3> QED
      BY <2>1, <2>3, <2>4, <3>1, <3>3, <3>4, <3>5
         DEF RequestInv, OnRoute, Untouched, Returned, Charging, Ended
  <2> QED
    BY <2>1, <2>6, <2>7, <2>8 DEF RequestInv, Returned, Ends
<1>2. CASE Charge(r)
  <2>1. TypeOK'
    BY <1>2, DispatchAssumption DEF Charge, TypeOK, Positions
  <2>2. \A q \in Requests \ {r} : Same(q)
    BY <1>2 DEF Charge, Same, TypeOK
  <2>3. /\ pc'[r] = "tail" /\ records'[r] = 0 /\ "error" \notin body'[r]
        /\ Watched(r)' => Served(r)'
    BY <1>2 DEF Charge, TypeOK, RequestInv, Charging, Watched, Served, Cascaded
  <2> QED
    BY <2>1, <2>2, <2>3 DEF RequestInv, OnRoute, Untouched, Returned, Charging, Ended
<1>3. CASE RecordAndRelease(r)
  <2>1. TypeOK'
    BY <1>3 DEF RecordAndRelease, TypeOK, Positions
  <2>2. \A q \in Requests \ {r} : Same(q)
    BY <1>3 DEF RecordAndRelease, Same, TypeOK
  <2>3. /\ pc[r] = "tail" /\ pc'[r] = "done" /\ records'[r] = records[r] + 1
        /\ UNCHANGED <<failover, route, streaming, servedBy, result, status, body>>
    BY <1>3 DEF RecordAndRelease, TypeOK
  <2>4. Ended(r)'
    BY <2>3 DEF RequestInv, Ended, Watched, Served, Refused, Cascaded
  <2> QED
    BY <2>1, <2>2, <2>3, <2>4 DEF RequestInv, OnRoute, Untouched, Returned, Charging
<1>4. CASE Leave(r)
  <2>1. \A q \in Requests : Same(q)
    BY <1>4 DEF Leave, Same
  <2>2. TypeOK'
    BY <1>4 DEF Leave, TypeOK
  <2> QED
    BY <2>1, <2>2, SameKeeps
<1> QED
  BY <1>1, <1>2, <1>3, <1>4

-----------------------------------------------------------------------------
\* The inductive invariant: the types, and every request in order.
DispatchInv == TypeOK /\ \A r \in Requests : RequestInv(r)

\* The initial states satisfy it.
LEMMA DispatchStarts == Init => DispatchInv
<1> SUFFICES ASSUME Init, NEW r \in Requests PROVE RequestInv(r)
  BY DispatchInitTypes DEF DispatchInv
<1>1. /\ pc[r] = "new" /\ result[r] = "none" /\ status[r] = 0 /\ body[r] = {}
      /\ servedBy[r] = Nobody /\ records[r] = 0
  BY DEF Init
<1> QED
  BY <1>1 DEF RequestInv, OnRoute, Untouched, Returned, Charging, Ended

\* A step of one request keeps it in order and leaves the others alone.
LEMMA RequestStep ==
  ASSUME DispatchInv, NEW r \in Requests, Plan(r) \/ Serve(r) \/ Leave(r)
  PROVE  TypeOK' /\ RequestInv(r)' /\ \A q \in Requests \ {r} : Same(q)
<1> USE DEF DispatchInv
<1>1. CASE Plan(r) \/ AcquireSlot(r) \/ AcquireFails(r) \/ PassBudget(r) \/ RejectBudget(r)
  BY <1>1, AdmissionStep
<1>2. CASE Exchange(r)
  <2>1. servedBy[r] = Nobody /\ OnRoute(r)
    BY <1>2 DEF RequestInv, Untouched, Exchange, RunCascade, FetchBuffered, FetchFrontier,
                RunFailover, RunPanel
  <2> QED
    BY <1>2, <2>1, ExchangeCalls, CalledStep
<1>3. CASE ReturnLocal(r) \/ ReturnFrontier(r) \/ Charge(r) \/ RecordAndRelease(r) \/ Leave(r)
  BY <1>3, ReturnStep
<1> QED
  BY <1>1, <1>2, <1>3 DEF Serve, Exchange

\* Steps of the environment, and stuttering, touch no request.
LEMMA OthersStep ==
  ASSUME DispatchInv, CooldownEnds \/ PollerVerdict \/ UNCHANGED vars
  PROVE  TypeOK' /\ UNCHANGED <<holders, spent>> /\ \A q \in Requests : Same(q)
<1> USE DEF plan, call, answer
<1>1. /\ UNCHANGED <<spent, gone, failover, fallbacks, holders, pc, route, streaming, skipLocal,
                     tried, localFailed, servedBy, result, status, body, records>>
      /\ healthy' \in BOOLEAN /\ cooldown' \in BOOLEAN
  BY DEF CooldownEnds, PollerVerdict, vars, DispatchInv, TypeOK
<1> QED
  BY <1>1 DEF DispatchInv, TypeOK, Same

\* Every step keeps the invariant.
LEMMA DispatchStep == DispatchInv /\ [Next]_vars => DispatchInv'
<1> SUFFICES ASSUME DispatchInv, [Next]_vars PROVE DispatchInv'
  OBVIOUS
<1>1. ASSUME NEW r \in Requests, Plan(r) \/ Serve(r) \/ Leave(r) PROVE DispatchInv'
  <2>1. TypeOK' /\ RequestInv(r)' /\ \A q \in Requests \ {r} : Same(q)
    BY <1>1, RequestStep
  <2>2. \A q \in Requests \ {r} : RequestInv(q)'
    BY <2>1, SameKeeps DEF DispatchInv
  <2> QED
    BY <2>1, <2>2 DEF DispatchInv
<1>2. CASE CooldownEnds \/ PollerVerdict \/ UNCHANGED vars
  <2>1. TypeOK' /\ \A q \in Requests : Same(q)
    BY <1>2, OthersStep
  <2> QED
    BY <2>1, SameKeeps DEF DispatchInv
<1> QED
  BY <1>1, <1>2 DEF Next

-----------------------------------------------------------------------------
\* The slot of one request.
SlotOf(r) ==
  /\ pc[r] \in {"cascade", "buffered"} => r \in holders
  /\ pc[r] \in {"new", "acquire", "done"} => r \notin holders

\* Every step keeps the limiter's books.
LEMMA SlotStep ==
  ASSUME DispatchInv, SlotDiscipline, [Next]_vars
  PROVE  SlotDiscipline'
<1>1. SlotDiscipline = (Cardinality(holders) <= Slots /\ \A r \in Requests : SlotOf(r))
  BY DEF SlotDiscipline, SlotOf
<1>2. SlotDiscipline' = (Cardinality(holders') <= Slots /\ \A r \in Requests : SlotOf(r)')
  BY DEF SlotDiscipline, SlotOf
<1>3. IsFiniteSet(holders) /\ Cardinality(holders) \in Nat /\ Slots \in Nat
  BY DispatchAssumption, FS_Subset, FS_CardinalityType DEF DispatchInv, TypeOK
<1>4. ASSUME NEW r \in Requests, Plan(r) \/ Serve(r) \/ Leave(r) PROVE SlotDiscipline'
  <2>1. \A q \in Requests \ {r} : pc'[q] = pc[q]
    BY <1>4, RequestStep DEF Same
  <2>2. CASE AcquireSlot(r)
    <3>1. holders' = holders \cup {r} /\ Cardinality(holders) < Slots
          /\ pc'[r] \in {"cascade", "buffered"}
      BY <2>2 DEF AcquireSlot, Goto, DispatchInv, TypeOK
    <3>2. Cardinality(holders \cup {r}) <= Cardinality(holders) + 1
      BY <1>3, FS_AddElement
    <3>3. Cardinality(holders') <= Slots
      <4>1. Cardinality(holders \cup {r}) \in Nat
        BY <1>3, FS_AddElement, FS_CardinalityType
      <4> QED
        BY <1>3, <3>1, <3>2, <4>1
    <3>4. \A q \in Requests : SlotOf(q)'
      BY <1>1, <2>1, <3>1 DEF SlotOf
    <3> QED
      BY <1>2, <3>3, <3>4
  <2>3. CASE RecordAndRelease(r)
    <3>1. holders' = holders \ {r} /\ pc'[r] = "done"
      BY <2>3 DEF RecordAndRelease, Goto, DispatchInv, TypeOK
    <3>2. Cardinality(holders') <= Slots
      <4>1. IsFiniteSet(holders \ {r}) /\ Cardinality(holders \ {r}) <= Cardinality(holders)
        BY <1>3, FS_Subset
      <4>2. Cardinality(holders \ {r}) \in Nat /\ Cardinality(holders) <= Slots
        BY <4>1, FS_CardinalityType DEF SlotDiscipline
      <4> QED
        BY <1>3, <3>1, <4>1, <4>2
    <3>3. \A q \in Requests : SlotOf(q)'
      BY <1>1, <2>1, <3>1 DEF SlotOf
    <3> QED
      BY <1>2, <3>2, <3>3
  <2>4. CASE Exchange(r)
    <3>1. Called(r)
      BY <2>4, ExchangeCalls DEF DispatchInv, RequestInv, Untouched, Exchange, RunCascade,
           FetchBuffered, FetchFrontier, RunFailover, RunPanel
    <3>2. holders' = holders /\ (pc' = pc \/ pc' = [pc EXCEPT ![r] = "returned"])
      BY <3>1 DEF Called, Concluded, Finish
    <3> QED
      BY <1>1, <1>2, <3>2 DEF SlotOf, DispatchInv, TypeOK
  <2>5. CASE \/ Plan(r) \/ AcquireFails(r) \/ PassBudget(r) \/ RejectBudget(r) \/ Leave(r)
             \/ ReturnLocal(r) \/ ReturnFrontier(r) \/ Charge(r)
    <3>1. holders' = holders
      BY <2>5 DEF Plan, AcquireFails, PassBudget, RejectBudget, Leave, ReturnLocal, ReturnFrontier,
                  Charge
    <3>2. \/ pc'[r] = pc[r]
          \/ pc[r] = "new" /\ pc'[r] \in {"acquire", "budget"}
          \/ pc'[r] \in {"tail", "fusion", "failover", "frontier", "charge"}
      <4> USE DEF Goto, DispatchInv, TypeOK
      <4>1. CASE Plan(r)
        BY <4>1 DEF Plan
      <4>2. CASE AcquireFails(r) \/ PassBudget(r) \/ RejectBudget(r)
        BY <4>2 DEF AcquireFails, PassBudget, RejectBudget
      <4>3. CASE Leave(r)
        <5>1. pc' = pc
          BY <4>3 DEF Leave
        <5> QED
          BY <5>1
      <4>4. CASE ReturnLocal(r) \/ ReturnFrontier(r)
        BY <4>4 DEF ReturnLocal, ReturnFrontier
      <4>5. CASE Charge(r)
        BY <4>5 DEF Charge
      <4> QED
        BY <2>5, <4>1, <4>2, <4>3, <4>4, <4>5
    <3> QED
      BY <1>1, <1>2, <2>1, <3>1, <3>2 DEF SlotOf
  <2> QED
    BY <1>4, <2>2, <2>3, <2>4, <2>5 DEF Serve, Exchange
<1>5. CASE CooldownEnds \/ PollerVerdict \/ UNCHANGED vars
  <2>1. holders' = holders /\ \A q \in Requests : Same(q)
    BY <1>5, OthersStep
  <2> QED
    BY <1>1, <1>2, <2>1 DEF Same, SlotOf
<1> QED
  BY <1>4, <1>5 DEF Next

\* The local arm never has more requests than slots, a request talks to it only
\* while it holds one, and no way out of the handler keeps the slot: for any
\* number of requests, slots and steps (handlers/chat.go:1960-2230).
THEOREM DispatchSlotDiscipline == Spec => []SlotDiscipline
<1>1. Init => SlotDiscipline
  <2> SUFFICES ASSUME Init PROVE SlotDiscipline
    OBVIOUS
  <2>1. Cardinality(holders) = 0 /\ \A r \in Requests : pc[r] = "new" /\ r \notin holders
    BY FS_EmptySet DEF Init
  <2> QED
    BY <2>1, DispatchAssumption DEF SlotDiscipline
<1>2. DispatchInv /\ SlotDiscipline /\ [Next]_vars => SlotDiscipline'
  BY SlotStep
<1> QED
  BY <1>1, <1>2, DispatchStarts, DispatchStep, PTL DEF Spec

-----------------------------------------------------------------------------
\* The steps a request may contact, in order, whatever the failover cap.
Order(r) == IF route[r] = "local" /\ ~skipLocal[r] THEN <<"local">> \o fallbacks ELSE fallbacks

\* The steps contacted are the first ones of the order; the server is the last.
Ordered(r) ==
  /\ pc[r] \in {"new", "acquire", "budget"} => tried[r] = <<>>
  /\ pc[r] \in {"cascade", "failover"} \/ servedBy[r] # Nobody =>
       Len(tried[r]) <= Len(Order(r)) /\ \A i \in 1..Len(tried[r]) : tried[r][i] = Order(r)[i]
  /\ servedBy[r] # Nobody => servedBy[r] = tried[r][Len(tried[r])]

\* The cascade a request runs is the order, cut by the cap on failover attempts.
LEMMA StepsOrdered ==
  ASSUME TypeOK, NEW r \in Requests
  PROVE  /\ Order(r) \in Seq(StepNames) /\ Len(Steps(r)) <= Len(Order(r))
         /\ \A i \in 1..Len(Steps(r)) : Steps(r)[i] = Order(r)[i]
<1>1. fallbacks \in Seq(StepNames) /\ <<"local">> \o fallbacks \in Seq(StepNames)
  <2>1. fallbacks \in Seq(StepNames)
    BY DispatchAssumption DEF TypeOK, StepNames
  <2> QED
    BY <2>1 DEF StepNames
<1>2. CASE route[r] = "local"
  <2>1. Steps(r) = Order(r)
    BY <1>2 DEF Steps, Order, BuildLocalCascade
  <2> QED
    BY <1>1, <2>1 DEF Order
<1>3. CASE route[r] # "local"
  <2>1. Order(r) = fallbacks /\ Steps(r) = FailoverSteps
    BY <1>3 DEF Steps, Order
  <2>2. CASE MaxAttempts \in 1..(Len(fallbacks) - 1)
    <3>1. Steps(r) = SubSeq(fallbacks, 1, MaxAttempts)
      BY <2>1, <2>2 DEF FailoverSteps
    <3>2. Len(Steps(r)) = MaxAttempts /\ \A i \in 1..MaxAttempts : Steps(r)[i] = fallbacks[i]
      BY <1>1, <2>2, <3>1
    <3> QED
      BY <1>1, <2>1, <2>2, <3>2
  <2>3. CASE MaxAttempts \notin 1..(Len(fallbacks) - 1)
    BY <1>1, <2>1, <2>3 DEF FailoverSteps
  <2> QED
    BY <2>2, <2>3
<1> QED
  BY <1>2, <1>3

\* A step elsewhere does not disturb it.
LEMMA SameOrdered ==
  ASSUME NEW q \in Requests, Ordered(q), Same(q)
  PROVE  Ordered(q)'
BY DEF Same, Ordered, Order

\* One turn of the loop contacts the next step of the order.
LEMMA TurnOrdered ==
  ASSUME TypeOK, NEW r \in Requests, Ordered(r), servedBy[r] = Nobody,
         pc[r] \in {"cascade", "failover"}, UNCHANGED <<shared, plan>>,
         Len(tried[r]) + 1 <= Len(Steps(r)),
         tried' = [tried EXCEPT ![r] = Append(@, Steps(r)[Len(tried[r]) + 1])],
         \E name \in {Nobody, Steps(r)[Len(tried[r]) + 1]} :
              servedBy' = [servedBy EXCEPT ![r] = name],
         pc'[r] \in {pc[r], "returned"}
  PROVE  Ordered(r)'
<1> DEFINE n == Len(tried[r]) + 1
           step == Steps(r)[n]
<1>1. tried[r] \in Seq(Providers \cup {"local", "frontier"}) /\ n \in 1..Len(Steps(r))
  BY StepsNamed DEF TypeOK
<1>2. step = Order(r)[n] /\ n <= Len(Order(r)) /\ step \in StepNames
  <2>1. step = Order(r)[n] /\ n <= Len(Order(r))
    BY <1>1, StepsOrdered, StepsNamed
  <2> QED
    BY <1>1, <2>1, StepsNamed
<1>3. /\ tried'[r] = Append(tried[r], step) /\ Len(tried'[r]) = n
      /\ \A i \in 1..Len(tried[r]) : tried'[r][i] = tried[r][i]
      /\ tried'[r][n] = step
  <2>1. tried'[r] = Append(tried[r], step)
    BY DEF TypeOK
  <2>2. step \in Providers \cup {"local", "frontier"}
    BY <1>2 DEF StepNames
  <2> QED
    BY <1>1, <2>1, <2>2
<1>4. Order(r)' = Order(r)
  BY DEF Order, shared, plan
<1>5. servedBy'[r] \in {Nobody, tried'[r][n]}
  BY <1>3 DEF TypeOK
<1>6. \A i \in 1..n : tried'[r][i] = Order(r)[i]
  <2> SUFFICES ASSUME NEW i \in 1..n PROVE tried'[r][i] = Order(r)[i]
    OBVIOUS
  <2>1. CASE i = n
    BY <1>2, <1>3, <2>1
  <2>2. CASE i # n
    <3>1. i \in 1..Len(tried[r])
      BY <1>1, <2>2
    <3> QED
      BY <1>3, <3>1 DEF Ordered
  <2> QED
    BY <2>1, <2>2
<1> HIDE DEF n, step
<1> QED
  BY <1>2, <1>3, <1>4, <1>5, <1>6 DEF Ordered

\* Every step keeps the order.
LEMMA OrderedStep ==
  ASSUME DispatchInv, \A q \in Requests : Ordered(q), [Next]_vars
  PROVE  \A q \in Requests : Ordered(q)'
<1> USE DEF DispatchInv
<1>1. ASSUME NEW r \in Requests, Plan(r) \/ Serve(r) \/ Leave(r) PROVE Ordered(r)'
  <2>1. CASE Plan(r)
    <3>1. /\ pc[r] = "new" /\ pc'[r] \in {"acquire", "budget"} /\ tried'[r] = tried[r]
          /\ servedBy'[r] = servedBy[r]
      <4>1. pc[r] = "new" /\ UNCHANGED <<tried, servedBy>>
        BY <2>1 DEF Plan, call
      <4>2. pc'[r] \in {"acquire", "budget"}
        BY <2>1 DEF Plan, TypeOK
      <4> QED
        BY <4>1, <4>2
    <3>2. servedBy[r] = Nobody
      BY <3>1 DEF RequestInv, Untouched
    <3> QED
      BY <3>1, <3>2 DEF Ordered
  <2>2. CASE AcquireSlot(r) \/ PassBudget(r)
    <3>1. /\ pc[r] \in {"acquire", "budget"} /\ UNCHANGED <<tried, servedBy, route, skipLocal, fallbacks>>
          /\ pc'[r] \in {"cascade", "buffered", "fusion", "failover", "frontier"}
      <4>1. CASE AcquireSlot(r)
        BY <4>1 DEF AcquireSlot, Goto, TypeOK, call, plan, shared
      <4>2. CASE PassBudget(r)
        BY <4>2 DEF PassBudget, Goto, TypeOK, call, plan, shared
      <4> QED
        BY <2>2, <4>1, <4>2
    <3>2. servedBy[r] = Nobody /\ tried[r] = <<>>
      BY <3>1 DEF RequestInv, Untouched, Ordered
    <3>3. Len(Order(r)) \in Nat /\ Order(r)' = Order(r)
      BY <3>1, StepsOrdered DEF Order
    <3> QED
      BY <3>1, <3>2, <3>3 DEF Ordered
  <2>3. CASE RunCascade(r) \/ RunFailover(r)
    <3>1. /\ pc[r] \in {"cascade", "failover"} /\ UNCHANGED <<shared, plan>>
      BY <2>3 DEF RunCascade, RunFailover
    <3>2. servedBy[r] = Nobody
      BY <3>1 DEF RequestInv, Untouched
    <3>3. CASE Finish(r, "failed", 0, {}) /\ UNCHANGED call
      <4>1. pc'[r] = "returned" /\ servedBy'[r] = Nobody
        BY <3>2, <3>3 DEF Finish, call, TypeOK
      <4> QED
        BY <4>1 DEF Ordered
    <3>4. ASSUME NEW buffered \in BOOLEAN, RunStep(r, buffered), buffered => ~Cascaded(r)
          PROVE  Ordered(r)'
      <4>1. /\ Concluded(r) \/ UNCHANGED <<pc, servedBy, answer>>
            /\ Len(tried[r]) + 1 <= Len(Steps(r))
            /\ tried' = [tried EXCEPT ![r] = Append(@, Steps(r)[Len(tried[r]) + 1])]
            /\ \E name \in {Nobody, Steps(r)[Len(tried[r]) + 1]} :
                 servedBy' = [servedBy EXCEPT ![r] = name]
        BY <3>2, <3>4, StepConcludes
      <4>2. pc'[r] \in {pc[r], "returned"}
        BY <4>1 DEF Concluded, Finish, TypeOK
      <4> QED
        BY <3>1, <3>2, <4>1, <4>2, TurnOrdered
    <3> QED
      BY <2>3, <3>3, <3>4 DEF RunCascade, RunFailover, Cascaded
  <2>4. CASE FetchBuffered(r) \/ FetchFrontier(r) \/ RunPanel(r)
    <3>1. /\ pc[r] \in {"buffered", "frontier", "fusion"} /\ UNCHANGED servedBy
      BY <2>4 DEF FetchBuffered, FetchFrontier, RunPanel, call
    <3>2. servedBy'[r] = Nobody
      BY <3>1 DEF RequestInv, Untouched
    <3>3. pc'[r] = "returned"
      <4>1. Called(r)
        BY <2>4, <3>1, <3>2, ExchangeCalls DEF Exchange, RequestInv
      <4>2. pc' # pc
        BY <2>4, <3>1 DEF FetchBuffered, FetchFrontier, RunPanel, BufferedExchange, StreamExchange,
                          Deliver, Finish, TypeOK
      <4> QED
        BY <4>1, <4>2 DEF Called, Concluded, Finish, TypeOK
    <3> QED
      BY <3>2, <3>3 DEF Ordered
  <2>5. CASE \/ AcquireFails(r) \/ RejectBudget(r) \/ Leave(r) \/ ReturnLocal(r)
             \/ ReturnFrontier(r) \/ Charge(r) \/ RecordAndRelease(r)
    <3> USE DEF Goto, TypeOK, call, plan, shared
    <3>1. /\ UNCHANGED <<tried, servedBy, route, skipLocal, fallbacks>>
      BY <2>5 DEF AcquireFails, RejectBudget, Leave, ReturnLocal, ReturnFrontier, Charge, RecordAndRelease
    <3>2. pc'[r] = pc[r] \/ pc'[r] \in {"tail", "charge", "done"}
      <4>1. CASE AcquireFails(r) \/ RejectBudget(r)
        BY <4>1 DEF AcquireFails, RejectBudget
      <4>2. CASE Leave(r)
        BY <4>2 DEF Leave
      <4>3. CASE ReturnLocal(r) \/ ReturnFrontier(r)
        BY <4>3 DEF ReturnLocal, ReturnFrontier
      <4>4. CASE Charge(r) \/ RecordAndRelease(r)
        BY <4>4 DEF Charge, RecordAndRelease
      <4> QED
        BY <2>5, <4>1, <4>2, <4>3, <4>4
    <3>3. Order(r)' = Order(r)
      BY <3>1 DEF Order
    <3> QED
      BY <3>1, <3>2, <3>3 DEF Ordered
  <2> QED
    BY <1>1, <2>1, <2>2, <2>3, <2>4, <2>5 DEF Serve
<1>2. ASSUME NEW r \in Requests, Plan(r) \/ Serve(r) \/ Leave(r) PROVE \A q \in Requests : Ordered(q)'
  <2>1. \A q \in Requests \ {r} : Same(q)
    BY <1>2, RequestStep
  <2>2. \A q \in Requests \ {r} : Ordered(q)'
    BY <2>1, SameOrdered
  <2> QED
    BY <1>1, <1>2, <2>2
<1>3. CASE CooldownEnds \/ PollerVerdict \/ UNCHANGED vars
  BY <1>3, OthersStep, SameOrdered
<1> QED
  BY <1>2, <1>3 DEF Next

\* The invariants give the property of the run.
LEMMA AnswersFollow ==
  ASSUME DispatchInv, \A q \in Requests : Ordered(q)
  PROVE  AnswersHonest
<1>1. StreamAnswerHonest
  BY DEF StreamAnswerHonest, DispatchInv, RequestInv, Ended, Watched, Served, Refused
<1>2. OneEnvelope
  BY DEF OneEnvelope, DispatchInv, RequestInv, Ended
<1>3. CascadeInOrder
  <2> SUFFICES ASSUME NEW r \in Requests
               PROVE  /\ pc[r] \in {"cascade", "failover"} \/ servedBy[r] # Nobody =>
                           IsPrefix(tried[r], Order(r))
                      /\ servedBy[r] # Nobody => servedBy[r] = Last(tried[r])
    BY DEF CascadeInOrder, Order
  <2>1. ASSUME Len(tried[r]) <= Len(Order(r)), \A i \in 1..Len(tried[r]) : tried[r][i] = Order(r)[i]
        PROVE  IsPrefix(tried[r], Order(r))
    <3> DEFINE t == tried[r]
               o == Order(r)
    <3>1. t \in Seq(Providers \cup {"local", "frontier"}) /\ o \in Seq(StepNames)
      BY StepsOrdered DEF DispatchInv, TypeOK
    <3>2. Len(t) <= Len(o) /\ \A i \in 1..Len(t) : t[i] = o[i]
      BY <2>1
    <3> HIDE DEF t, o
    <3>3. SubSeq(t, 1, Len(t)) = SubSeq(o, 1, Len(t))
      BY <3>1, <3>2
    <3> QED
      BY <3>2, <3>3 DEF IsPrefix, t, o
  <2> QED
    BY <2>1 DEF Ordered, Last
<1> QED
  BY <1>1, <1>2, <1>3 DEF AnswersHonest

\* A client that stays gets one whole answer or one error envelope, whichever
\* steps failed before and in whatever order the requests interleave, and the
\* server named is the last one contacted (upstream/cascade.go:180-326).
THEOREM DispatchAnswersHonest == Spec => []AnswersHonest
<1>1. Init => \A q \in Requests : Ordered(q)
  BY DEF Init, Ordered
<1>2. DispatchInv /\ (\A q \in Requests : Ordered(q)) /\ [Next]_vars => (\A q \in Requests : Ordered(q))'
  BY OrderedStep
<1>3. DispatchInv /\ (\A q \in Requests : Ordered(q)) => AnswersHonest
  BY AnswersFollow
<1> QED
  BY <1>1, <1>2, <1>3, DispatchStarts, DispatchStep, PTL DEF Spec

-----------------------------------------------------------------------------
\* The requests the frontier has answered and the guard was charged for.
Paid(r) == /\ route[r] \in {"frontier", "fusion"}
           /\ result[r] = "ok"
           /\ pc[r] \in {"tail", "done"}

PaidFor == {r \in Requests : Paid(r)}

\* A request becomes paid for when it is charged, and stays so.
LEMMA PaidStep ==
  ASSUME DispatchInv, NEW r \in Requests, Plan(r) \/ Serve(r) \/ Leave(r)
  PROVE  \/ UNCHANGED spent /\ Paid(r)' = Paid(r)
         \/ spent' = (IF Limit > 0 THEN spent + 1 ELSE spent) /\ ~Paid(r) /\ Paid(r)'
<1> USE DEF Goto, DispatchInv, TypeOK, call, plan, shared, answer
<1>1. CASE Charge(r)
  <2>1. /\ pc[r] = "charge" /\ pc'[r] = "tail" /\ UNCHANGED <<route, result>>
        /\ spent' = IF Limit > 0 THEN spent + 1 ELSE spent
    BY <1>1 DEF Charge
  <2>2. route[r] \in {"frontier", "fusion"} /\ result[r] = "ok"
    BY <2>1 DEF RequestInv, Charging
  <2> QED
    BY <2>1, <2>2 DEF Paid
<1>2. CASE Plan(r) \/ AcquireSlot(r) \/ PassBudget(r)
  <2>1. UNCHANGED spent
    BY <1>2 DEF Plan, AcquireSlot, PassBudget
  <2>2. pc[r] \in {"new", "acquire", "budget"}
    BY <1>2 DEF Plan, AcquireSlot, PassBudget
  <2>3. pc'[r] \in {"acquire", "budget", "cascade", "buffered", "fusion", "failover", "frontier"}
    <3>1. CASE Plan(r)
      BY <3>1 DEF Plan
    <3>2. CASE AcquireSlot(r)
      BY <3>2 DEF AcquireSlot
    <3>3. CASE PassBudget(r)
      BY <3>3 DEF PassBudget
    <3> QED
      BY <1>2, <3>1, <3>2, <3>3
  <2> QED
    BY <2>1, <2>2, <2>3 DEF Paid
<1>3. CASE AcquireFails(r)
  <2>1. UNCHANGED <<spent, route>> /\ pc[r] = "acquire"
    BY <1>3 DEF AcquireFails
  <2>2. route'[r] = "local"
    BY <2>1 DEF RequestInv, OnRoute
  <2> QED
    BY <2>1, <2>2 DEF Paid
<1>4. CASE RejectBudget(r)
  <2>1. UNCHANGED <<spent, result>> /\ pc[r] = "budget"
    BY <1>4 DEF RejectBudget
  <2>2. result'[r] = "none"
    BY <2>1 DEF RequestInv, Untouched
  <2> QED
    BY <2>1, <2>2 DEF Paid
<1>5. CASE Exchange(r)
  <2>1. pc[r] \in {"cascade", "buffered", "frontier", "failover", "fusion"}
    BY <1>5 DEF Exchange, RunCascade, FetchBuffered, FetchFrontier, RunFailover, RunPanel
  <2>2. Called(r)
    BY <1>5, <2>1, ExchangeCalls DEF RequestInv, Untouched
  <2>3. UNCHANGED spent /\ (pc'[r] = pc[r] \/ pc'[r] = "returned")
    BY <2>2 DEF Called, Concluded, Finish
  <2> QED
    BY <2>1, <2>3 DEF Paid
<1>6. CASE ReturnLocal(r)
  <2>1. UNCHANGED <<spent, route>> /\ route[r] = "local"
    BY <1>6 DEF ReturnLocal
  <2> QED
    BY <2>1 DEF Paid
<1>7. CASE ReturnFrontier(r)
  <2>1. /\ UNCHANGED <<spent, route, result>> /\ pc[r] = "returned"
        /\ pc'[r] = (IF result[r] = "ok" THEN "charge" ELSE "tail")
    BY <1>7 DEF ReturnFrontier
  <2> QED
    BY <2>1 DEF Paid
<1>8. CASE RecordAndRelease(r)
  <2>1. UNCHANGED <<spent, route, result>> /\ pc[r] = "tail" /\ pc'[r] = "done"
    BY <1>8 DEF RecordAndRelease
  <2> QED
    BY <2>1 DEF Paid
<1>9. CASE Leave(r)
  <2>1. UNCHANGED <<spent, route, result, pc>>
    BY <1>9 DEF Leave
  <2> QED
    BY <2>1 DEF Paid
<1> QED
  BY <1>1, <1>2, <1>3, <1>4, <1>5, <1>6, <1>7, <1>8, <1>9 DEF Serve, Exchange

\* Every step keeps the spend equal to the number of requests paid for.
LEMMA SpendStep ==
  ASSUME DispatchInv, SpendMatchesService, [Next]_vars
  PROVE  SpendMatchesService'
<1>1. SpendMatchesService = (Limit > 0 => spent = Cardinality(PaidFor))
  BY DEF SpendMatchesService, PaidFor, Paid
<1>2. SpendMatchesService' = (Limit > 0 => spent' = Cardinality(PaidFor'))
  BY DEF SpendMatchesService, PaidFor, Paid
<1>3. IsFiniteSet(PaidFor)
  BY DispatchAssumption, FS_Subset DEF PaidFor
<1>4. ASSUME NEW r \in Requests, Plan(r) \/ Serve(r) \/ Leave(r) PROVE SpendMatchesService'
  <2>1. \A q \in Requests \ {r} : Paid(q)' = Paid(q)
    BY <1>4, RequestStep DEF Same, Paid
  <2>2. CASE UNCHANGED spent /\ Paid(r)' = Paid(r)
    <3>1. PaidFor' = PaidFor
      BY <2>1, <2>2 DEF PaidFor
    <3> QED
      BY <1>1, <1>2, <2>2, <3>1
  <2>3. CASE spent' = (IF Limit > 0 THEN spent + 1 ELSE spent) /\ ~Paid(r) /\ Paid(r)'
    <3>1. PaidFor' = PaidFor \cup {r} /\ r \notin PaidFor
      BY <2>1, <2>3 DEF PaidFor
    <3>2. Cardinality(PaidFor \cup {r}) = Cardinality(PaidFor) + 1
      BY <1>3, <3>1, FS_AddElement
    <3> QED
      BY <1>1, <1>2, <2>3, <3>1, <3>2
  <2> QED
    BY <1>4, <2>2, <2>3, PaidStep
<1>5. CASE CooldownEnds \/ PollerVerdict \/ UNCHANGED vars
  <2>1. UNCHANGED spent /\ \A q \in Requests : Same(q)
    BY <1>5, OthersStep
  <2>2. PaidFor' = PaidFor
    BY <2>1 DEF Same, PaidFor, Paid
  <2> QED
    BY <1>1, <1>2, <2>1, <2>2
<1> QED
  BY <1>4, <1>5 DEF Next

\* Every state is well typed, every request the budget did not reject leaves one
\* record, and the spend guard was charged once for each request the frontier
\* answered and for no other (handlers/chat.go:2279-2665).
THEOREM DispatchBooksAgree == Spec => []BooksAgree
<1>1. Init => SpendMatchesService
  <2> SUFFICES ASSUME Init PROVE SpendMatchesService
    OBVIOUS
  <2>1. {r \in Requests : /\ route[r] \in {"frontier", "fusion"}
                          /\ result[r] = "ok"
                          /\ pc[r] \in {"tail", "done"}} = {}
    BY DEF Init
  <2> QED
    BY <2>1, FS_EmptySet DEF SpendMatchesService, Init
<1>2. DispatchInv /\ SpendMatchesService /\ [Next]_vars => SpendMatchesService'
  BY SpendStep
<1>3. DispatchInv => TypeOK /\ RecordedOnce
  BY DEF DispatchInv, RecordedOnce, RequestInv, Ended
<1> QED
  BY <1>1, <1>2, <1>3, DispatchStarts, DispatchStep, PTL DEF Spec, BooksAgree
=============================================================================
