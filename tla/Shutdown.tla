------------------------------ MODULE Shutdown ------------------------------
(***************************************************************************)
(* The life of the process (src/cmd/nexus/main.go, server.go): requests    *)
(* that are answered and then leave their records behind, the judge and    *)
(* quality worker pools that score them, the signal goroutine that drains  *)
(* and shuts the server down, and the main goroutine whose deferred        *)
(* cleanup closes everything else in reverse order of construction.  The   *)
(* three run side by side: ListenAndServe returns as soon as Shutdown has  *)
(* been called.  The writers behind the records are modelled in Writers.   *)
(***************************************************************************)
EXTENDS Integers, Sequences, FiniteSets

CONSTANTS
  Requests,
  QueueDepth,   \* NEXUS_JUDGE_QUEUE_DEPTH, NEXUS_QUALITY_QUEUE_DEPTH
  Workers       \* the goroutines of each pool

Pools == {"judge", "quality"}

VARIABLES
  req,         \* where each request stands
  panicked,    \* requests whose goroutine panicked (Recover answers for them)
  queue,       \* the channel of each pool
  poolClosed,  \* is it closed?
  taken,       \* what each worker of each pool has in hand, "none" or a request
  submitted,   \* what each pool accepted
  judged,      \* what each pool has finished
  cats,        \* confidenceBridge.cats: categories noted for requests
  learned,     \* requests whose score reached the confidence store
  open,        \* the stores and writers that are not closed yet
  kept,        \* the requests each of them has a record of
  signal,      \* the signal goroutine
  serving,     \* has Shutdown been called?
  todo         \* the cleanups main has still to run; "exited" after the last

vars == <<req, panicked, queue, poolClosed, taken, submitted, judged, cats, learned,
          open, kept, signal, serving, todo>>
poolVars == <<queue, poolClosed, taken, submitted, judged, cats, learned>>

Sinks == {"metrics", "recorder", "audit", "exporter"}

\* The cleanups in the order they run: last registered, first closed.
Cleanups == <<"audit", "quality", "metrics", "recorder", "confidence", "exporter">>

\* What a request goroutine does after its answer, in this order.
After == <<"judge", "quality", "metrics", "recorder", "audit", "exporter">>

\* The stations of a request: away, being served, the places of After, done.
Away == -1
InService == 0
Done == Len(After) + 1

Init ==
  /\ req = [r \in Requests |-> Away] /\ panicked = {}
  /\ queue = [p \in Pools |-> <<>>] /\ poolClosed = {}
  /\ taken = [p \in Pools |-> [w \in Workers |-> "none"]]
  /\ submitted = [p \in Pools |-> {}] /\ judged = [p \in Pools |-> {}]
  /\ cats = {} /\ learned = {}
  /\ open = Sinks \cup {"confidence", "scores"} /\ kept = [s \in Sinks |-> {}]
  /\ signal = "waiting" /\ serving = TRUE /\ todo = <<"listen">> \o Cleanups

Alive == todo # <<>>


\* A connection is accepted while the server listens; it is answered later.
Arrive(r) ==
  /\ Alive /\ serving /\ req[r] = Away /\ req' = [req EXCEPT ![r] = InService]
  /\ UNCHANGED <<panicked, poolVars, open, kept, signal, serving, todo>>

Answer(r) ==
  /\ Alive /\ req[r] = InService /\ req' = [req EXCEPT ![r] = 1]
  /\ UNCHANGED <<panicked, poolVars, open, kept, signal, serving, todo>>

\* Evaluator.Enqueue and ShellVerifier.Submit.  The channel they ask whether the
\* pool is closed is closed only for a pool that never started, so after Close the
\* send itself panics.  A full queue drops the sample and forgets its category.
Enqueue(r, p) ==
  IF p \in poolClosed
  THEN /\ panicked' = panicked \cup {r}
       /\ cats' = IF p = "judge" THEN cats \cup {r} ELSE cats
       /\ UNCHANGED <<queue, submitted>>
  ELSE IF Len(queue[p]) < QueueDepth
  THEN /\ queue' = [queue EXCEPT ![p] = Append(@, r)]
       /\ submitted' = [submitted EXCEPT ![p] = @ \cup {r}]
       /\ cats' = IF p = "judge" THEN cats \cup {r} ELSE cats
       /\ UNCHANGED panicked
  ELSE UNCHANGED <<queue, submitted, panicked, cats>>

\* Recover: a request that panicked ends here, without the rest of its tail.
Recover(r) == req' = [req EXCEPT ![r] = IF r \in panicked' THEN Done ELSE @ + 1]

\* The judge or quality observer: not sampled, or submitted.
Score(r) ==
  /\ Alive /\ req[r] \in 1..Len(After) /\ After[req[r]] \in Pools
  /\ \/ UNCHANGED <<queue, submitted, cats, panicked>>
     \/ Enqueue(r, After[req[r]])
  /\ Recover(r)
  /\ UNCHANGED <<poolClosed, taken, judged, learned, open, kept, signal, serving, todo>>

\* One of the writers: a closed one refuses.
Leave(r) ==
  /\ Alive /\ req[r] \in 1..Len(After) /\ After[req[r]] \in Sinks
  /\ kept' = IF After[req[r]] \in open
             THEN [kept EXCEPT ![After[req[r]]] = @ \cup {r}] ELSE kept
  /\ req' = [req EXCEPT ![r] = @ + 1]
  /\ UNCHANGED <<panicked, poolVars, open, signal, serving, todo>>
-----------------------------------------------------------------------------
Take(p, w) ==
  /\ Alive /\ taken[p][w] = "none" /\ queue[p] # <<>>
  /\ taken' = [taken EXCEPT ![p][w] = Head(queue[p])]
  /\ queue' = [queue EXCEPT ![p] = Tail(@)]
  /\ UNCHANGED <<req, panicked, poolClosed, submitted, judged, cats, learned, open, kept, signal, serving, todo>>

\* Evaluator.worker: the score, good or not, goes through confidenceBridge.Record,
\* which takes the category out of the map and tells the confidence store.
Judge(w) ==
  LET r == taken["judge"][w] IN
  /\ Alive /\ r # "none"
  /\ taken' = [taken EXCEPT !["judge"][w] = "none"]
  /\ judged' = [judged EXCEPT !["judge"] = @ \cup {r}]
  /\ cats' = cats \ {r}
  /\ \/ learned' = IF r \in cats /\ "confidence" \in open THEN learned \cup {r} ELSE learned
     \/ UNCHANGED learned
  /\ UNCHANGED <<req, panicked, queue, poolClosed, submitted, open, kept, signal, serving, todo>>

\* ShellVerifier.worker: run the check, hand the verdict to the observer.
Verify(w) ==
  LET r == taken["quality"][w] IN
  /\ Alive /\ r # "none"
  /\ taken' = [taken EXCEPT !["quality"][w] = "none"]
  /\ judged' = [judged EXCEPT !["quality"] = @ \cup {r}]
  /\ UNCHANGED <<req, panicked, queue, poolClosed, submitted, cats, learned, open, kept, signal, serving, todo>>

Idle(p) == queue[p] = <<>> /\ \A w \in Workers : taken[p][w] = "none"
-----------------------------------------------------------------------------
Signal ==
  /\ Alive /\ signal = "waiting" /\ signal' = "draining"
  /\ poolClosed' = poolClosed \cup {"judge"}
  /\ UNCHANGED <<req, panicked, queue, taken, submitted, judged, cats, learned, open, kept, serving, todo>>

\* The queue is closed and nobody waits for the workers.
BugDrain ==
  /\ Alive /\ signal = "draining"
  /\ open' = open \ {"scores", "exporter"} /\ signal' = "shutdown" /\ serving' = FALSE
  /\ UNCHANGED <<req, panicked, poolVars, kept, todo>>

\* drainComponents: the judge has drained; its storage and the exporter are closed
\* and Shutdown is called.
Drain ==
  /\ Alive /\ signal = "draining" /\ Idle("judge")
  /\ open' = open \ {"scores", "exporter"} /\ signal' = "shutdown" /\ serving' = FALSE
  /\ UNCHANGED <<req, panicked, poolVars, kept, todo>>

\* Shutdown returns when the requests are through, or at its deadline.
ShutdownReturns ==
  /\ Alive /\ signal = "shutdown" /\ signal' = "done"
  /\ UNCHANGED <<req, panicked, poolVars, open, kept, serving, todo>>

\* main waits for the requests in flight.
BugListenReturns ==
  /\ Alive /\ Head(todo) = "listen" /\ ~serving /\ todo' = Tail(todo)
  /\ \A r \in Requests : req[r] \in {Away, Done}
  /\ UNCHANGED <<req, panicked, poolVars, open, kept, signal, serving>>

\* main: ListenAndServe returns once Shutdown has been called, and the deferred
\* cleanup begins; it does not wait for the signal goroutine.
ListenReturns ==
  /\ Alive /\ Head(todo) = "listen" /\ ~serving /\ todo' = Tail(todo)
  /\ UNCHANGED <<req, panicked, poolVars, open, kept, signal, serving>>

\* A cleanup: the quality pool is closed and drained, anything else just closed.
CloseQuality ==
  /\ Alive /\ Head(todo) = "quality"
  /\ IF "quality" \in poolClosed /\ Idle("quality")
     THEN todo' = Tail(todo) /\ UNCHANGED poolClosed
     ELSE /\ "quality" \notin poolClosed
          /\ poolClosed' = poolClosed \cup {"quality"} /\ UNCHANGED todo
  /\ UNCHANGED <<req, panicked, queue, taken, submitted, judged, cats, learned, open, kept, signal, serving>>

Cleanup ==
  /\ Alive /\ Head(todo) \in Sinks \cup {"confidence"}
  /\ open' = open \ {Head(todo)} /\ todo' = Tail(todo)
  /\ UNCHANGED <<req, panicked, poolVars, kept, signal, serving>>

Work == \E p \in Pools, w \in Workers : Take(p, w) \/ Judge(w) \/ Verify(w)

Ending == Drain \/ ShutdownReturns \/ ListenReturns \/ CloseQuality \/ Cleanup

Next ==
  \/ \E r \in Requests : Arrive(r) \/ Answer(r) \/ Score(r) \/ Leave(r)
  \/ Work \/ Signal \/ Ending

Spec == Init /\ [][Next]_vars

\* Workers and goroutines run; nothing is assumed of the requests in flight, whose
\* upstreams may take for ever.
FairSpec == Spec /\ WF_vars(Work) /\ WF_vars(Ending)
-----------------------------------------------------------------------------
TypeOK ==
  /\ req \in [Requests -> Away..Done]
  /\ panicked \subseteq Requests /\ poolClosed \subseteq Pools
  /\ \A p \in Pools : queue[p] \in Seq(Requests) /\ Len(queue[p]) <= QueueDepth
  /\ cats \subseteq Requests /\ learned \subseteq judged["judge"]
  /\ open \subseteq Sinks \cup {"confidence", "scores"}
  /\ signal \in {"waiting", "draining", "shutdown", "done"} /\ serving \in BOOLEAN

\* "Drain the judge queue so we don't lose pending JudgeScore records": once the
\* confidence store or the judge's storage is closed no sample is waiting for it
\* or in a worker's hands, though they are closed by two different goroutines.
ScoresBeforeStores ==
  ~({"confidence", "scores"} \subseteq open) => Idle("judge")

\* A sample accepted by either pool has been scored when the process exits.
NothingUnscored ==
  ~Alive => \A p \in Pools : submitted[p] \subseteq judged[p]

InQueue(r) == \E i \in 1..Len(queue["judge"]) : queue["judge"][i] = r

\* "So the map does not leak when an enqueue is rejected": the bridge remembers
\* categories only of samples on their way, and of requests that panicked.
CategoriesOnTheirWay ==
  \A r \in cats \ panicked :
    InQueue(r) \/ \E w \in Workers : taken["judge"][w] = r

\* "One record per proxied request": a request that ran to its end is in every
\* writer that was still open; only a panic in a pool that is already closed costs
\* it the records that come after.
RecordsComplete ==
  \A r \in Requests, s \in Sinks :
    req[r] = Done /\ r \notin kept[s] => s \notin open \/ (r \in panicked /\ poolClosed # {})

\* A signal ends the process, whatever the requests in flight do.
SignalEnds == (signal = "draining") ~> (todo = <<>>)

\* "Stop accepting new connections, drain in-flight requests, then drain the judge
\* queue": the judge queue is closed when no request can use it any more.
\* The code does not keep this: drainComponents runs before srv.Shutdown.
RequestsDrainedFirst ==
  "judge" \in poolClosed => \A r \in Requests : req[r] \in {Away, Done}
=============================================================================
