----------------------------- MODULE BufferPool -----------------------------
(***************************************************************************)
(* The pool of reply buffers (src/internal/ioutils/limited.go) and the     *)
(* buffered cascade that uses it (RunBuffered and doFetchCascadeStep of    *)
(* src/internal/upstream/cascade.go).  A reply is read into a pooled       *)
(* buffer, the buffer goes back when the exchange returns, and only then   *)
(* is the reply, a slice of that buffer, written to the client.            *)
(***************************************************************************)
EXTENDS FiniteSets

CONSTANTS
  Clients,   \* requests in RunBuffered
  Buffers,   \* the buffers there may be
  Small      \* those whose capacity stays under the retention cap

VARIABLES
  at,      \* where each request stands
  pool,    \* the free buffers
  held,    \* the buffer each request has read its reply into
  bytes,   \* whose reply each buffer holds
  sent     \* whose reply each request has written to its client

poolVars == <<at, pool, held, bytes, sent>>

Nobody == "nobody"

PoolInit ==
  /\ at = [c \in Clients |-> "send"]
  /\ pool = Buffers
  /\ held = [c \in Clients |-> Nobody]
  /\ bytes = [b \in Buffers |-> Nobody]
  /\ sent = [c \in Clients |-> Nobody]

\* ReadAllLimitedPooled: GetBuffer, and the reply into it.
ReadReply(c) ==
  /\ at[c] = "send" /\ at' = [at EXCEPT ![c] = "read"]
  /\ \E b \in pool :
       /\ pool' = pool \ {b}
       /\ held' = [held EXCEPT ![c] = b]
       /\ bytes' = [bytes EXCEPT ![b] = c]
  /\ UNCHANGED sent

\* The deferred PutBuffer when doFetchCascadeStep returns; a failed step goes to
\* the next one.
PutBuffer(c) ==
  /\ at[c] = "read"
  /\ pool' = IF held[c] \in Small THEN pool \cup {held[c]} ELSE pool
  /\ \E next \in {"write", "send"} : at' = [at EXCEPT ![c] = next]
  /\ UNCHANGED <<held, bytes, sent>>

\* RunBuffered: w.Write(rawBody).
WriteReply(c) ==
  /\ at[c] = "write" /\ at' = [at EXCEPT ![c] = "done"]
  /\ sent' = [sent EXCEPT ![c] = bytes[held[c]]]
  /\ UNCHANGED <<pool, held, bytes>>

PoolNext == \E c \in Clients : ReadReply(c) \/ PutBuffer(c) \/ WriteReply(c)

PoolSpec == PoolInit /\ [][PoolNext]_poolVars

\* "the raw validated response body (used by RunBuffered to forward the upstream
\* JSON verbatim)": a client is sent the reply to its own request.
Verbatim == \A c \in Clients : sent[c] \in {Nobody, c}
=============================================================================
