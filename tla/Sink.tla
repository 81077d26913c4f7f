-------------------------------- MODULE Sink --------------------------------
(***************************************************************************)
(* What a background writer promises to whoever hands it a record: what it *)
(* accepted is settled once, in the order of acceptance, by being stored   *)
(* or lost, and when Close has returned nothing is left to settle.         *)
(***************************************************************************)
EXTENDS Naturals, Sequences, FiniteSets

CONSTANT Records

VARIABLES
  accepted,   \* the records taken from the callers, in order
  settled,    \* how many of them have been dealt with
  stored,     \* the records that reached the medium, in order
  shut        \* has Close returned?

sinkVars == <<accepted, settled, stored, shut>>

SinkInit == accepted = <<>> /\ settled = 0 /\ stored = <<>> /\ shut = FALSE

\* A record is accepted at most once, and never after Close has returned.
Accept ==
  /\ ~shut
  /\ \E r \in Records :
       /\ \A i \in 1..Len(accepted) : accepted[i] # r
       /\ accepted' = Append(accepted, r)
  /\ UNCHANGED <<settled, stored, shut>>

\* The next n records are settled: those at the places of S are stored.
Settle ==
  /\ \E n \in settled + 1 .. Len(accepted) :
       /\ settled' = n
       /\ \E S \in SUBSET (settled + 1 .. n) :
            stored' = stored \o [i \in 1..Cardinality(S) |->
              accepted[CHOOSE k \in S : Cardinality({j \in S : j <= k}) = i]]
  /\ UNCHANGED <<accepted, shut>>

Shut ==
  /\ settled = Len(accepted) /\ shut' = TRUE
  /\ UNCHANGED <<accepted, settled, stored>>

SinkNext == Accept \/ Settle \/ Shut

SinkSpec == SinkInit /\ [][SinkNext]_sinkVars
=============================================================================
