----------------------------- MODULE MCLimiter -----------------------------
(* Small instances of Limiter.  A probe reading is given in bytes, with a   *)
(* slot of two bytes so that a reading may be below one slot.               *)
EXTENDS Limiter

\* In a calm behaviour no client gives up and the probe keeps to one reading.
VARIABLE calm

AnyReading == {-1, 1, 2, 4, 7}   \* unavailable, under one slot, 1, 2, 3 slots

MCInit == Init /\ calm \in BOOLEAN

MCNext == Next /\ UNCHANGED calm /\ (calm => UNCHANGED <<cancelled, free>>)

\* AcquireSpec, and in calm behaviours the upstream calls within the slots end.
MCSpec ==
  /\ MCInit /\ [][MCNext]_<<vars, calm>>
  /\ \A r \in Requests :
       /\ WF_vars(AcquireLoop(r)) /\ WF_vars(StartCallback(r)) /\ WF_vars(RunCallback(r))
       /\ WF_vars(calm /\ Release(r))

\* Signal is enough while nobody cancels and the probe is steady: whoever asks is served
\* (concurrencylimit/limiter.go:191-240).
CalmServed == calm => EveryoneServed
=============================================================================
