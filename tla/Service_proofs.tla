--------------------------- MODULE Service_proofs ---------------------------
(***************************************************************************)
(* Proofs about what keeps the proxy's records and how it ends: the audit   *)
(* log, for any payloads and any number of entries, crashes and failed      *)
(* writes; the process, from its first request to its exit; and the         *)
(* background writers, for any records, limits and failures.                *)
(***************************************************************************)
EXTENDS MCService, FiniteSetTheorems, SequenceTheorems, WellFoundedInduction, TLAPS

Hashes == Seq(Payloads)
LogLines == [payload : Payloads, prev : Hashes, hash : Hashes]

\* The hash a line must name as its predecessor's.
Before(f, i) == IF i = 1 THEN Audit!GenesisHash ELSE f[i - 1].hash

\* Line i vouches for the one before it.
Vouches(f, i) ==
  f[i].prev = Before(f, i) /\ f[i].hash = Append(Before(f, i), f[i].payload)

\* A log verifies when each of its lines vouches for the one before it.
LEMMA VerifyMeans ==
  ASSUME NEW f
  PROVE  Audit!Verify(f) <=> \A i \in 1..Len(f) : Vouches(f, i)
BY DEF Audit!Verify, Vouches, Before, Audit!computeHash

\* A hash is not the hash it was made from.
LEMMA HashGrows ==
  ASSUME NEW h \in Hashes, NEW p \in Payloads, NEW q \in Payloads
  PROVE  /\ Append(h, p) \in Hashes /\ Append(h, p) # h
         /\ p # q => Append(h, p) # Append(h, q)
<1>1. Append(h, p) \in Hashes /\ Len(Append(h, p)) = Len(h) + 1 /\ Len(h) \in Nat
  BY DEF Hashes
<1>2. Append(h, p)[Len(h) + 1] = p /\ Append(h, q)[Len(h) + 1] = q
  BY DEF Hashes
<1> QED
  BY <1>1, <1>2

\* What is left of a log that verifies when its end is cut off verifies.
LEMMA VerifyPrefix ==
  ASSUME NEW f \in Seq(LogLines), NEW n \in 0..Len(f), Audit!Verify(f)
  PROVE  Audit!Verify(SubSeq(f, 1, n))
<1> DEFINE g == SubSeq(f, 1, n)
<1>1. Len(g) = n /\ \A i \in 1..n : g[i] = f[i]
  OBVIOUS
<1>2. ASSUME NEW i \in 1..n PROVE Vouches(g, i)
  <2>1. Vouches(f, i) /\ g[i] = f[i]
    BY <1>1, VerifyMeans
  <2>2. Before(g, i) = Before(f, i)
    BY <1>1 DEF Before
  <2> HIDE DEF g
  <2> QED
    BY <2>1, <2>2 DEF Vouches
<1> HIDE DEF g
<1>3. Audit!Verify(g)
  BY <1>1, <1>2, VerifyMeans
<1> QED
  BY <1>3 DEF g

\* A line that names the hash of the last one keeps the log verifiable.
LEMMA VerifyAppend ==
  ASSUME NEW f \in Seq(LogLines), NEW p \in Payloads, Audit!Verify(f)
  PROVE  Audit!Verify(Append(f, Audit!Entry(Audit!lastHash(f), p)))
<1> DEFINE e == Audit!Entry(Audit!lastHash(f), p)
           g == Append(f, e)
           n == Len(f)
<1>1. n \in Nat /\ Len(g) = n + 1 /\ g[n + 1] = e /\ \A i \in 1..n : g[i] = f[i]
  OBVIOUS
<1>2. ASSUME NEW i \in 1..n PROVE Vouches(g, i)
  <2>1. Vouches(f, i) /\ g[i] = f[i]
    BY <1>1, VerifyMeans
  <2>2. Before(g, i) = Before(f, i)
    BY <1>1 DEF Before
  <2> HIDE DEF g, n
  <2> QED
    BY <2>1, <2>2 DEF Vouches
<1>3. Vouches(g, n + 1)
  <2>1. Before(g, n + 1) = Audit!lastHash(f)
    <3>1. CASE n = 0
      BY <3>1 DEF Before, Audit!lastHash
    <3>2. CASE n # 0
      <4>1. g[n] = f[n] /\ f # <<>>
        BY <1>1, <3>2
      <4> HIDE DEF g
      <4> QED
        BY <1>1, <3>2, <4>1 DEF Before, Audit!lastHash
    <3> QED
      BY <3>1, <3>2
  <2>2. g[n + 1].prev = Audit!lastHash(f) /\ g[n + 1].payload = p
        /\ g[n + 1].hash = Append(Audit!lastHash(f), p)
    BY <1>1 DEF Audit!Entry, Audit!computeHash
  <2> HIDE DEF g, n
  <2> QED
    BY <2>1, <2>2 DEF Vouches
<1> HIDE DEF g, n
<1>4. \A i \in 1..Len(g) : Vouches(g, i)
  BY <1>1, <1>2, <1>3
<1>5. Audit!Verify(g)
  BY <1>4, VerifyMeans
<1> QED
  BY <1>5 DEF g

\* A log that verifies does not verify without one of its lines but the last.
LEMMA RemovalFound ==
  ASSUME NEW f \in Seq(LogLines), Audit!Verify(f), NEW i \in 1..Len(f) - 1
  PROVE  ~Audit!Verify(Audit!Without(f, i))
<1> DEFINE a == SubSeq(f, 1, i - 1)
           b == SubSeq(f, i + 1, Len(f))
           g == a \o b
<1>1. /\ a \in Seq(LogLines) /\ Len(a) = i - 1 /\ \A j \in 1..i - 1 : a[j] = f[j]
      /\ b \in Seq(LogLines) /\ Len(b) = Len(f) - i /\ b[1] = f[i + 1]
  OBVIOUS
<1> HIDE DEF a, b
<1>2. /\ Len(g) = Len(f) - 1 /\ g[i] = f[i + 1] /\ (i # 1 => g[i - 1] = f[i - 1])
  <2>1. Len(g) = Len(a) + Len(b) /\ \A j \in 1..Len(a) + Len(b) : g[j] = IF j <= Len(a) THEN a[j] ELSE b[j - Len(a)]
    BY <1>1, ConcatProperties
  <2>2. Len(f) \in Nat /\ i \in 1..Len(f) - 1
    OBVIOUS
  <2> HIDE DEF g
  <2>3. Len(g) = Len(f) - 1 /\ i \in 1..Len(g) /\ (i # 1 => i - 1 \in 1..Len(g) /\ i - 1 \in 1..i - 1)
    BY <1>1, <2>1, <2>2
  <2>4. g[i] = b[1]
    BY <1>1, <2>1, <2>2, <2>3
  <2>5. i # 1 => g[i - 1] = a[i - 1]
    BY <1>1, <2>1, <2>2, <2>3
  <2> QED
    BY <1>1, <2>3, <2>4, <2>5
<1>3. Vouches(f, i) /\ Vouches(f, i + 1)
  BY VerifyMeans
<1>4. Before(g, i) = Before(f, i)
  BY <1>2 DEF Before
<1>5. Before(f, i) \in Hashes /\ f[i].payload \in Payloads
  <2>1. f[i] \in LogLines /\ (i # 1 => f[i - 1] \in LogLines)
    OBVIOUS
  <2> QED
    BY <2>1 DEF Before, LogLines, Hashes, Audit!GenesisHash
<1>6. f[i + 1].prev = Append(Before(f, i), f[i].payload)
  BY <1>3 DEF Vouches, Before
<1>7. ~Vouches(g, i)
  <2>1. Before(g, i) # g[i].prev
    BY <1>2, <1>4, <1>5, <1>6, HashGrows
  <2> QED
    BY <2>1 DEF Vouches
<1>8. Audit!Without(f, i) = g
  BY DEF Audit!Without, a, b
<1> HIDE DEF g
<1>9. ~Audit!Verify(g)
  BY <1>2, <1>7, VerifyMeans
<1> QED
  BY <1>8, <1>9

\* Nor when the payload of a line is another one.
LEMMA ChangeFound ==
  ASSUME NEW f \in Seq(LogLines), Audit!Verify(f), NEW i \in 1..Len(f), NEW p \in Payloads,
         p # f[i].payload
  PROVE  ~Audit!Verify([f EXCEPT ![i].payload = p])
<1> DEFINE g == [f EXCEPT ![i].payload = p]
<1>1. /\ f[i] \in LogLines /\ (i # 1 => f[i - 1] \in LogLines)
  OBVIOUS
<1>2. /\ Len(g) = Len(f) /\ (i # 1 => g[i - 1] = f[i - 1])
  OBVIOUS
<1>3. g[i].payload = p /\ g[i].prev = f[i].prev /\ g[i].hash = f[i].hash
  BY <1>1 DEF LogLines
<1> HIDE DEF g
<1>4. Before(g, i) = Before(f, i)
  BY <1>2 DEF Before
<1>5. Before(f, i) \in Hashes /\ f[i].payload \in Payloads
  BY <1>1 DEF Before, LogLines, Hashes, Audit!GenesisHash
<1>6. f[i].hash = Append(Before(f, i), f[i].payload)
  BY VerifyMeans DEF Vouches
<1>7. ~Vouches(g, i)
  BY <1>3, <1>4, <1>5, <1>6, HashGrows DEF Vouches
<1>8. ~Audit!Verify(g)
  BY <1>2, <1>7, VerifyMeans
<1> QED
  BY <1>8 DEF g

-----------------------------------------------------------------------------
\* The types of the log.
AuditTypes ==
  /\ file \in Seq(LogLines) /\ tip \in Hashes /\ synced \in 0..Len(file) /\ errors \in Nat
  /\ syncMode \in {"full", "none"} /\ auditor \in {"open", "closed", "down", "unopened"}

\* As long as nothing failed the auditor goes on from the line that is last.
TipIsLast == errors = 0 => Audit!Verify(file) /\ (auditor = "open" => tip = Audit!lastHash(file))

\* With sync=full what was acknowledged is among the lines no crash can take.
AckedSynced ==
  syncMode = "full" => \A h \in acked : \E i \in 1..synced : file[i].hash = h

AuditInv == AuditTypes /\ TipIsLast /\ AckedSynced

\* A new file.
LEMMA AuditStarts == Audit!AuditInit => AuditInv
<1> SUFFICES ASSUME Audit!AuditInit PROVE AuditInv
  OBVIOUS
<1>1. /\ file = <<>> /\ tip = <<>> /\ synced = 0 /\ errors = 0 /\ acked = {} /\ auditor = "open"
      /\ syncMode \in {"full", "none"}
  BY DEF Audit!AuditInit, Audit!GenesisHash
<1>2. AuditTypes
  BY <1>1 DEF AuditTypes, Hashes
<1>3. TipIsLast
  BY <1>1 DEF TipIsLast, Audit!Verify, Audit!lastHash, Audit!GenesisHash
<1> QED
  BY <1>1, <1>2, <1>3 DEF AuditInv, AckedSynced

\* A line of the auditor is a line, and its hash the next tip.
LEMMA EntryTypes ==
  ASSUME AuditTypes, NEW p \in Payloads
  PROVE  /\ Audit!Entry(tip, p) \in LogLines /\ Audit!Entry(tip, p).hash = Append(tip, p)
         /\ Append(tip, p) \in Hashes
         /\ Append(file, Audit!Entry(tip, p)) \in Seq(LogLines)
         /\ Len(Append(file, Audit!Entry(tip, p))) = Len(file) + 1
         /\ Append(file, Audit!Entry(tip, p))[Len(file) + 1] = Audit!Entry(tip, p)
         /\ \A i \in 1..Len(file) : Append(file, Audit!Entry(tip, p))[i] = file[i]
<1>1. Append(tip, p) \in Hashes
  BY HashGrows DEF AuditTypes
<1>2. Audit!Entry(tip, p) \in LogLines /\ Audit!Entry(tip, p).hash = Append(tip, p)
  BY <1>1 DEF Audit!Entry, Audit!computeHash, LogLines, AuditTypes
<1> DEFINE e == Audit!Entry(tip, p)
<1> HIDE DEF e
<1>3. e \in LogLines /\ file \in Seq(LogLines)
  BY <1>2 DEF e, AuditTypes
<1>4. /\ Append(file, e) \in Seq(LogLines) /\ Len(Append(file, e)) = Len(file) + 1
      /\ Append(file, e)[Len(file) + 1] = e /\ \A i \in 1..Len(file) : Append(file, e)[i] = file[i]
  BY <1>3
<1> QED
  BY <1>1, <1>2, <1>4 DEF e

\* Every step of the auditor, the crash included, keeps the invariant.
LEMMA AuditStep ==
  ASSUME AuditInv, Audit!AuditNext
  PROVE  AuditInv'
<1> USE DEF AuditInv
<1>1. ASSUME NEW p \in Payloads, Audit!Record(p) PROVE AuditInv'
  <2> DEFINE e == Audit!Entry(tip, p)
  <2>1. /\ auditor = "open" /\ file' = Append(file, e) /\ tip' = Append(tip, p)
        /\ acked' = acked \cup {tip'} /\ UNCHANGED <<syncMode, auditor, errors>>
        /\ synced' = IF syncMode = "full" THEN Len(file') ELSE synced
    BY <1>1 DEF Audit!Record, Audit!computeHash
  <2>2. /\ file' \in Seq(LogLines) /\ tip' \in Hashes /\ Len(file') = Len(file) + 1
        /\ file'[Len(file')].hash = tip' /\ \A i \in 1..Len(file) : file'[i] = file[i]
    BY <2>1, EntryTypes
  <2>3. AuditTypes'
    BY <2>1, <2>2 DEF AuditTypes
  <2>4. TipIsLast'
    <3>1. Audit!lastHash(file') = tip'
      BY <2>2 DEF Audit!lastHash, AuditTypes
    <3>2. errors = 0 => Audit!Verify(file')
      BY <2>1, VerifyAppend DEF TipIsLast, AuditTypes
    <3> QED
      BY <2>1, <3>1, <3>2 DEF TipIsLast, Audit!Verify, Audit!lastHash, Audit!computeHash, Audit!GenesisHash
  <2>5. AckedSynced'
    <3> SUFFICES ASSUME syncMode = "full", NEW h \in acked' PROVE \E i \in 1..synced' : file'[i].hash = h
      BY <2>1 DEF AckedSynced
    <3>1. synced' = Len(file) + 1 /\ synced \in 0..Len(file) /\ Len(file) \in Nat
      BY <2>1, <2>2 DEF AuditTypes
    <3>2. CASE h = tip'
      BY <2>2, <3>1, <3>2
    <3>3. CASE h \in acked
      <4>1. PICK i \in 1..synced : file[i].hash = h
        BY <3>3 DEF AckedSynced
      <4>2. i \in 1..Len(file) /\ i \in 1..synced'
        BY <3>1
      <4> QED
        BY <2>2, <4>1, <4>2
    <3> QED
      BY <2>1, <3>2, <3>3
  <2> QED
    BY <2>3, <2>4, <2>5
<1>2. ASSUME NEW p \in Payloads, Audit!RecordFails(p) PROVE AuditInv'
  <2>1. /\ errors' = errors + 1 /\ UNCHANGED <<syncMode, synced, tip, auditor, acked>>
        /\ file' = file \/ file' = Append(file, Audit!Entry(tip, p))
    BY <1>2 DEF Audit!RecordFails
  <2>2. /\ file' \in Seq(LogLines) /\ Len(file') >= Len(file) /\ Len(file') \in Nat
        /\ \A i \in 1..Len(file) : file'[i] = file[i]
    BY <2>1, EntryTypes DEF AuditTypes
  <2>3. AuditTypes'
    BY <2>1, <2>2 DEF AuditTypes
  <2>4. errors' # 0
    BY <2>1 DEF AuditTypes
  <2>5. AckedSynced'
    BY <2>1, <2>2 DEF AckedSynced, AuditTypes
  <2>6. TipIsLast'
    <3> HIDE DEF AuditInv
    <3> QED
      BY <2>4 DEF TipIsLast
  <2> QED
    BY <2>3, <2>5, <2>6, Zenon
<1>3. CASE Audit!Close
  <2>1. UNCHANGED <<syncMode, file, synced, tip, acked, errors>> /\ auditor' = "closed"
    BY <1>3 DEF Audit!Close
  <2> QED
    BY <2>1 DEF AuditTypes, TipIsLast, AckedSynced, Audit!Verify, Audit!computeHash, Audit!GenesisHash
<1>4. CASE Audit!Crash
  <2>1. /\ auditor' = "down" /\ UNCHANGED <<syncMode, synced, tip, acked, errors>>
    BY <1>4 DEF Audit!Crash
  <2>2. PICK n \in synced..Len(file) : file' = SubSeq(file, 1, n)
    BY <1>4 DEF Audit!Crash
  <2>3. n \in 0..Len(file) /\ synced \in 0..n
    BY DEF AuditTypes
  <2>4. file' \in Seq(LogLines) /\ Len(file') = n /\ \A i \in 1..n : file'[i] = file[i]
    BY <2>2, <2>3 DEF AuditTypes
  <2>5. AuditTypes'
    BY <2>1, <2>3, <2>4 DEF AuditTypes
  <2>6. errors = 0 => Audit!Verify(file')
    BY <2>2, <2>3, VerifyPrefix DEF TipIsLast, AuditTypes
  <2>7. TipIsLast'
    BY <2>1, <2>6 DEF TipIsLast, Audit!Verify, Audit!computeHash, Audit!GenesisHash
  <2>8. AckedSynced'
    BY <2>1, <2>3, <2>4 DEF AckedSynced
  <2> QED
    BY <2>5, <2>7, <2>8
<1>5. CASE Audit!Open
  <2>1. UNCHANGED <<syncMode, file, acked, errors>>
    BY <1>5 DEF Audit!Open
  <2>2. \/ auditor' = "unopened" /\ UNCHANGED <<tip, synced>>
        \/ auditor' = "open" /\ tip' = Audit!lastHash(file) /\ synced' = Len(file)
    BY <1>5 DEF Audit!Open
  <2>3. Audit!lastHash(file) \in Hashes /\ Len(file) \in Nat
    <3>1. CASE file = <<>>
      BY <3>1 DEF Audit!lastHash, Audit!GenesisHash, Hashes
    <3>2. CASE file # <<>>
      <4>1. file[Len(file)] \in LogLines
        BY <3>2 DEF AuditTypes
      <4> QED
        BY <3>2, <4>1 DEF Audit!lastHash, LogLines, AuditTypes
    <3> QED
      BY <3>1, <3>2
  <2>4. AuditTypes'
    BY <2>1, <2>2, <2>3 DEF AuditTypes
  <2>5. TipIsLast'
    BY <2>1, <2>2 DEF TipIsLast, Audit!Verify, Audit!lastHash, Audit!computeHash, Audit!GenesisHash
  <2>6. AckedSynced'
    BY <2>1, <2>2, <2>3 DEF AckedSynced, AuditTypes
  <2> QED
    BY <2>4, <2>5, <2>6
<1> QED
  BY <1>1, <1>2, <1>3, <1>4, <1>5 DEF Audit!AuditNext

\* The invariant gives what the run checks.
LEMMA AuditFollows == AuditInv => AuditSound
<1> SUFFICES ASSUME AuditInv PROVE AuditSound
  OBVIOUS
<1>1. Audit!ChainVerifies
  BY DEF AuditInv, TipIsLast, Audit!ChainVerifies
<1>2. Audit!AckedDurable
  BY DEF AuditInv, AuditTypes, AckedSynced, Audit!AckedDurable
<1>3. Audit!TamperFound
  BY RemovalFound, ChangeFound DEF AuditInv, AuditTypes, Audit!TamperFound
<1> QED
  BY <1>1, <1>2, <1>3 DEF AuditSound

\* The audit log verifies across crashes and restarts, keeps under sync=full what
\* it acknowledged, and Verify notices a line removed or changed: for any payloads
\* and any number of entries, crashes and failed writes (internal/audit/audit.go).
THEOREM AuditLogSound == MCSpec => []AuditSound
<1>1. MCInit => AuditInv
  BY AuditStarts DEF MCInit
<1>2. AuditInv /\ [MCNext]_allVars => AuditInv'
  <2> SUFFICES ASSUME AuditInv, [MCNext]_allVars PROVE AuditInv'
    OBVIOUS
  <2>1. CASE Audit!AuditNext
    BY <2>1, AuditStep
  <2>2. CASE UNCHANGED auditVars
    BY <2>2 DEF auditVars, AuditInv, AuditTypes, TipIsLast, AckedSynced, Audit!Verify, Audit!lastHash,
                Audit!computeHash, Audit!GenesisHash
  <2> QED
    BY <2>1, <2>2 DEF MCNext, allVars
<1> QED
  BY <1>1, <1>2, AuditFollows, PTL DEF MCSpec

-----------------------------------------------------------------------------
(* The end of the process: request goroutines, the worker pools, the signal  *)
(* goroutine and the cleanups of main, interleaved in any way.               *)

Pools == Process!Pools
Sinks == Process!Sinks
After == Process!After
Stations == Process!Away .. Process!Done
Stages == {"listen", "audit", "quality", "metrics", "recorder", "confidence", "exporter"}

ProcessTypes ==
  /\ req \in [Requests -> Stations] /\ panicked \subseteq Requests
  /\ queue \in [Pools -> Seq(Requests)] /\ poolClosed \subseteq Pools
  /\ taken \in [Pools -> [Workers -> Requests \cup {"none"}]]
  /\ submitted \in [Pools -> SUBSET Requests] /\ judged \in [Pools -> SUBSET Requests]
  /\ cats \subseteq Requests /\ kept \in [Sinks -> SUBSET Requests]
  /\ open \subseteq Sinks \cup {"confidence", "scores"}
  /\ signal \in {"waiting", "draining", "shutdown", "done"} /\ serving \in BOOLEAN
  /\ todo \in Seq(Stages)

\* A sample on its way through a pool.
Waits(p, r) == \E i \in 1..Len(queue[p]) : queue[p][i] = r
InHand(p, r) == \E w \in Workers : taken[p][w] = r
Underway(p, r) == Waits(p, r) \/ InHand(p, r)

\* What a pool accepted it has scored, or is on its way to it.
NothingLost == \A p \in Pools : \A r \in submitted[p] : r \in judged[p] \/ Underway(p, r)

\* A category is remembered for a sample on its way, or after a panic.
NothingLeaks == \A r \in cats : r \in panicked \/ Underway("judge", r)

\* The signal goroutine drains the judge before main's cleanups can start, and
\* the quality pool is drained when its cleanup is over.
InTurn ==
  /\ signal # "waiting" => "judge" \in poolClosed
  /\ signal \in {"shutdown", "done"} => Process!Idle("judge")
  /\ ~serving => signal \in {"shutdown", "done"}
  /\ ~({"confidence", "scores"} \subseteq open) => signal \in {"shutdown", "done"}
  /\ serving => todo # <<>> /\ Head(todo) = "listen"
  /\ \/ \E i \in 1..Len(todo) : todo[i] = "quality"
     \/ "quality" \in poolClosed /\ Process!Idle("quality")

\* What a request has behind it, it has left in every writer still open.
TailsKept ==
  /\ \A r \in panicked : req[r] = Process!Done /\ poolClosed # {}
  /\ \A r \in Requests, i \in 1..6 :
       (After[i] \in Sinks /\ req[r] > i) =>
          r \in kept[After[i]] \/ After[i] \notin open \/ r \in panicked

ProcessInv == ProcessTypes /\ NothingLost /\ NothingLeaks /\ InTurn /\ TailsKept

\* The process starts.
LEMMA ProcessStarts == Process!Init => ProcessInv
<1> SUFFICES ASSUME Process!Init PROVE ProcessInv
  OBVIOUS
<1>1. todo \in Seq(Stages) /\ todo # <<>> /\ Head(todo) = "listen" /\ Len(todo) = 7 /\ todo[3] = "quality"
  <2> DEFINE l == <<"listen">>
             c == Process!Cleanups
  <2>1. c \in Seq(Stages) /\ Len(c) = 6 /\ c[2] = "quality"
    BY DEF Process!Cleanups, Stages
  <2>2. l \in Seq(Stages) /\ Len(l) = 1 /\ l[1] = "listen"
    BY DEF Stages
  <2>3. todo = l \o c
    BY DEF Process!Init
  <2> HIDE DEF l, c
  <2>4. todo \in Seq(Stages) /\ Len(todo) = 7 /\ todo[1] = "listen" /\ todo[3] = "quality"
    <3>1. /\ l \o c \in Seq(Stages) /\ Len(l \o c) = Len(l) + Len(c)
          /\ \A i \in 1 .. Len(l) + Len(c) :
               (l \o c)[i] = IF i <= Len(l) THEN l[i] ELSE c[i - Len(l)]
      BY <2>1, <2>2, ConcatProperties
    <3> QED
      BY <2>1, <2>2, <2>3, <3>1
  <2> QED
    BY <2>4
<1> USE DEF Process!Init, Process!Pools, Process!Sinks, Process!Away, Process!Done, Process!After,
            Pools, Sinks, After, Stations
<1>2. ProcessTypes
  <2>2. req \in [Requests -> Stations]
    OBVIOUS
  <2>3. queue \in [Pools -> Seq(Requests)] /\ taken \in [Pools -> [Workers -> Requests \cup {"none"}]]
        /\ submitted \in [Pools -> SUBSET Requests] /\ judged \in [Pools -> SUBSET Requests]
        /\ kept \in [Sinks -> SUBSET Requests]
    OBVIOUS
  <2> QED
    BY <1>1, <2>2, <2>3 DEF ProcessTypes
<1>3. NothingLost /\ NothingLeaks
  BY DEF NothingLost, NothingLeaks
<1>4. InTurn
  <2>1. \E i \in 1..Len(todo) : todo[i] = "quality"
    BY <1>1
  <2> QED
    BY <1>1, <2>1 DEF InTurn
<1>5. TailsKept
  BY DEF TailsKept
<1> QED
  BY <1>2, <1>3, <1>4, <1>5 DEF ProcessInv

\* What a step of one request does in the pools.
LEMMA ScoreStep ==
  ASSUME ProcessInv, NEW r \in Requests, Process!Score(r)
  PROVE  \E p \in Pools :
           /\ req[r] \in 1..2 /\ todo # <<>>
           /\ req' = [req EXCEPT ![r] = IF r \in panicked' THEN Process!Done ELSE @ + 1]
           /\ UNCHANGED <<poolClosed, taken, judged, learned, open, kept, signal, serving, todo>>
           /\ \/ UNCHANGED <<queue, submitted, cats, panicked>>
              \/ /\ p \in poolClosed /\ panicked' = panicked \cup {r}
                 /\ cats' \subseteq cats \cup {r} /\ UNCHANGED <<queue, submitted>>
              \/ /\ p \notin poolClosed /\ queue' = [queue EXCEPT ![p] = Append(@, r)]
                 /\ submitted' = [submitted EXCEPT ![p] = @ \cup {r}]
                 /\ (cats' = cats \/ (p = "judge" /\ cats' = cats \cup {r}))
                 /\ UNCHANGED panicked
<1> DEFINE p == After[req[r]]
<1>1. req[r] \in 1..6 /\ p \in Pools
  BY DEF Process!Score, Process!After, After, Pools
<1>2. req[r] \in 1..2
  BY <1>1 DEF Process!After, After, Process!Pools, Pools
<1>3. /\ todo # <<>>
      /\ req' = [req EXCEPT ![r] = IF r \in panicked' THEN Process!Done ELSE @ + 1]
      /\ UNCHANGED <<poolClosed, taken, judged, learned, open, kept, signal, serving, todo>>
  BY DEF Process!Score, Process!Recover, Process!Alive
<1>4. UNCHANGED <<queue, submitted, cats, panicked>> \/ Process!Enqueue(r, p)
  BY DEF Process!Score, After
<1> HIDE DEF p
<1>5. \/ UNCHANGED <<queue, submitted, cats, panicked>>
      \/ /\ p \in poolClosed /\ panicked' = panicked \cup {r}
         /\ cats' \subseteq cats \cup {r} /\ UNCHANGED <<queue, submitted>>
      \/ /\ p \notin poolClosed /\ queue' = [queue EXCEPT ![p] = Append(@, r)]
         /\ submitted' = [submitted EXCEPT ![p] = @ \cup {r}]
         /\ (cats' = cats \/ (p = "judge" /\ cats' = cats \cup {r}))
         /\ UNCHANGED panicked
  BY <1>4 DEF Process!Enqueue
<1> QED
  BY <1>1, <1>2, <1>3, <1>5

\* The other steps, by what they touch.
PoolWork == \E w \in Workers, p \in Pools : Process!Take(p, w) \/ Process!Judge(w) \/ Process!Verify(w)
Requesting == \E r \in Requests : Process!Arrive(r) \/ Process!Answer(r) \/ Process!Leave(r)

\* A step of the process, by who takes it.
LEMMA ProcessNext ==
  ASSUME Process!Next
  PROVE  (\E r \in Requests : Process!Score(r)) \/ Requesting \/ PoolWork \/ Process!Signal \/ Process!Ending
BY DEF Process!Next, Process!Work, Requesting, PoolWork, Pools

\* The types are kept.
LEMMA ProcessTypeStep ==
  ASSUME ProcessInv, Process!Next
  PROVE  ProcessTypes'
<1> USE DEF ProcessInv, ProcessTypes
<1>1. ASSUME NEW r \in Requests, Process!Score(r) PROVE ProcessTypes'
  <2>1. PICK p \in Pools :
           /\ req[r] \in 1..2
           /\ req' = [req EXCEPT ![r] = IF r \in panicked' THEN Process!Done ELSE @ + 1]
           /\ UNCHANGED <<poolClosed, taken, judged, learned, open, kept, signal, serving, todo>>
           /\ \/ UNCHANGED <<queue, submitted, cats, panicked>>
              \/ /\ panicked' = panicked \cup {r}
                 /\ cats' \subseteq cats \cup {r} /\ UNCHANGED <<queue, submitted>>
              \/ /\ queue' = [queue EXCEPT ![p] = Append(@, r)]
                 /\ submitted' = [submitted EXCEPT ![p] = @ \cup {r}]
                 /\ (cats' = cats \/ cats' = cats \cup {r})
                 /\ UNCHANGED panicked
    BY <1>1, ScoreStep
  <2>2. req' \in [Requests -> Stations]
    BY <2>1 DEF Stations, Process!Away, Process!Done, Process!After
  <2>3. panicked' \subseteq Requests /\ cats' \subseteq Requests
    BY <2>1
  <2>4. queue' \in [Pools -> Seq(Requests)]
    <3>1. Append(queue[p], r) \in Seq(Requests)
      OBVIOUS
    <3> QED
      BY <2>1, <3>1
  <2>5. submitted' \in [Pools -> SUBSET Requests]
    BY <2>1
  <2> QED
    BY <2>1, <2>2, <2>3, <2>4, <2>5
<1>2. ASSUME NEW r \in Requests, Process!Arrive(r) \/ Process!Answer(r) \/ Process!Leave(r) PROVE ProcessTypes'
  <2>1. UNCHANGED <<panicked, queue, poolClosed, taken, submitted, judged, cats, open, signal, serving, todo>>
    BY <1>2 DEF Process!Arrive, Process!Answer, Process!Leave, Process!poolVars
  <2>2. req' \in [Requests -> Stations]
    BY <1>2 DEF Process!Arrive, Process!Answer, Process!Leave, Stations, Process!Away, Process!InService,
                Process!Done, Process!After
  <2>3. kept' \in [Sinks -> SUBSET Requests]
    <3>1. UNCHANGED kept \/ \E s \in Sinks : kept' = [kept EXCEPT ![s] = @ \cup {r}]
      BY <1>2 DEF Process!Arrive, Process!Answer, Process!Leave, Sinks
    <3>2. kept \in [Sinks -> SUBSET Requests]
      OBVIOUS
    <3>3. ASSUME NEW s \in Sinks, kept' = [kept EXCEPT ![s] = @ \cup {r}]
          PROVE  kept' \in [Sinks -> SUBSET Requests]
      <4> HIDE DEF ProcessInv, ProcessTypes
      <4>1. kept[s] \cup {r} \in SUBSET Requests
        BY <3>2, SMT
      <4> QED
        BY <3>2, <3>3, <4>1
    <3> HIDE DEF ProcessInv, ProcessTypes
    <3> QED
      BY <3>1, <3>2, <3>3, Zenon
  <2> QED
    BY <2>1, <2>2, <2>3
<1>3. ASSUME NEW w \in Workers, NEW p \in Pools, Process!Take(p, w) PROVE ProcessTypes'
  <2>1. /\ UNCHANGED <<req, panicked, poolClosed, submitted, judged, cats, open, kept, signal, serving, todo>>
        /\ queue[p] # <<>> /\ taken' = [taken EXCEPT ![p][w] = Head(queue[p])]
        /\ queue' = [queue EXCEPT ![p] = Tail(@)]
    BY <1>3 DEF Process!Take
  <2>2. Head(queue[p]) \in Requests /\ Tail(queue[p]) \in Seq(Requests)
    BY <2>1
  <2>3. queue' \in [Pools -> Seq(Requests)]
    BY <2>1, <2>2
  <2>4. taken' \in [Pools -> [Workers -> Requests \cup {"none"}]]
    BY <2>1, <2>2
  <2> QED
    BY <2>1, <2>3, <2>4
<1>4. ASSUME NEW w \in Workers, Process!Judge(w) \/ Process!Verify(w) PROVE ProcessTypes'
  <2>1. /\ UNCHANGED <<req, panicked, queue, poolClosed, submitted, open, kept, signal, serving, todo>>
        /\ cats' \subseteq cats
    BY <1>4 DEF Process!Judge, Process!Verify
  <2>2. \E p \in Pools : /\ taken[p][w] # "none" /\ taken' = [taken EXCEPT ![p][w] = "none"]
                         /\ judged' = [judged EXCEPT ![p] = @ \cup {taken[p][w]}]
    BY <1>4 DEF Process!Judge, Process!Verify, Pools, Process!Pools
  <2>3. taken' \in [Pools -> [Workers -> Requests \cup {"none"}]]
    BY <2>2
  <2>4. judged' \in [Pools -> SUBSET Requests]
    <3>1. PICK p \in Pools : taken[p][w] # "none" /\ judged' = [judged EXCEPT ![p] = @ \cup {taken[p][w]}]
      BY <2>2
    <3>2. taken[p][w] \in Requests
      BY <3>1
    <3> QED
      BY <3>1, <3>2
  <2> QED
    BY <2>1, <2>3, <2>4
<1>5. CASE Process!Signal \/ Process!Ending
  <2>1. UNCHANGED <<req, panicked, queue, taken, submitted, judged, cats, kept>>
    BY <1>5 DEF Process!Signal, Process!Ending, Process!Drain, Process!ShutdownReturns, Process!ListenReturns,
         Process!CloseQuality, Process!Cleanup, Process!poolVars
  <2>2. poolClosed' \subseteq Pools
    BY <1>5 DEF Process!Signal, Process!Ending, Process!Drain, Process!ShutdownReturns, Process!ListenReturns,
         Process!CloseQuality, Process!Cleanup, Process!poolVars, Pools, Process!Pools
  <2>3. open' \subseteq open
    BY <1>5 DEF Process!Signal, Process!Ending, Process!Drain, Process!ShutdownReturns, Process!ListenReturns,
         Process!CloseQuality, Process!Cleanup
  <2>4. signal' \in {"waiting", "draining", "shutdown", "done"} /\ serving' \in BOOLEAN
    BY <1>5 DEF Process!Signal, Process!Ending, Process!Drain, Process!ShutdownReturns, Process!ListenReturns,
         Process!CloseQuality, Process!Cleanup
  <2>5. todo' = todo \/ (todo # <<>> /\ todo' = Tail(todo))
    BY <1>5 DEF Process!Signal, Process!Ending, Process!Drain, Process!ShutdownReturns, Process!ListenReturns,
         Process!CloseQuality, Process!Cleanup, Process!Alive
  <2>6. todo' \in Seq(Stages)
    <3>1. todo # <<>> => Tail(todo) \in Seq(Stages)
      OBVIOUS
    <3> QED
      BY <2>5, <3>1
  <2> QED
    BY <2>1, <2>2, <2>3, <2>4, <2>6
<1> QED
  BY <1>1, <1>2, <1>3, <1>4, <1>5, ProcessNext DEF Requesting, PoolWork

\* A sample on its way stays on it until it is scored.
LEMMA UnderwayStep ==
  ASSUME ProcessInv, Process!Next, NEW p \in Pools, NEW r \in Requests, Underway(p, r)
  PROVE  Underway(p, r)' \/ (r \in judged'[p] /\ (p = "judge" => r \notin cats'))
<1> USE DEF ProcessInv, ProcessTypes
<1>1. ASSUME NEW x \in Requests, Process!Score(x) PROVE Underway(p, r)'
  <2>1. PICK q \in Pools :
          UNCHANGED taken /\ (UNCHANGED queue \/ queue' = [queue EXCEPT ![q] = Append(@, x)])
    BY <1>1, ScoreStep
  <2>2. \A i \in 1..Len(queue[p]) : i \in 1..Len(queue'[p]) /\ queue'[p][i] = queue[p][i]
    <3>1. queue'[p] = queue[p] \/ queue'[p] = Append(queue[p], x)
      BY <2>1
    <3> DEFINE s == queue[p]
    <3>2. s \in Seq(Requests)
      OBVIOUS
    <3> HIDE DEF s
    <3>3. \A i \in 1..Len(s) : i \in 1..Len(Append(s, x)) /\ Append(s, x)[i] = s[i]
      BY <3>2
    <3> QED
      BY <3>1, <3>3 DEF s
  <2> QED
    BY <2>1, <2>2 DEF Underway, Waits, InHand
<1>2. CASE Requesting \/ Process!Signal \/ Process!Ending
  <2>1. UNCHANGED <<queue, taken>>
    BY <1>2 DEF Requesting, Process!Arrive, Process!Answer, Process!Leave, Process!Signal, Process!Ending,
         Process!Drain, Process!ShutdownReturns, Process!ListenReturns, Process!CloseQuality,
         Process!Cleanup, Process!poolVars
  <2> QED
    BY <2>1 DEF Underway, Waits, InHand
<1>3. ASSUME NEW q \in Pools, NEW w \in Workers, Process!Take(q, w) PROVE Underway(p, r)'
  <2>1. /\ taken[q][w] = "none" /\ queue[q] # <<>>
        /\ taken' = [taken EXCEPT ![q][w] = Head(queue[q])]
        /\ queue' = [queue EXCEPT ![q] = Tail(@)]
    BY <1>3 DEF Process!Take
  <2>2. CASE InHand(p, r)
    <3>1. PICK v \in Workers : taken[p][v] = r
      BY <2>2 DEF InHand
    <3>2. taken'[p][v] = r
      BY <2>1, <3>1, ServiceAssumption
    <3> QED
      BY <3>2 DEF Underway, InHand
  <2>3. CASE Waits(p, r)
    <3>1. PICK i \in 1..Len(queue[p]) : queue[p][i] = r
      BY <2>3 DEF Waits
    <3>2. CASE p # q
      <4>1. queue'[p] = queue[p]
        BY <2>1, <3>2
      <4> QED
        BY <3>1, <4>1 DEF Underway, Waits
    <3>3. CASE p = q /\ i = 1
      <4>1. taken'[p][w] = r
        BY <2>1, <3>1, <3>3
      <4> QED
        BY <4>1 DEF Underway, InHand
    <3>4. CASE p = q /\ i # 1
      <4> DEFINE s == queue[p]
      <4>1. s \in Seq(Requests) /\ s # <<>> /\ i \in 1..Len(s) /\ queue'[p] = Tail(s)
        BY <2>1, <3>4
      <4> HIDE DEF s
      <4>2. i - 1 \in 1..Len(Tail(s)) /\ Tail(s)[i - 1] = s[i]
        BY <3>4, <4>1
      <4>3. s[i] = r
        BY <3>1 DEF s
      <4> QED
        BY <4>1, <4>2, <4>3 DEF Underway, Waits
    <3> QED
      BY <3>2, <3>3, <3>4
  <2> QED
    BY <2>2, <2>3 DEF Underway
<1>4. ASSUME NEW w \in Workers, Process!Judge(w) \/ Process!Verify(w)
      PROVE  Underway(p, r)' \/ (r \in judged'[p] /\ (p = "judge" => r \notin cats'))
  <2>1. PICK q \in Pools :
          /\ queue' = queue /\ taken' = [taken EXCEPT ![q][w] = "none"]
          /\ judged' = [judged EXCEPT ![q] = @ \cup {taken[q][w]}]
          /\ q = "judge" => cats' = cats \ {taken[q][w]}
    BY <1>4 DEF Process!Judge, Process!Verify, Pools, Process!Pools
  <2>2. CASE Waits(p, r)
    BY <2>1, <2>2 DEF Underway, Waits
  <2>3. CASE InHand(p, r)
    <3>1. PICK v \in Workers : taken[p][v] = r
      BY <2>3 DEF InHand
    <3>2. CASE p = q /\ v = w
      BY <2>1, <3>1, <3>2
    <3>3. CASE ~(p = q /\ v = w)
      <4>1. taken'[p][v] = r
        BY <2>1, <3>1, <3>3
      <4> QED
        BY <4>1 DEF Underway, InHand
    <3> QED
      BY <3>2, <3>3
  <2> QED
    BY <2>2, <2>3 DEF Underway
<1> QED
  BY <1>1, <1>2, <1>3, <1>4, ProcessNext DEF PoolWork

\* Nothing is lost and nothing leaks.
LEMMA PoolsStep ==
  ASSUME ProcessInv, Process!Next
  PROVE  NothingLost' /\ NothingLeaks'
<1> USE DEF ProcessInv, ProcessTypes
<1>1. \A p \in Pools : judged[p] \subseteq judged'[p]
  <2>1. CASE UNCHANGED judged
    BY <2>1
  <2>2. ASSUME NEW w \in Workers, Process!Judge(w) \/ Process!Verify(w) PROVE \A p \in Pools : judged[p] \subseteq judged'[p]
    <3>1. \E q \in Pools : judged' = [judged EXCEPT ![q] = @ \cup {taken[q][w]}]
      BY <2>2 DEF Process!Judge, Process!Verify, Pools, Process!Pools
    <3> QED
      BY <3>1
  <2>3. UNCHANGED judged \/ \E w \in Workers : Process!Judge(w) \/ Process!Verify(w)
    <3>1. CASE \E x \in Requests : Process!Score(x)
      BY <3>1, ScoreStep
    <3>2. CASE Requesting \/ Process!Signal \/ Process!Ending
      BY <3>2 DEF Requesting, Process!Arrive, Process!Answer, Process!Leave, Process!Signal, Process!Ending,
           Process!Drain, Process!ShutdownReturns, Process!ListenReturns, Process!CloseQuality,
           Process!Cleanup, Process!poolVars
    <3>3. CASE PoolWork
      BY <3>3 DEF PoolWork, Process!Take
    <3> QED
      BY <3>1, <3>2, <3>3, ProcessNext
  <2> QED
    BY <2>1, <2>2, <2>3
<1>2. \A p \in Pools : \A r \in submitted'[p] : r \in submitted[p] \/ Underway(p, r)'
  <2>1. CASE UNCHANGED submitted
    BY <2>1
  <2>2. ASSUME NEW x \in Requests, Process!Score(x)
        PROVE  \A p \in Pools : \A r \in submitted'[p] : r \in submitted[p] \/ Underway(p, r)'
    <3>1. PICK q \in Pools :
            \/ UNCHANGED submitted
            \/ /\ queue' = [queue EXCEPT ![q] = Append(@, x)]
               /\ submitted' = [submitted EXCEPT ![q] = @ \cup {x}]
      BY <2>2, ScoreStep
    <3>2. CASE UNCHANGED submitted
      BY <3>2
    <3>3. CASE /\ queue' = [queue EXCEPT ![q] = Append(@, x)]
               /\ submitted' = [submitted EXCEPT ![q] = @ \cup {x}]
      <4>1. queue'[q] = Append(queue[q], x) /\ queue[q] \in Seq(Requests)
        BY <3>3
      <4>2. Len(queue[q]) + 1 \in 1..Len(queue'[q]) /\ queue'[q][Len(queue[q]) + 1] = x
        BY <4>1
      <4>3. Underway(q, x)'
        BY <4>2 DEF Underway, Waits
      <4> QED
        BY <3>3, <4>3
    <3> QED
      BY <3>1, <3>2, <3>3
  <2>3. UNCHANGED submitted \/ \E x \in Requests : Process!Score(x)
    <3>1. CASE Requesting \/ Process!Signal \/ Process!Ending
      BY <3>1 DEF Requesting, Process!Arrive, Process!Answer, Process!Leave, Process!Signal, Process!Ending,
           Process!Drain, Process!ShutdownReturns, Process!ListenReturns, Process!CloseQuality,
           Process!Cleanup, Process!poolVars
    <3>2. CASE PoolWork
      BY <3>2 DEF PoolWork, Process!Take, Process!Judge, Process!Verify
    <3> QED
      BY <3>1, <3>2, ProcessNext
  <2> QED
    BY <2>1, <2>2, <2>3
<1>3. NothingLost'
  <2> SUFFICES ASSUME NEW p \in Pools, NEW r \in submitted'[p] PROVE r \in judged'[p] \/ Underway(p, r)'
    BY DEF NothingLost
  <2>1. CASE r \in submitted[p]
    <3>1. r \in Requests
      BY <2>1
    <3>2. r \in judged[p] \/ Underway(p, r)
      BY <2>1 DEF NothingLost
    <3> QED
      BY <1>1, <3>1, <3>2, UnderwayStep
  <2> QED
    BY <1>2, <2>1
<1>4. NothingLeaks'
  <2> SUFFICES ASSUME NEW r \in cats', r \notin panicked' PROVE Underway("judge", r)'
    BY DEF NothingLeaks
  <2>1. "judge" \in Pools
    BY DEF Pools, Process!Pools
  <2>2. panicked \subseteq panicked'
    <3>1. CASE \E x \in Requests : Process!Score(x)
      BY <3>1, ScoreStep
    <3>2. CASE Requesting \/ Process!Signal \/ Process!Ending
      BY <3>2 DEF Requesting, Process!Arrive, Process!Answer, Process!Leave, Process!Signal, Process!Ending,
           Process!Drain, Process!ShutdownReturns, Process!ListenReturns, Process!CloseQuality,
           Process!Cleanup
    <3>3. CASE PoolWork
      BY <3>3 DEF PoolWork, Process!Take, Process!Judge, Process!Verify
    <3> QED
      BY <3>1, <3>2, <3>3, ProcessNext
  <2>3. CASE r \in cats
    <3>1. r \in Requests /\ Underway("judge", r)
      BY <2>2, <2>3 DEF NothingLeaks
    <3> QED
      BY <2>1, <3>1, UnderwayStep
  <2>4. ASSUME r \notin cats, NEW x \in Requests, Process!Score(x) PROVE Underway("judge", r)'
    <3>1. PICK q \in Pools :
            \/ UNCHANGED cats
            \/ r \in panicked'
            \/ /\ queue' = [queue EXCEPT ![q] = Append(@, x)] /\ q = "judge" /\ cats' = cats \cup {x}
      BY <2>4, ScoreStep
    <3>2. r = x /\ queue'["judge"] = Append(queue["judge"], x) /\ queue["judge"] \in Seq(Requests)
      BY <2>1, <2>4, <3>1
    <3>3. Len(queue["judge"]) + 1 \in 1..Len(queue'["judge"]) /\ queue'["judge"][Len(queue["judge"]) + 1] = x
      BY <3>2
    <3> QED
      BY <3>2, <3>3 DEF Underway, Waits
  <2>5. cats' \subseteq cats \/ \E x \in Requests : Process!Score(x)
    <3>1. CASE Requesting \/ Process!Signal \/ Process!Ending
      BY <3>1 DEF Requesting, Process!Arrive, Process!Answer, Process!Leave, Process!Signal, Process!Ending,
           Process!Drain, Process!ShutdownReturns, Process!ListenReturns, Process!CloseQuality,
           Process!Cleanup, Process!poolVars
    <3>2. CASE PoolWork
      BY <3>2 DEF PoolWork, Process!Take, Process!Judge, Process!Verify
    <3> QED
      BY <3>1, <3>2, ProcessNext
  <2> QED
    BY <2>3, <2>4, <2>5
<1> QED
  BY <1>3, <1>4

\* A pool that is closed and idle stays so.
LEMMA IdleStep ==
  ASSUME ProcessInv, Process!Next, NEW p \in Pools, p \in poolClosed, Process!Idle(p)
  PROVE  p \in poolClosed' /\ Process!Idle(p)'
<1> USE DEF ProcessInv, ProcessTypes
<1>1. queue[p] = <<>> /\ \A w \in Workers : taken[p][w] = "none"
  BY DEF Process!Idle
<1>2. CASE \E x \in Requests : Process!Score(x)
  <2>1. PICK q \in Pools :
          /\ UNCHANGED <<poolClosed, taken>>
          /\ UNCHANGED queue \/ (q \notin poolClosed /\ \E x : queue' = [queue EXCEPT ![q] = Append(@, x)])
    BY <1>2, ScoreStep
  <2>2. queue'[p] = queue[p]
    BY <2>1
  <2> QED
    BY <1>1, <2>1, <2>2 DEF Process!Idle
<1>3. CASE Requesting \/ Process!Signal \/ Process!Ending
  <2>1. UNCHANGED <<queue, taken>> /\ poolClosed \subseteq poolClosed'
    BY <1>3 DEF Requesting, Process!Arrive, Process!Answer, Process!Leave, Process!Signal, Process!Ending,
         Process!Drain, Process!ShutdownReturns, Process!ListenReturns, Process!CloseQuality,
         Process!Cleanup, Process!poolVars
  <2> QED
    BY <2>1 DEF Process!Idle
<1>4. ASSUME NEW q \in Pools, NEW w \in Workers, Process!Take(q, w) PROVE p \in poolClosed' /\ Process!Idle(p)'
  <2>1. /\ queue[q] # <<>> /\ taken' = [taken EXCEPT ![q][w] = Head(queue[q])]
        /\ queue' = [queue EXCEPT ![q] = Tail(@)] /\ UNCHANGED poolClosed
    BY <1>4 DEF Process!Take
  <2>2. queue'[p] = queue[p] /\ taken'[p] = taken[p]
    BY <1>1, <2>1
  <2> QED
    BY <1>1, <2>1, <2>2 DEF Process!Idle
<1>5. ASSUME NEW w \in Workers, Process!Judge(w) \/ Process!Verify(w) PROVE p \in poolClosed' /\ Process!Idle(p)'
  <2>1. /\ UNCHANGED <<queue, poolClosed>> /\ \E q \in Pools : taken' = [taken EXCEPT ![q][w] = "none"]
    BY <1>5 DEF Process!Judge, Process!Verify, Pools, Process!Pools
  <2>2. \A v \in Workers : taken'[p][v] = "none"
    BY <1>1, <2>1
  <2> QED
    BY <1>1, <2>1, <2>2 DEF Process!Idle
<1> QED
  BY <1>2, <1>3, <1>4, <1>5, ProcessNext DEF PoolWork

\* The quality pool is drained when its cleanup is over.
LEMMA QualityStep ==
  ASSUME ProcessInv, Process!Next
  PROVE  \/ \E i \in 1..Len(todo') : todo'[i] = "quality"
         \/ "quality" \in poolClosed' /\ Process!Idle("quality")'
<1> USE DEF ProcessInv, ProcessTypes
<1>1. "quality" \in Pools
  BY DEF Pools, Process!Pools
<1>2. CASE "quality" \in poolClosed /\ Process!Idle("quality")
  BY <1>1, <1>2, IdleStep
<1>3. ASSUME NEW i \in 1..Len(todo), todo[i] = "quality",
             ~("quality" \in poolClosed /\ Process!Idle("quality"))
      PROVE  \E j \in 1..Len(todo') : todo'[j] = "quality"
  <2>1. CASE UNCHANGED todo
    BY <1>3, <2>1
  <2>2. CASE todo' = Tail(todo) /\ todo # <<>> /\ Head(todo) # "quality"
    <3>1. i # 1 /\ todo \in Seq(Stages)
      BY <1>3, <2>2
    <3>2. i - 1 \in 1..Len(Tail(todo)) /\ Tail(todo)[i - 1] = todo[i]
      BY <2>2, <3>1
    <3> QED
      BY <1>3, <2>2, <3>2
  <2>3. UNCHANGED todo \/ (todo' = Tail(todo) /\ todo # <<>> /\ Head(todo) # "quality")
    <3>1. CASE \E x \in Requests : Process!Score(x)
      BY <3>1, ScoreStep
    <3>2. CASE Requesting \/ Process!Signal
      BY <3>2 DEF Requesting, Process!Arrive, Process!Answer, Process!Leave, Process!Signal
    <3>3. CASE PoolWork
      BY <3>3 DEF PoolWork, Process!Take, Process!Judge, Process!Verify
    <3>4. CASE Process!Ending
      BY <1>3, <3>4 DEF Process!Ending, Process!Drain, Process!ShutdownReturns, Process!ListenReturns,
           Process!CloseQuality, Process!Cleanup, Process!Alive, Process!Sinks
    <3> QED
      BY <3>1, <3>2, <3>3, <3>4, ProcessNext
  <2> QED
    BY <2>1, <2>2, <2>3
<1> QED
  BY <1>2, <1>3 DEF InTurn

\* The signal goroutine and main's cleanups keep their order.
LEMMA TurnStep ==
  ASSUME ProcessInv, Process!Next
  PROVE  InTurn'
<1> USE DEF ProcessInv, ProcessTypes
<1>1. "judge" \in Pools
  BY DEF Pools, Process!Pools
<1>2. CASE UNCHANGED <<open, signal, serving, todo>> /\ poolClosed' = poolClosed
  <2>1. signal \in {"shutdown", "done"} => Process!Idle("judge")'
    BY <1>1, IdleStep DEF InTurn
  <2> QED
    BY <1>2, <2>1, QualityStep DEF InTurn
<1>3. CASE Process!Signal
  <2>1. /\ signal = "waiting" /\ signal' = "draining" /\ poolClosed' = poolClosed \cup {"judge"}
        /\ UNCHANGED <<open, serving, todo>>
    BY <1>3 DEF Process!Signal
  <2> QED
    BY <2>1, QualityStep DEF InTurn
<1>4. CASE Process!Drain
  <2>1. /\ signal = "draining" /\ Process!Idle("judge") /\ signal' = "shutdown" /\ serving' = FALSE
        /\ UNCHANGED <<poolClosed, queue, taken>>
    BY <1>4 DEF Process!Drain, Process!poolVars
  <2>2. Process!Idle("judge")'
    BY <2>1 DEF Process!Idle
  <2> QED
    BY <2>1, <2>2, QualityStep DEF InTurn
<1>5. CASE Process!ShutdownReturns
  <2>1. /\ signal = "shutdown" /\ signal' = "done"
        /\ UNCHANGED <<poolClosed, queue, taken, open, serving, todo>>
    BY <1>5 DEF Process!ShutdownReturns, Process!poolVars
  <2>2. Process!Idle("judge")'
    BY <2>1 DEF Process!Idle, InTurn
  <2> QED
    BY <2>1, <2>2, QualityStep DEF InTurn
<1>6. CASE Process!ListenReturns \/ Process!CloseQuality \/ Process!Cleanup
  <2>1. /\ UNCHANGED <<signal, serving, queue, taken>> /\ poolClosed \subseteq poolClosed' /\ ~serving
    <3>1. CASE Process!ListenReturns
      BY <3>1 DEF Process!ListenReturns, Process!poolVars
    <3>2. CASE Process!CloseQuality
      BY <3>2 DEF Process!CloseQuality, InTurn
    <3>3. CASE Process!Cleanup
      BY <3>3 DEF Process!Cleanup, Process!poolVars, Process!Sinks, InTurn
    <3> QED
      BY <1>6, <3>1, <3>2, <3>3
  <2>2. Process!Idle("judge")'
    BY <2>1 DEF Process!Idle, InTurn
  <2> QED
    BY <2>1, <2>2, QualityStep DEF InTurn
<1>7. CASE \E x \in Requests : Process!Score(x)
  <2>1. UNCHANGED <<open, signal, serving, todo, poolClosed>>
    BY <1>7, ScoreStep
  <2> QED
    BY <1>2, <2>1
<1>8. CASE Requesting
  BY <1>2, <1>8 DEF Requesting, Process!Arrive, Process!Answer, Process!Leave, Process!poolVars
<1>9. CASE PoolWork
  BY <1>2, <1>9 DEF PoolWork, Process!Take, Process!Judge, Process!Verify
<1> QED
  BY <1>3, <1>4, <1>5, <1>6, <1>7, <1>8, <1>9, ProcessNext DEF Process!Ending

\* A request leaves its records behind it, one after the other.
LEMMA TailsStep ==
  ASSUME ProcessInv, Process!Next
  PROVE  TailsKept'
<1> USE DEF ProcessInv, ProcessTypes
<1>1. CASE UNCHANGED <<req, panicked, kept>>
  <2>1. open' \subseteq open /\ poolClosed \subseteq poolClosed'
    <3>1. CASE \E x \in Requests : Process!Score(x)
      BY <3>1, ScoreStep
    <3>2. CASE Requesting \/ Process!Signal
      BY <3>2 DEF Requesting, Process!Arrive, Process!Answer, Process!Leave, Process!Signal, Process!poolVars
    <3>3. CASE PoolWork
      BY <3>3 DEF PoolWork, Process!Take, Process!Judge, Process!Verify
    <3>4. CASE Process!Ending
      BY <3>4 DEF Process!Ending, Process!Drain, Process!ShutdownReturns, Process!ListenReturns,
           Process!CloseQuality, Process!Cleanup, Process!poolVars
    <3> QED
      BY <3>1, <3>2, <3>3, <3>4, ProcessNext
  <2> QED
    BY <1>1, <2>1 DEF TailsKept
<1>2. ASSUME NEW r \in Requests, Process!Score(r) PROVE TailsKept'
  <2>1. PICK p \in Pools :
           /\ req[r] \in 1..2
           /\ req' = [req EXCEPT ![r] = IF r \in panicked' THEN Process!Done ELSE @ + 1]
           /\ UNCHANGED <<poolClosed, open, kept>>
           /\ \/ UNCHANGED panicked
              \/ p \in poolClosed /\ panicked' = panicked \cup {r}
    BY <1>2, ScoreStep
  <2>2. r \notin panicked
    BY <2>1 DEF TailsKept, Process!Done, Process!After
  <2>3. \A x \in panicked' : req'[x] = Process!Done /\ poolClosed' # {}
    BY <2>1 DEF TailsKept
  <2>4. ASSUME NEW x \in Requests, NEW i \in 1..6, After[i] \in Sinks, req'[x] > i
        PROVE  x \in kept'[After[i]] \/ After[i] \notin open' \/ x \in panicked'
    <3>1. CASE x # r
      <4>1. req'[x] = req[x]
        BY <2>1, <3>1
      <4> QED
        BY <2>1, <2>4, <4>1 DEF TailsKept
    <3>2. CASE x = r /\ r \notin panicked'
      <4>1. req'[r] \in 2..3
        BY <2>1, <3>2
      <4>2. i \in 1..2
        BY <2>4, <3>2, <4>1
      <4> QED
        BY <2>4, <4>2 DEF After, Process!After, Sinks, Process!Sinks
    <3> QED
      BY <3>1, <3>2
  <2> QED
    BY <2>3, <2>4 DEF TailsKept
<1>3. ASSUME NEW r \in Requests, Process!Arrive(r) \/ Process!Answer(r) PROVE TailsKept'
  <2>1. /\ req[r] < 1 /\ req' = [req EXCEPT ![r] = req[r] + 1]
        /\ UNCHANGED <<panicked, kept, open, poolClosed>>
    BY <1>3 DEF Process!Arrive, Process!Answer, Process!Away, Process!InService, Process!poolVars
  <2>2. r \notin panicked
    BY <2>1 DEF TailsKept, Process!Done, Process!After
  <2>3. \A x \in Requests, i \in 1..6 : req'[x] > i => req[x] > i
    BY <2>1 DEF Stations, Process!Away, Process!Done, Process!After
  <2>4. \A x \in panicked : req'[x] = req[x]
    BY <2>1, <2>2
  <2> QED
    BY <2>1, <2>3, <2>4 DEF TailsKept
<1>4. ASSUME NEW r \in Requests, Process!Leave(r) PROVE TailsKept'
  <2> DEFINE k == req[r]
             s == After[k]
  <2>1. /\ k \in 1..6 /\ s \in Sinks /\ req' = [req EXCEPT ![r] = @ + 1]
        /\ kept' = IF s \in open THEN [kept EXCEPT ![s] = @ \cup {r}] ELSE kept
        /\ UNCHANGED <<panicked, open, poolClosed>>
    BY <1>4 DEF Process!Leave, Process!poolVars, After, Sinks, Process!After
  <2>2. r \notin panicked
    BY <2>1 DEF TailsKept, Process!Done, Process!After
  <2> HIDE DEF s, k
  <2>3. ASSUME NEW x \in Requests, NEW i \in 1..6, After[i] \in Sinks, req'[x] > i
        PROVE  x \in kept'[After[i]] \/ After[i] \notin open' \/ x \in panicked'
    <3>1. kept[After[i]] \subseteq kept'[After[i]]
      BY <2>1, <2>3
    <3>2. CASE req[x] > i
      BY <2>1, <2>3, <3>1, <3>2 DEF TailsKept
    <3>3. CASE ~(req[x] > i)
      <4>1. x = r
        BY <2>1, <2>3, <3>3
      <4>2. req'[r] = k + 1 /\ req[r] = k
        BY <2>1 DEF k
      <4>3. i = k
        BY <2>1, <2>3, <3>3, <4>1, <4>2
      <4> QED
        BY <2>1, <2>3, <4>1, <4>3 DEF s
    <3> QED
      BY <3>2, <3>3
  <2>4. \A x \in panicked : req'[x] = req[x]
    BY <2>1, <2>2
  <2> QED
    BY <2>1, <2>3, <2>4 DEF TailsKept
<1>5. UNCHANGED <<req, panicked, kept>> \/ Requesting \/ \E x \in Requests : Process!Score(x)
  <2>1. CASE PoolWork
    BY <2>1 DEF PoolWork, Process!Take, Process!Judge, Process!Verify
  <2>2. CASE Process!Signal \/ Process!Ending
    BY <2>2 DEF Process!Signal, Process!Ending, Process!Drain, Process!ShutdownReturns, Process!ListenReturns,
         Process!CloseQuality, Process!Cleanup
  <2> QED
    BY <2>1, <2>2, ProcessNext
<1> QED
  BY <1>1, <1>2, <1>3, <1>4, <1>5 DEF Requesting

\* The invariant gives what the run checks.
LEMMA ShutdownFollows == ProcessInv => ShutdownSound
<1> SUFFICES ASSUME ProcessInv PROVE ShutdownSound
  OBVIOUS
<1> USE DEF ProcessInv, ProcessTypes
<1>1. Process!ScoresBeforeStores
  BY DEF InTurn, Process!ScoresBeforeStores
<1>2. Process!NothingUnscored
  <2> SUFFICES ASSUME todo = <<>>, NEW p \in Pools, NEW r \in submitted[p] PROVE r \in judged[p]
    BY DEF Process!NothingUnscored, Process!Alive, Pools
  <2>1. Process!Idle(p)
    BY DEF InTurn, Pools, Process!Pools
  <2>2. ~Underway(p, r)
    <3>1. r \in Requests
      OBVIOUS
    <3> QED
      BY <2>1, <3>1, ServiceAssumption DEF Process!Idle, Underway, Waits, InHand
  <2> QED
    BY <2>2 DEF NothingLost
<1>3. Process!CategoriesOnTheirWay
  BY DEF NothingLeaks, Underway, Waits, InHand, Process!CategoriesOnTheirWay, Process!InQueue
<1>4. Process!RecordsComplete
  <2> SUFFICES ASSUME NEW r \in Requests, NEW s \in Sinks, req[r] = Process!Done, r \notin kept[s], s \in open
               PROVE  r \in panicked /\ poolClosed # {}
    BY DEF Process!RecordsComplete, Sinks
  <2>1. \E i \in 1..6 : After[i] = s
    <3>1. After[3] = "metrics" /\ After[4] = "recorder" /\ After[5] = "audit" /\ After[6] = "exporter"
      BY DEF After, Process!After
    <3> QED
      BY <3>1 DEF Sinks, Process!Sinks
  <2>2. req[r] = 7
    BY DEF Process!Done, Process!After
  <2> QED
    BY <2>1, <2>2 DEF TailsKept
<1> QED
  BY <1>1, <1>2, <1>3, <1>4 DEF ShutdownSound

\* However requests, pools, the signal goroutine and main's cleanups interleave:
\* samples are scored before their stores close and before the process exits, the
\* categories of dropped samples are forgotten, and a request leaves all its
\* records: for any number of requests and workers and any queue depth
\* (cmd/nexus/main.go:130-180, cmd/nexus/server.go).
THEOREM ProcessShutdownSound == MCSpec => []ShutdownSound
<1>1. MCInit => ProcessInv
  BY ProcessStarts DEF MCInit
<1>2. ProcessInv /\ [MCNext]_allVars => ProcessInv'
  <2> SUFFICES ASSUME ProcessInv, [MCNext]_allVars PROVE ProcessInv'
    OBVIOUS
  <2>1. CASE Process!Next
    BY <2>1, ProcessTypeStep, PoolsStep, TurnStep, TailsStep DEF ProcessInv
  <2>2. CASE UNCHANGED processVars
    BY <2>2 DEF processVars, ProcessInv, ProcessTypes, NothingLost, NothingLeaks, InTurn, TailsKept,
                Underway, Waits, InHand, Process!Idle
  <2> QED
    BY <2>1, <2>2 DEF MCNext, allVars
<1> QED
  BY <1>1, <1>2, ShutdownFollows, PTL DEF MCSpec

-----------------------------------------------------------------------------
\* The background writers.

\* A property of 0 that every number hands on to the next holds of all: induction with
\* the property as a set.
LEMMA ByInduction ==
  ASSUME NEW T, 0 \in T, \A n \in Nat : n \in T => n + 1 \in T
  PROVE  \A n \in Nat : n \in T
<1> SUFFICES ASSUME Nat \ T # {} PROVE FALSE
  OBVIOUS
<1>1. PICK x \in Nat \ T : \A y \in Nat \ T : ~ (<<y, x>> \in OpToRel(<, Nat))
  BY WFMin, NatLessThanWellFounded
<1>2. \A y \in Nat \ T : ~ (y < x)
  BY <1>1 DEF OpToRel
<1>3. x - 1 \in Nat /\ x - 1 \in T
  BY <1>2
<1> QED
  BY <1>3

-----------------------------------------------------------------------------
\* What a sequence of records takes on disk.
Runs(s, g) == g = [i \in 0..Len(s) |-> IF i = 0 THEN 0 ELSE g[i - 1] + Size[s[i]]]

\* Such a running total is a number at every place.
LEMMA RunTyped ==
  ASSUME WritersAssumption, NEW s \in Seq(Records), NEW g, Runs(s, g)
  PROVE  /\ g \in [0..Len(s) -> Nat]
         /\ g[0] = 0
         /\ \A i \in 1..Len(s) : g[i] = g[i - 1] + Size[s[i]]
<1>1. g[0] = 0 /\ \A i \in 1..Len(s) : g[i] = g[i - 1] + Size[s[i]]
  BY DEF Runs
<1> DEFINE T == {i \in Nat : i <= Len(s) => g[i] \in Nat}
<1>2. 0 \in T
  BY <1>1
<1>3. ASSUME NEW n \in Nat, n \in T PROVE n + 1 \in T
  <2> SUFFICES ASSUME n + 1 <= Len(s) PROVE g[n + 1] \in Nat
    OBVIOUS
  <2>1. s[n + 1] \in Records
    OBVIOUS
  <2>2. Size[s[n + 1]] \in Nat
    BY <2>1 DEF WritersAssumption
  <2>3. g[n + 1] = g[n] + Size[s[n + 1]] /\ g[n] \in Nat
    BY <1>1, <1>3
  <2> QED
    BY <2>2, <2>3
<1>4. \A i \in 0..Len(s) : g[i] \in Nat
  <2> HIDE DEF T
  <2>1. \A i \in Nat : i \in T
    BY <1>2, <1>3, ByInduction
  <2> QED
    BY <2>1 DEF T
<1> QED
  BY <1>1, <1>4 DEF Runs

\* Every sequence has a running total.
LEMMA RunExists ==
  ASSUME WritersAssumption
  PROVE  \A s \in Seq(Records) : \E g : Runs(s, g)
<1> DEFINE T == {n \in Nat : \A s \in Seq(Records) : Len(s) = n => \E g : Runs(s, g)}
<1>1. 0 \in T
  <2>1. ASSUME NEW s \in Seq(Records), Len(s) = 0 PROVE Runs(s, [i \in {0} |-> 0])
    BY <2>1 DEF Runs
  <2> QED
    BY <2>1
<1>2. ASSUME NEW n \in Nat, n \in T PROVE n + 1 \in T
  <2> SUFFICES ASSUME NEW s \in Seq(Records), Len(s) = n + 1 PROVE \E g : Runs(s, g)
    OBVIOUS
  <2> DEFINE t == SubSeq(s, 1, n)
  <2>1. t \in Seq(Records) /\ Len(t) = n /\ \A i \in 1..n : t[i] = s[i]
    OBVIOUS
  <2>2. PICK g : Runs(t, g)
    BY <1>2, <2>1
  <2>3. g \in [0..n -> Nat] /\ g[0] = 0 /\ \A i \in 1..n : g[i] = g[i - 1] + Size[s[i]]
    <3> HIDE DEF t
    <3>1. g \in [0..Len(t) -> Nat] /\ g[0] = 0 /\ \A i \in 1..Len(t) : g[i] = g[i - 1] + Size[t[i]]
      BY <2>1, <2>2, RunTyped
    <3> QED
      BY <2>1, <3>1
  <2> DEFINE h == [i \in 0..n + 1 |-> IF i <= n THEN g[i] ELSE g[n] + Size[s[n + 1]]]
  <2>4. ASSUME NEW i \in 0..n + 1 PROVE h[i] = IF i = 0 THEN 0 ELSE h[i - 1] + Size[s[i]]
    <3>1. CASE i = 0
      BY <2>3, <3>1
    <3>2. CASE i \in 1..n
      BY <2>3, <3>2
    <3>3. CASE i = n + 1
      BY <2>3, <3>3
    <3> QED
      BY <3>1, <3>2, <3>3
  <2>5. Runs(s, h)
    BY <2>4 DEF Runs
  <2> QED
    BY <2>5
<1>3. \A n \in Nat : n \in T
  <2> HIDE DEF T
  <2> QED
    BY <1>1, <1>2, ByInduction
<1> QED
  BY <1>3

\* And only one.
LEMMA RunOnce ==
  ASSUME WritersAssumption, NEW s \in Seq(Records), NEW g, NEW h, Runs(s, g), Runs(s, h)
  PROVE  g = h
<1> DEFINE T == {i \in Nat : i <= Len(s) => g[i] = h[i]}
<1>1. 0 \in T
  BY RunTyped
<1>2. ASSUME NEW n \in Nat, n \in T PROVE n + 1 \in T
  BY <1>2, RunTyped
<1>3. \A i \in Nat : i \in T
  <2> HIDE DEF T
  <2> QED
    BY <1>1, <1>2, ByInduction
<1>4. \A i \in 0..Len(s) : g[i] = h[i]
  <2>1. \A i \in 0..Len(s) : i \in Nat /\ i <= Len(s)
    OBVIOUS
  <2> QED
    BY <1>3, <2>1
<1>5. g \in [0..Len(s) -> Nat] /\ h \in [0..Len(s) -> Nat]
  BY RunTyped
<1> DEFINE D == 0..Len(s)
<1>6. (\A i \in D : g[i] = h[i]) /\ g \in [D -> Nat] /\ h \in [D -> Nat]
  BY <1>4, <1>5
<1> HIDE DEF T, D
<1> QED
  BY <1>6

\* Bytes is the last of the running total.
LEMMA BytesIsRun ==
  ASSUME WritersAssumption, NEW s \in Seq(Records), NEW g, Runs(s, g)
  PROVE  Bytes(s) = g[Len(s)]
<1> DEFINE sum == CHOOSE f : f = [i \in 0..Len(s) |-> IF i = 0 THEN 0 ELSE f[i - 1] + Size[s[i]]]
<1>1. Runs(s, sum)
  BY DEF Runs
<1>2. sum = g
  BY <1>1, RunOnce
<1>3. Bytes(s) = sum[Len(s)]
  BY DEF Bytes
<1> QED
  BY <1>2, <1>3

\* Bytes of nothing is 0, and a record adds its own size.
LEMMA BytesBasic ==
  ASSUME WritersAssumption
  PROVE  /\ Bytes(<<>>) = 0
         /\ \A s \in Seq(Records) : Bytes(s) \in Nat
         /\ \A s \in Seq(Records), r \in Records : Bytes(Append(s, r)) = Bytes(s) + Size[r]
<1>1. Bytes(<<>>) = 0
  <2> DEFINE e == <<>>
  <2>1. e \in Seq(Records) /\ Len(e) = 0
    OBVIOUS
  <2> HIDE DEF e
  <2>2. PICK g : Runs(e, g)
    BY <2>1, RunExists
  <2>3. Bytes(e) = g[Len(e)]
    BY <2>1, <2>2, BytesIsRun
  <2>4. g[0] = 0
    BY <2>1, <2>2, RunTyped
  <2>5. Bytes(e) = 0
    BY <2>1, <2>3, <2>4
  <2> QED
    BY <2>5 DEF e
<1>2. ASSUME NEW s \in Seq(Records) PROVE Bytes(s) \in Nat
  <2>1. PICK g : Runs(s, g)
    BY RunExists
  <2>2. Bytes(s) = g[Len(s)]
    BY <2>1, BytesIsRun
  <2>3. g \in [0..Len(s) -> Nat]
    BY <2>1, RunTyped
  <2> QED
    BY <2>2, <2>3
<1>3. ASSUME NEW s \in Seq(Records), NEW r \in Records PROVE Bytes(Append(s, r)) = Bytes(s) + Size[r]
  <2> DEFINE t == Append(s, r)
  <2> DEFINE n == Len(s)
  <2>1. t \in Seq(Records) /\ Len(t) = n + 1 /\ t[n + 1] = r /\ \A i \in 1..n : t[i] = s[i]
    OBVIOUS
  <2>2. PICK h : Runs(t, h)
    BY <2>1, RunExists
  <2> DEFINE g == [i \in 0..n |-> h[i]]
  <2>3. h \in [0..n + 1 -> Nat] /\ h[0] = 0 /\ \A i \in 1..n + 1 : h[i] = h[i - 1] + Size[t[i]]
    <3> HIDE DEF t
    <3>1. h \in [0..Len(t) -> Nat] /\ h[0] = 0 /\ \A i \in 1..Len(t) : h[i] = h[i - 1] + Size[t[i]]
      BY <2>1, <2>2, RunTyped
    <3> QED
      BY <2>1, <3>1
  <2>4. Runs(s, g)
    <3>1. ASSUME NEW i \in 0..n PROVE g[i] = IF i = 0 THEN 0 ELSE g[i - 1] + Size[s[i]]
      BY <2>1, <2>3
    <3> QED
      BY <3>1 DEF Runs
  <2>5. Bytes(s) = g[n]
    <3> HIDE DEF g
    <3> QED
      BY <2>4, BytesIsRun
  <2>6. Bytes(t) = h[n + 1]
    <3> HIDE DEF t
    <3> QED
      BY <2>1, <2>2, BytesIsRun
  <2>7. n \in Nat /\ g[n] = h[n] /\ h[n + 1] = h[n] + Size[t[n + 1]]
    <3>1. n \in Nat /\ n \in 0..n /\ n + 1 \in 1..n + 1 /\ (n + 1) - 1 = n
      OBVIOUS
    <3>2. h[n + 1] = h[n] + Size[t[n + 1]]
      <4> HIDE DEF t, n
      <4> QED
        BY <2>3, <3>1
    <3>3. g[n] = h[n]
      <4> HIDE DEF t, n
      <4> QED
        BY <3>1
    <3> QED
      BY <3>1, <3>2, <3>3
  <2>8. Bytes(t) = Bytes(s) + Size[r]
    <3> HIDE DEF t, n, g
    <3> QED
      BY <2>1, <2>5, <2>6, <2>7
  <2> QED
    BY <2>8 DEF t
<1> QED
  BY <1>1, <1>2, <1>3

\* Bytes of two sequences together is the sum.
LEMMA BytesConcat ==
  ASSUME WritersAssumption, NEW s \in Seq(Records)
  PROVE  \A t \in Seq(Records) : Bytes(s \o t) = Bytes(s) + Bytes(t)
<1> DEFINE T == {n \in Nat : \A t \in Seq(Records) : Len(t) = n => Bytes(s \o t) = Bytes(s) + Bytes(t)}
<1>1. 0 \in T
  <2> SUFFICES ASSUME NEW t \in Seq(Records), Len(t) = 0 PROVE Bytes(s \o t) = Bytes(s) + Bytes(t)
    OBVIOUS
  <2>1. t = <<>> /\ s \o t = s
    OBVIOUS
  <2> QED
    BY <2>1, BytesBasic
<1>2. ASSUME NEW n \in Nat, n \in T PROVE n + 1 \in T
  <2> SUFFICES ASSUME NEW t \in Seq(Records), Len(t) = n + 1 PROVE Bytes(s \o t) = Bytes(s) + Bytes(t)
    OBVIOUS
  <2> DEFINE u == SubSeq(t, 1, n)
  <2> DEFINE r == t[n + 1]
  <2>1. u \in Seq(Records) /\ Len(u) = n /\ r \in Records /\ t = Append(u, r)
    OBVIOUS
  <2>2. s \o t = Append(s \o u, r) /\ s \o u \in Seq(Records)
    <3> HIDE DEF u, r
    <3> QED
      BY <2>1
  <2>3. Bytes(s \o u) = Bytes(s) + Bytes(u)
    BY <1>2, <2>1
  <2>4. Bytes(t) = Bytes(u) + Size[r] /\ Bytes(s \o t) = Bytes(s \o u) + Size[r]
    <3> HIDE DEF u, r
    <3> QED
      BY <2>1, <2>2, BytesBasic
  <2>5. Bytes(s) \in Nat /\ Bytes(u) \in Nat /\ Size[r] \in Nat
    <3> HIDE DEF u, r
    <3> QED
      BY <2>1, BytesBasic DEF WritersAssumption
  <2> HIDE DEF u, r
  <2> QED
    BY <2>3, <2>4, <2>5
<1>3. \A n \in Nat : n \in T
  <2> HIDE DEF T
  <2> QED
    BY <1>1, <1>2, ByInduction
<1> QED
  BY <1>3

\* A line of the file is never empty.
LEMMA BytesPositive ==
  ASSUME WritersAssumption, NEW s \in Seq(Records), s # <<>>
  PROVE  Bytes(s) > 0
<1> DEFINE n == Len(s)
<1> DEFINE u == SubSeq(s, 1, n - 1)
<1>1. u \in Seq(Records) /\ s[n] \in Records /\ s = Append(u, s[n])
  OBVIOUS
<1> HIDE DEF u, n
<1>2. Bytes(Append(u, s[n])) = Bytes(u) + Size[s[n]] /\ Bytes(u) \in Nat
  BY <1>1, BytesBasic
<1>3. Size[s[n]] \in Nat \ {0}
  BY <1>1 DEF WritersAssumption
<1>4. Bytes(s) = Bytes(Append(u, s[n]))
  BY <1>1, Zenon
<1> QED
  BY <1>2, <1>3, <1>4

\* The last line of a sequence aside, what is written before it.
LEMMA BytesFront ==
  ASSUME WritersAssumption, NEW s \in Seq(Records), NEW r \in Records
  PROVE  Bytes(SubSeq(Append(s, r), 1, Len(Append(s, r)) - 1)) = Bytes(s)
<1>1. SubSeq(Append(s, r), 1, Len(Append(s, r)) - 1) = s
  OBVIOUS
<1> QED
  BY <1>1

\* What is put at the end of a sequence is put at the end of what it follows.
LEMMA JoinEnd ==
  ASSUME NEW Kind, NEW s \in Seq(Kind), NEW u \in Seq(Kind), NEW x \in Kind
  PROVE  s \o Append(u, x) = Append(s \o u, x) /\ s \o u \in Seq(Kind)
<1> DEFINE a == s \o Append(u, x)
           b == Append(s \o u, x)
<1>1. a \in Seq(Kind) /\ b \in Seq(Kind) /\ s \o u \in Seq(Kind)
  OBVIOUS
<1>2. Len(a) = Len(s) + Len(u) + 1 /\ Len(b) = Len(s) + Len(u) + 1
  OBVIOUS
<1>3. ASSUME NEW i \in 1 .. Len(s) + Len(u) + 1 PROVE a[i] = b[i]
  <2>1. CASE i <= Len(s)
    BY <2>1
  <2>2. CASE i > Len(s) /\ i <= Len(s) + Len(u)
    BY <2>2
  <2>3. CASE i = Len(s) + Len(u) + 1
    BY <2>3
  <2> QED
    BY <2>1, <2>2, <2>3
<1> HIDE DEF a, b
<1>4. a = b
  BY <1>1, <1>2, <1>3
<1> QED
  BY <1>1, <1>4 DEF a, b

\* A sequence less the record just put at its end is what it was.
LEMMA FrontOfAppend ==
  ASSUME NEW Kind, NEW s \in Seq(Kind), NEW x \in Kind
  PROVE  SubSeq(Append(s, x), 1, Len(Append(s, x)) - 1) = s
OBVIOUS

\* A file that fits does so at every earlier length.
LEMMA FitsPrefix ==
  ASSUME WritersAssumption, NEW s \in Seq(Records), NEW t \in Seq(Records), FitsCap(s \o t)
  PROVE  FitsCap(s)
<1>1. CASE t = <<>>
  <2>1. s \o t = s
    BY <1>1
  <2> QED
    BY <2>1, Zenon
<1>2. CASE t # <<>>
  <2> DEFINE n == Len(t)
  <2> DEFINE u == SubSeq(t, 1, n - 1)
  <2>1. u \in Seq(Records) /\ t[n] \in Records /\ t = Append(u, t[n])
    BY <1>2
  <2>2. SubSeq(s \o t, 1, Len(s \o t) - 1) = s \o u
    <3> HIDE DEF u, n
    <3>1. PICK x \in Records : t = Append(u, x)
      BY <2>1, Zenon
    <3>2. s \o Append(u, x) = Append(s \o u, x) /\ s \o u \in Seq(Records)
      BY <2>1, JoinEnd, Zenon
    <3>3. SubSeq(Append(s \o u, x), 1, Len(Append(s \o u, x)) - 1) = s \o u
      BY <3>2, FrontOfAppend, Zenon
    <3> QED
      BY <3>1, <3>2, <3>3, Zenon
  <2> HIDE DEF u, n
  <2>3. Bytes(s \o t) = Bytes(s) + Bytes(t) /\ Bytes(s \o u) = Bytes(s) + Bytes(u)
    BY <2>1, BytesConcat
  <2>4. Bytes(s) \in Nat /\ Bytes(t) \in Nat /\ Bytes(u) \in Nat
    BY <2>1, BytesBasic
  <2>5. \/ Bytes(s) + Bytes(t) <= Larger(MaxBytes, BufferSize)
        \/ Bytes(s) + Bytes(u) < BufferSize
    BY <2>2, <2>3 DEF FitsCap
  <2>6. Bytes(s) <= Larger(MaxBytes, BufferSize)
    BY <2>4, <2>5 DEF Larger, WritersAssumption
  <2> QED
    BY <2>6 DEF FitsCap
<1> QED
  BY <1>1, <1>2

-----------------------------------------------------------------------------
\* The places of a set in ascending order.
Place(W, i) == CHOOSE k \in W : Cardinality({j \in W : j <= k}) = i

\* q lists W in ascending order.
Lists(q, m, W) ==
  /\ q \in [1..m -> W]
  /\ \A i \in 1..m, j \in 1..m : i < j => q[i] < q[j]
  /\ \A k \in W : \E i \in 1..m : q[i] = k

\* An ascending list of a set finds its places.
LEMMA ListedPlaces ==
  ASSUME NEW W \in SUBSET Int, NEW m \in Nat, NEW q, Lists(q, m, W)
  PROVE  Cardinality(W) = m /\ \A i \in 1..m : Place(W, i) = q[i]
<1>1. ASSUME NEW i \in 0..m, NEW T, T = {k \in W : \E j \in 1..i : q[j] = k}
      PROVE  Cardinality(T) = i
  <2> DEFINE f == [j \in 1..i |-> q[j]]
  <2>1. f \in Bijection(1..i, T)
    <3>1. f \in [1..i -> T]
      BY <1>1 DEF Lists
    <3>2. \A a, b \in 1..i : f[a] = f[b] => a = b
      <4> SUFFICES ASSUME NEW a \in 1..i, NEW b \in 1..i, f[a] = f[b] PROVE a = b
        OBVIOUS
      <4>1. q[a] = q[b]
        OBVIOUS
      <4> HIDE DEF f
      <4>2. a \in 1..m /\ b \in 1..m
        OBVIOUS
      <4>3. q[a] \in Int /\ q[b] \in Int
        BY <4>2 DEF Lists
      <4>4. (a < b => q[a] < q[b]) /\ (b < a => q[b] < q[a])
        BY <4>2 DEF Lists
      <4> QED
        BY <4>1, <4>2, <4>3, <4>4
    <3>3. \A t \in T : \E a \in 1..i : f[a] = t
      BY <1>1
    <3> QED
      BY <3>1, <3>2, <3>3 DEF Bijection, Injection, Surjection, IsInjective
  <2>2. ExistsBijection(1..i, T)
    BY <2>1 DEF ExistsBijection
  <2>3. IsFiniteSet(1..i) /\ Cardinality(1..i) = i
    BY FS_Interval
  <2> QED
    BY <2>2, <2>3, FS_Bijection
<1>2. Cardinality(W) = m
  <2>1. W = {k \in W : \E j \in 1..m : q[j] = k}
    BY DEF Lists
  <2> QED
    BY <1>1, <2>1
<1>3. ASSUME NEW i \in 1..m PROVE Cardinality({j \in W : j <= q[i]}) = i
  <2>1. {j \in W : j <= q[i]} = {k \in W : \E j \in 1..i : q[j] = k}
    <3>1. ASSUME NEW k \in W, k <= q[i] PROVE \E j \in 1..i : q[j] = k
      <4>1. PICK j \in 1..m : q[j] = k
        BY DEF Lists
      <4>2. ~ (i < j)
        <5>1. i < j => q[i] < q[j] /\ q[i] \in Int /\ q[j] \in Int
          BY DEF Lists
        <5> QED
          BY <3>1, <4>1, <5>1
      <4> QED
        BY <4>1, <4>2
    <3>2. ASSUME NEW k \in W, NEW j \in 1..i, q[j] = k PROVE k <= q[i]
      <4>1. j \in 1..m
        OBVIOUS
      <4>2. q[i] \in Int
        BY DEF Lists
      <4>3. j < i => q[j] < q[i]
        BY <4>1 DEF Lists
      <4> QED
        BY <3>2, <4>1, <4>2, <4>3
    <3> QED
      BY <3>1, <3>2
  <2> QED
    BY <1>1, <2>1
<1>4. ASSUME NEW i \in 1..m PROVE Place(W, i) = q[i]
  <2>1. ASSUME NEW k \in W, Cardinality({j \in W : j <= k}) = i PROVE k = q[i]
    <3>1. PICK a \in 1..m : q[a] = k
      BY DEF Lists
    <3>2. a = i
      BY <1>3, <2>1, <3>1
    <3> QED
      BY <3>1, <3>2
  <2>2. q[i] \in W /\ Cardinality({j \in W : j <= q[i]}) = i
    BY <1>3 DEF Lists
  <2>3. Place(W, i) \in W /\ Cardinality({j \in W : j <= Place(W, i)}) = i
    BY <2>2, Zenon DEF Place
  <2> QED
    BY <2>1, <2>3
<1> QED
  BY <1>2, <1>4

\* Every finite set of numbers can be listed.
LEMMA ListExists ==
  ASSUME NEW n \in Nat, NEW W \in SUBSET (1..n)
  PROVE  \E q : Lists(q, Cardinality(W), W)
<1> DEFINE c == Cardinality(W)
<1> DEFINE Upto(k) == {j \in W : j <= k}
<1>1. IsFiniteSet(W) /\ c \in Nat
  <2>1. IsFiniteSet(1..n)
    BY FS_Interval
  <2>2. IsFiniteSet(W)
    BY <2>1, FS_Subset
  <2> QED
    BY <2>2, FS_CardinalityType
<1>2. ASSUME NEW k \in W PROVE IsFiniteSet(Upto(k)) /\ Cardinality(Upto(k)) \in 1..c
  <2>1. IsFiniteSet(Upto(k)) /\ Cardinality(Upto(k)) <= c
    BY <1>1, FS_Subset
  <2>2. Cardinality(Upto(k)) \in Nat /\ Upto(k) # {}
    BY <2>1, FS_CardinalityType
  <2>3. Cardinality(Upto(k)) # 0
    BY <2>1, <2>2, FS_EmptySet
  <2> QED
    BY <1>1, <2>1, <2>2, <2>3
<1>3. ASSUME NEW j \in W, NEW k \in W, j < k PROVE Cardinality(Upto(j)) < Cardinality(Upto(k))
  <2>1. Upto(j) \in SUBSET Upto(k) /\ k \in Upto(k) /\ k \notin Upto(j)
    <3>1. \A x \in W : x \in Int
      OBVIOUS
    <3>2. \A x \in W : x <= j => x <= k
      BY <1>3, <3>1
    <3>3. ~ (k <= j) /\ k <= k
      BY <1>3, <3>1
    <3> QED
      BY <3>2, <3>3
  <2>2. Cardinality(Upto(j)) <= Cardinality(Upto(k)) /\ Cardinality(Upto(j)) # Cardinality(Upto(k))
    BY <1>2, <2>1, FS_Subset
  <2> QED
    BY <1>2, <2>2
<1> DEFINE rank == [k \in W |-> Cardinality(Upto(k))]
<1>4. rank \in Injection(W, 1..c)
  <2>1. rank \in [W -> 1..c]
    BY <1>2
  <2>2. \A a, b \in W : rank[a] = rank[b] => a = b
    BY <1>2, <1>3
  <2> QED
    BY <2>1, <2>2 DEF Injection, IsInjective
<1>5. rank \in Surjection(W, 1..c)
  <2>1. IsFiniteSet(1..c) /\ Cardinality(1..c) = c
    BY <1>1, FS_Interval
  <2> HIDE DEF rank
  <2> QED
    BY <1>4, <2>1, FS_Injection
<1>6. \A i \in 1..c : \E k \in W : rank[k] = i
  <2> HIDE DEF rank
  <2> QED
    BY <1>5 DEF Surjection
<1> DEFINE q == [i \in 1..c |-> CHOOSE k \in W : rank[k] = i]
<1>7. ASSUME NEW i \in 1..c PROVE q[i] \in W /\ rank[q[i]] = i
  <2>1. q[i] = CHOOSE k \in W : rank[k] = i
    OBVIOUS
  <2> HIDE DEF q, rank
  <2> QED
    BY <1>6, <2>1
<1>8. Lists(q, c, W)
  <2>1. q \in [1..c -> W]
    BY <1>7
  <2>2. ASSUME NEW i \in 1..c, NEW j \in 1..c, i < j PROVE q[i] < q[j]
    <3>1. q[i] \in W /\ q[j] \in W /\ rank[q[i]] = i /\ rank[q[j]] = j
      BY <1>7
    <3> HIDE DEF q
    <3>2. q[j] < q[i] => Cardinality(Upto(q[j])) < Cardinality(Upto(q[i]))
      BY <1>3, <3>1
    <3>3. Cardinality(Upto(q[i])) = i /\ Cardinality(Upto(q[j])) = j
      BY <3>1
    <3>4. q[i] \in Int /\ q[j] \in Int
      <4> HIDE DEF rank
      <4>1. \A x \in W : x \in Int
        OBVIOUS
      <4> QED
        BY <3>1, <4>1
    <3>5. ~ (q[j] < q[i])
      BY <2>2, <3>2, <3>3
    <3>6. q[i] # q[j]
      <4> HIDE DEF rank
      <4> QED
        BY <2>2, <3>1
    <3> QED
      BY <3>4, <3>5, <3>6
  <2>3. ASSUME NEW k \in W PROVE \E i \in 1..c : q[i] = k
    <3>1. rank[k] \in 1..c
      BY <1>2
    <3>2. q[rank[k]] \in W /\ rank[q[rank[k]]] = rank[k]
      BY <1>7, <3>1
    <3>3. q[rank[k]] = k
      <4> HIDE DEF q, rank
      <4> QED
        BY <1>4, <3>2 DEF Injection, IsInjective
    <3> QED
      BY <3>1, <3>3
  <2> HIDE DEF q
  <2> QED
    BY <2>1, <2>2, <2>3 DEF Lists
<1> QED
  BY <1>8

\* What a set of places picks out of a sequence, in order.
Picked(s, W) == [i \in 1..Cardinality(W) |-> s[Place(W, i)]]

\* s is what a holds after its first n elements.
Follows(a, n, s) == \A i \in 1..Len(s) : s[i] = a[n + i]

\* Picking along an ascending list of the places.
LEMMA PickedList ==
  ASSUME NEW W \in SUBSET Int, NEW m \in Nat, NEW q, Lists(q, m, W), NEW s
  PROVE  Picked(s, W) = [i \in 1..m |-> s[q[i]]]
<1>1. Cardinality(W) = m /\ \A i \in 1..m : Place(W, i) = q[i]
  BY ListedPlaces
<1> QED
  BY <1>1 DEF Picked

\* What is picked out of a stretch of a sequence is picked out of the sequence.
LEMMA PickedShift ==
  ASSUME NEW a, NEW s, NEW n \in Nat, Len(s) \in Nat, Follows(a, n, s)
  PROVE  \A X \in SUBSET (1..Len(s)) :
           \E T \in SUBSET (n + 1 .. n + Len(s)) : Picked(s, X) = Picked(a, T)
<1> TAKE W \in SUBSET (1..Len(s))
<1> DEFINE m == Len(s)
<1>0. m \in Nat /\ \A i \in 1..m : s[i] = a[n + i]
  BY DEF Follows
<1> HIDE DEF m
<1> DEFINE c == Cardinality(W)
<1>1. c \in Nat
  <2>1. IsFiniteSet(1..m) /\ W \in SUBSET (1..m)
    BY <1>0, FS_Interval DEF m
  <2> QED
    BY <2>1, FS_Subset, FS_CardinalityType
<1>2. PICK q : Lists(q, c, W)
  BY <1>0, ListExists DEF m
<1> DEFINE p == [i \in 1..c |-> n + q[i]]
<1> DEFINE T == {n + k : k \in W}
<1> HIDE DEF c
<1>3. T \in SUBSET (n + 1 .. n + m)
  BY <1>0 DEF m
<1>4. Lists(p, c, T)
  <2>1. \A i \in 1..c : q[i] \in W /\ q[i] \in Int
    <3>1. \A i \in 1..c : q[i] \in W
      BY <1>2 DEF Lists
    <3>2. \A k \in W : k \in Int
      BY <1>0 DEF m
    <3> QED
      BY <3>1, <3>2
  <2>2. p \in [1..c -> T]
    BY <2>1
  <2>3. ASSUME NEW i \in 1..c, NEW j \in 1..c, i < j PROVE p[i] < p[j]
    <3>1. q[i] < q[j]
      BY <1>2, <2>3 DEF Lists
    <3> QED
      BY <2>1, <3>1
  <2>4. ASSUME NEW t \in T PROVE \E i \in 1..c : p[i] = t
    <3>1. PICK k \in W : t = n + k
      OBVIOUS
    <3>2. PICK i \in 1..c : q[i] = k
      BY <1>2 DEF Lists
    <3> QED
      BY <3>1, <3>2
  <2> HIDE DEF p, T
  <2> QED
    BY <2>2, <2>3, <2>4 DEF Lists
<1>5. Picked(s, W) = [i \in 1..c |-> s[q[i]]]
  BY <1>1, <1>2, PickedList
<1>6. Picked(a, T) = [i \in 1..c |-> a[p[i]]]
  <2>1. T \in SUBSET Int
    BY <1>3
  <2> HIDE DEF p, T
  <2> QED
    BY <1>1, <1>4, <2>1, PickedList
<1>7. ASSUME NEW i \in 1..c PROVE s[q[i]] = a[p[i]]
  <2>1. q[i] \in 1..m
    BY <1>2 DEF Lists, m
  <2> QED
    BY <1>0, <2>1
<1>8. Picked(s, W) = Picked(a, T)
  <2> HIDE DEF p, T
  <2> QED
    BY <1>5, <1>6, <1>7
<1> QED
  BY <1>3, <1>8 DEF m

\* The beginnings of two stretches that follow each other are picked.
LEMMA PickedTwice ==
  ASSUME NEW a, NEW u \in Seq(Records), NEW v \in Seq(Records), NEW n \in Nat,
         Follows(a, n, u), Follows(a, n + Len(u), v),
         NEW j \in 0..Len(u), NEW k \in 0..Len(v)
  PROVE  \E T \in SUBSET (n + 1 .. n + Len(u) + Len(v)) :
           SubSeq(u, 1, j) \o SubSeq(v, 1, k) = Picked(a, T)
<1> DEFINE w == SubSeq(u, 1, j) \o SubSeq(v, 1, k)
<1> DEFINE p == [i \in 1..j + k |-> IF i <= j THEN n + i ELSE n + Len(u) + (i - j)]
<1> DEFINE T == (n + 1 .. n + j) \cup (n + Len(u) + 1 .. n + Len(u) + k)
<1>1. T \in SUBSET (n + 1 .. n + Len(u) + Len(v)) /\ T \in SUBSET Int
  OBVIOUS
<1>2. Lists(p, j + k, T)
  <2>1. ASSUME NEW i \in 1..j + k PROVE p[i] \in T
    <3>1. CASE i <= j
      BY <3>1
    <3>2. CASE i > j
      BY <3>2
    <3> QED
      BY <3>1, <3>2
  <2>2. ASSUME NEW x \in 1..j + k, NEW y \in 1..j + k, x < y PROVE p[x] < p[y]
    BY <2>2
  <2>3. ASSUME NEW t \in T PROVE \E i \in 1..j + k : p[i] = t
    <3>1. CASE t \in n + 1 .. n + j
      <4>1. t - n \in 1..j + k /\ p[t - n] = t
        BY <3>1
      <4> QED
        BY <4>1
    <3>2. CASE t \in n + Len(u) + 1 .. n + Len(u) + k
      <4>1. t - n - Len(u) + j \in 1..j + k /\ p[t - n - Len(u) + j] = t
        BY <3>2
      <4> QED
        BY <4>1
    <3> QED
      BY <3>1, <3>2
  <2>4. p \in [1..j + k -> T]
    <3> HIDE DEF T
    <3> QED
      BY <2>1
  <2> HIDE DEF p, T
  <2> QED
    BY <2>2, <2>3, <2>4 DEF Lists
<1>3. Picked(a, T) = [i \in 1..j + k |-> a[p[i]]]
  <2> HIDE DEF p, T
  <2> QED
    BY <1>1, <1>2, PickedList
<1>4. w = [i \in 1..j + k |-> a[p[i]]]
  <2>1. w \in Seq(Records) /\ Len(w) = j + k
    OBVIOUS
  <2>2. ASSUME NEW i \in 1..j + k PROVE w[i] = a[p[i]]
    <3>1. CASE i <= j
      <4>1. w[i] = u[i] /\ i \in 1..Len(u) /\ p[i] = n + i
        BY <3>1
      <4>2. u[i] = a[n + i]
        BY <4>1 DEF Follows
      <4> HIDE DEF w, p
      <4> QED
        BY <4>1, <4>2
    <3>2. CASE i > j
      <4>1. w[i] = v[i - j] /\ i - j \in 1..Len(v)
        BY <3>2
      <4>2. v[i - j] = a[n + Len(u) + (i - j)]
        BY <4>1 DEF Follows
      <4>3. p[i] = n + Len(u) + (i - j)
        BY <3>2
      <4> HIDE DEF w, p
      <4> QED
        BY <4>1, <4>2, <4>3
    <3> QED
      BY <3>1, <3>2
  <2>3. w = [i \in 1..Len(w) |-> w[i]]
    <3> HIDE DEF w
    <3> QED
      BY <2>1
  <2> HIDE DEF w, p
  <2> QED
    BY <2>1, <2>2, <2>3
<1> QED
  BY <1>1, <1>3, <1>4

-----------------------------------------------------------------------------
\* The recorder's files.
LogTypes == [bw : {"ok", "failed", "stale"}, written : Nat, present : BOOLEAN,
             active : Seq(Records), rotated : Seq(Seq(Records))]

\* Eviction drops the oldest files and leaves at most the configured number.
LEMMA EvictDrops ==
  ASSUME WritersAssumption, NEW F \in Seq(Seq(Records))
  PROVE  /\ Evict(F) \in Seq(Seq(Records)) /\ Len(Evict(F)) <= KeepFiles
         /\ \E d \in 0..Len(F) : /\ Len(Evict(F)) = Len(F) - d
                                 /\ \A p \in 1..Len(F) - d : Evict(F)[p] = F[p + d]
<1>1. KeepFiles \in Nat \ {0}
  BY DEF KeepFiles, Larger, WritersAssumption
<1>2. CASE Len(F) <= KeepFiles
  <2>1. Evict(F) = F
    BY <1>2 DEF Evict
  <2> QED
    BY <1>2, <2>1
<1>3. CASE ~ (Len(F) <= KeepFiles)
  <2> DEFINE d == Len(F) - KeepFiles
  <2>1. Evict(F) = SubSeq(F, d + 1, Len(F))
    BY <1>3, <1>1 DEF Evict
  <2>2. d \in 1..Len(F) /\ KeepFiles = Len(F) - d
    BY <1>1, <1>3
  <2>3. /\ SubSeq(F, d + 1, Len(F)) \in Seq(Seq(Records))
        /\ Len(SubSeq(F, d + 1, Len(F))) = Len(F) - d
        /\ \A p \in 1..Len(F) - d : SubSeq(F, d + 1, Len(F))[p] = F[p + d]
    <3> HIDE DEF d
    <3> QED
      BY <2>2
  <2> HIDE DEF d
  <2> QED
    BY <2>1, <2>2, <2>3
<1> QED
  BY <1>2, <1>3

\* A rotation sets the file aside and evicts, or leaves the lines where they are.
LEMMA RotatedMeans ==
  ASSUME WritersAssumption, NEW f \in LogTypes, NEW bad \in BOOLEAN, NEW g \in Rotated(f, bad)
  PROVE  /\ g \in LogTypes
         /\ \/ g.rotated = f.rotated /\ g.active = f.active
            \/ g.rotated = Evict(Append(f.rotated, f.active)) /\ g.active = <<>>
<1> DEFINE R == Evict(Append(f.rotated, f.active))
<1>1. R \in Seq(Seq(Records))
  <2>1. Append(f.rotated, f.active) \in Seq(Seq(Records))
    BY DEF LogTypes
  <2> QED
    BY <2>1, EvictDrops
<1> DEFINE renamed == [f EXCEPT !.rotated = R, !.active = <<>>]
<1> HIDE DEF R
<1>2. \/ g = f
      \/ g = [renamed EXCEPT !.bw = "ok", !.written = 0]
      \/ g = [renamed EXCEPT !.bw = "stale", !.present = FALSE]
      \/ g = [f EXCEPT !.bw = "ok"]
      \/ g = [f EXCEPT !.bw = "stale"]
      \/ g = [f EXCEPT !.bw = "ok", !.present = TRUE]
  BY DEF Rotated, R
<1>3. renamed \in LogTypes /\ renamed.rotated = R /\ renamed.active = <<>>
  <2>1. <<>> \in Seq(Records)
    OBVIOUS
  <2> QED
    BY <1>1, <2>1 DEF LogTypes
<1> HIDE DEF renamed
<1>4. CASE \/ g = [renamed EXCEPT !.bw = "ok", !.written = 0]
           \/ g = [renamed EXCEPT !.bw = "stale", !.present = FALSE]
  <2>1. CASE g = [renamed EXCEPT !.bw = "ok", !.written = 0]
    <3>1. g \in LogTypes
      BY <1>3, <2>1 DEF LogTypes
    <3>2. g.rotated = R /\ g.active = <<>>
      BY <1>3, <2>1 DEF LogTypes
    <3> QED
      BY <3>1, <3>2 DEF R
  <2>2. CASE g = [renamed EXCEPT !.bw = "stale", !.present = FALSE]
    <3>1. g \in LogTypes
      BY <1>3, <2>2 DEF LogTypes
    <3>2. g.rotated = R /\ g.active = <<>>
      BY <1>3, <2>2 DEF LogTypes
    <3> QED
      BY <3>1, <3>2 DEF R
  <2> QED
    BY <1>4, <2>1, <2>2
<1>5. CASE \/ g = f \/ g = [f EXCEPT !.bw = "ok"] \/ g = [f EXCEPT !.bw = "stale"]
           \/ g = [f EXCEPT !.bw = "ok", !.present = TRUE]
  BY <1>5 DEF LogTypes
<1> QED
  BY <1>2, <1>4, <1>5

\* A flush writes the beginning of what it is given, or tries a rotation instead.
LEMMA FlushedMeans ==
  ASSUME WritersAssumption, NEW f \in LogTypes, NEW s \in Seq(Records), NEW bad \in BOOLEAN,
         NEW o \in Flushed(f, s, bad)
  PROVE  /\ o.kept \in 0..Len(s) /\ o.file \in LogTypes
         /\ \/ /\ o.file.rotated = f.rotated
               /\ o.file.active = f.active \o SubSeq(s, 1, o.kept)
            \/ o.kept = 0 /\ o.file \in Rotated(f, bad)
<1>1. f.active \in Seq(Records) /\ f.written \in Nat /\ Bytes(s) \in Nat
  BY BytesBasic DEF LogTypes
<1>2. CASE s = <<>>
  <2>1. o = [file |-> f, kept |-> 0]
    BY <1>2 DEF Flushed
  <2>2. f.active \o SubSeq(s, 1, 0) = f.active
    BY <1>1
  <2> QED
    BY <2>1, <2>2
<1>3. CASE s # <<>> /\ f.bw = "ok"
  <2>1. \/ o = [file |-> [f EXCEPT !.active = @ \o s, !.written = @ + Bytes(s)], kept |-> Len(s)]
        \/ \E k \in 0..Len(s) - 1 :
             o = [file |-> [f EXCEPT !.bw = "failed", !.active = @ \o SubSeq(s, 1, k)], kept |-> k]
    BY <1>3 DEF Flushed
  <2>2. CASE o = [file |-> [f EXCEPT !.active = @ \o s, !.written = @ + Bytes(s)], kept |-> Len(s)]
    <3>1. SubSeq(s, 1, Len(s)) = s /\ f.active \o s \in Seq(Records)
      BY <1>1
    <3>2. o.kept = Len(s) /\ o.file = [f EXCEPT !.active = @ \o s, !.written = @ + Bytes(s)]
      BY <2>2
    <3> DEFINE a == f.active \o s
    <3>3. a \in Seq(Records) /\ f.written + Bytes(s) \in Nat
      BY <1>1, <3>1
    <3>4. o.file = [f EXCEPT !.active = a, !.written = f.written + Bytes(s)]
      BY <3>2
    <3> HIDE DEF a
    <3>5. o.file \in LogTypes /\ o.file.rotated = f.rotated /\ o.file.active = a
      BY <3>3, <3>4 DEF LogTypes
    <3>6. Len(s) \in 0..Len(s)
      OBVIOUS
    <3>7. a = f.active \o SubSeq(s, 1, Len(s))
      BY <3>1, Zenon DEF a
    <3> QED
      BY <3>2, <3>5, <3>6, <3>7
  <2>3. ASSUME NEW k \in 0..Len(s) - 1,
               o = [file |-> [f EXCEPT !.bw = "failed", !.active = @ \o SubSeq(s, 1, k)], kept |-> k]
        PROVE  /\ o.kept \in 0..Len(s) /\ o.file \in LogTypes
               /\ o.file.rotated = f.rotated /\ o.file.active = f.active \o SubSeq(s, 1, o.kept)
    <3>1. f.active \o SubSeq(s, 1, k) \in Seq(Records)
      BY <1>1
    <3>2. o.kept = k /\ o.file = [f EXCEPT !.bw = "failed", !.active = @ \o SubSeq(s, 1, k)]
      BY <2>3
    <3> DEFINE a == f.active \o SubSeq(s, 1, k)
    <3>3. a \in Seq(Records) /\ o.file = [f EXCEPT !.bw = "failed", !.active = a]
      BY <3>1, <3>2
    <3> HIDE DEF a
    <3>4. o.file \in LogTypes /\ o.file.rotated = f.rotated /\ o.file.active = a
      BY <3>3 DEF LogTypes
    <3>5. o.file.active = f.active \o SubSeq(s, 1, o.kept)
      BY <3>2, <3>4, Zenon DEF a
    <3>6. o.kept \in 0..Len(s)
      BY <3>2
    <3> QED
      BY <3>4, <3>5, <3>6
  <2> QED
    BY <2>1, <2>2, <2>3
<1>4. CASE s # <<>> /\ f.bw # "ok"
  <2>1. \E g \in (IF MaxBytes > 0 THEN Rotated(f, bad) ELSE {f}) : o = [file |-> g, kept |-> 0]
    BY <1>4 DEF Flushed
  <2>2. CASE MaxBytes > 0
    <3>1. o.kept = 0 /\ o.file \in Rotated(f, bad)
      BY <2>1, <2>2
    <3> QED
      BY <3>1, RotatedMeans
  <2>3. CASE ~ (MaxBytes > 0)
    <3>1. o.kept = 0 /\ o.file = f
      BY <2>1, <2>3
    <3>2. f.active \o SubSeq(s, 1, 0) = f.active
      BY <1>1
    <3> QED
      BY <3>1, <3>2
  <2> QED
    BY <2>2, <2>3
<1> QED
  BY <1>2, <1>3, <1>4

\* What is done with the buffer before a line is added to it: h is the buffer with the
\* line in it, f the files, st what is stored, n how many records are settled so far.
Opened(r, b, h, f, st, n) ==
  \/ /\ h = Append(held, r) /\ f = log /\ st = stored /\ n = 0
     /\ ~RotationDue(r) /\ (held # <<>> => Bytes(held) + Size[r] <= batch)
  \/ /\ h = <<r>> /\ n = Len(held)
     /\ \E o \in Flushed(log, held, b) :
          /\ st = stored \o SubSeq(held, 1, o.kept)
          /\ \/ RotationDue(r) /\ f \in Rotated(o.file, b)
             \/ ~RotationDue(r) /\ held # <<>> /\ f = o.file

\* Whether the buffer is then written.
Kept(c, h, f, st, n) ==
  \/ /\ Bytes(h) >= batch
     /\ \E o \in Flushed(f, h, c) :
          /\ log' = o.file /\ held' = <<>> /\ stored' = st \o SubSeq(h, 1, o.kept)
          /\ settled' = settled + n + Len(h)
  \/ /\ ~(Bytes(h) >= batch)
     /\ log' = f /\ held' = h /\ stored' = st /\ settled' = settled + n

WroteLine(r) ==
  \E bad, b, c \in BOOLEAN :
    /\ Fault(bad) /\ (b => bad) /\ (c => bad)
    /\ \E h, f, st, n : Opened(r, b, h, f, st, n) /\ Kept(c, h, f, st, n)

\* A turn of the recorder's goroutine is those two halves.
LEMMA WriteLineMeans ==
  ASSUME WritersAssumption, NEW r \in Records, log \in LogTypes, batch \in Nat,
         held \in Seq(Records), stored \in Seq(Records), settled \in Nat, WriteLine(r)
  PROVE  WroteLine(r)
<1> DEFINE Part1(b1) ==
      IF RotationDue(r)
      THEN UNION {{[file |-> g, kept |-> o.kept] : g \in Rotated(o.file, b1)} :
                  o \in Flushed(log, held, b1)}
      ELSE {[file |-> log, kept |-> -1]}
<1> DEFINE h1 == IF RotationDue(r) THEN <<>> ELSE held
<1> DEFINE Part2(f, b2) ==
      IF h1 # <<>> /\ Bytes(h1) + Size[r] > batch THEN Flushed(f, h1, b2)
      ELSE {[file |-> f, kept |-> -1]}
<1> DEFINE H(o2) == IF o2.kept >= 0 THEN <<r>> ELSE Append(h1, r)
<1> DEFINE Gone(o1, o2) == IF o1.kept >= 0 \/ o2.kept >= 0 THEN held ELSE <<>>
<1> DEFINE K(o1, o2) == SubSeq(held, 1, Larger(o1.kept, Larger(o2.kept, 0)))
<1>1. PICK b1 \in BOOLEAN, b2 \in BOOLEAN, b3 \in BOOLEAN :
        /\ Cardinality({b \in {1, 2, 3} : <<b1, b2, b3>>[b]}) <= 1
        /\ Fault(b1 \/ b2 \/ b3)
        /\ \E o1 \in Part1(b1) : \E o2 \in Part2(o1.file, b2) :
             IF Bytes(H(o2)) >= batch
             THEN \E o3 \in Flushed(o2.file, H(o2), b3) :
                    /\ log' = o3.file /\ held' = <<>>
                    /\ stored' = stored \o K(o1, o2) \o SubSeq(H(o2), 1, o3.kept)
                    /\ settled' = settled + Len(Gone(o1, o2)) + Len(H(o2))
             ELSE /\ log' = o2.file /\ held' = H(o2)
                  /\ stored' = stored \o K(o1, o2) /\ settled' = settled + Len(Gone(o1, o2))
  BY Zenon DEF WriteLine
<1>0. PICK o1 \in Part1(b1) : \E o2 \in Part2(o1.file, b2) :
             IF Bytes(H(o2)) >= batch
             THEN \E o3 \in Flushed(o2.file, H(o2), b3) :
                    /\ log' = o3.file /\ held' = <<>>
                    /\ stored' = stored \o K(o1, o2) \o SubSeq(H(o2), 1, o3.kept)
                    /\ settled' = settled + Len(Gone(o1, o2)) + Len(H(o2))
             ELSE /\ log' = o2.file /\ held' = H(o2)
                  /\ stored' = stored \o K(o1, o2) /\ settled' = settled + Len(Gone(o1, o2))
  BY <1>1, Zenon
<1>2. PICK o2 \in Part2(o1.file, b2) :
             IF Bytes(H(o2)) >= batch
             THEN \E o3 \in Flushed(o2.file, H(o2), b3) :
                    /\ log' = o3.file /\ held' = <<>>
                    /\ stored' = stored \o K(o1, o2) \o SubSeq(H(o2), 1, o3.kept)
                    /\ settled' = settled + Len(Gone(o1, o2)) + Len(H(o2))
             ELSE /\ log' = o2.file /\ held' = H(o2)
                  /\ stored' = stored \o K(o1, o2) /\ settled' = settled + Len(Gone(o1, o2))
  BY <1>0, Zenon
<1> DEFINE st == stored \o K(o1, o2)
<1> DEFINE n == Len(Gone(o1, o2))
<1>3. Kept(b3, H(o2), o2.file, st, n)
  <2> HIDE DEF H, K, Gone
  <2> QED
    BY <1>2, Zenon DEF Kept
<1>4. \E b \in {b1, b2} : Opened(r, b, H(o2), o2.file, st, n)
  <2>1. CASE RotationDue(r)
    <3>1. PICK o \in Flushed(log, held, b1) : \E g \in Rotated(o.file, b1) :
            o1 = [file |-> g, kept |-> o.kept]
      BY <2>1, <1>2
    <3>2. o1.file \in Rotated(o.file, b1) /\ o1.kept = o.kept
      BY <3>1
    <3>3. o.kept \in 0..Len(held)
      BY <3>1, FlushedMeans
    <3>4. h1 = <<>> /\ o2 = [file |-> o1.file, kept |-> -1]
      BY <2>1, <1>2
    <3>5. o2.file = o1.file /\ o2.kept = -1
      BY <3>4
    <3>6. H(o2) = <<r>> /\ Gone(o1, o2) = held /\ Larger(o1.kept, Larger(o2.kept, 0)) = o.kept
      <4>1. H(o2) = <<r>>
        <5>1. H(o2) = Append(h1, r)
          BY <3>5
        <5>2. Append(<<>>, r) = <<r>>
          OBVIOUS
        <5> HIDE DEF H, h1
        <5> QED
          BY <3>4, <5>1, <5>2
      <4>2. Gone(o1, o2) = held
        BY <3>2, <3>3
      <4>3. Larger(o1.kept, Larger(o2.kept, 0)) = o.kept
        BY <3>2, <3>3, <3>5 DEF Larger
      <4> QED
        BY <4>1, <4>2, <4>3
    <3>7. H(o2) = <<r>> /\ n = Len(held) /\ st = stored \o SubSeq(held, 1, o.kept)
          /\ o2.file \in Rotated(o.file, b1)
      <4> HIDE DEF H, h1
      <4> QED
        BY <3>2, <3>5, <3>6
    <3> HIDE DEF H, h1, K, Gone, st, n
    <3> QED
      BY <2>1, <3>1, <3>7, Zenon DEF Opened
  <2>2. CASE ~RotationDue(r) /\ held # <<>> /\ Bytes(held) + Size[r] > batch
    <3>1. o1 = [file |-> log, kept |-> -1] /\ h1 = held
      BY <2>2, <1>2
    <3>2. o1.file = log /\ o1.kept = -1
      BY <3>1
    <3>3. o2 \in Flushed(log, held, b2)
      BY <2>2, <1>2, <3>1, <3>2
    <3>4. o2.kept \in 0..Len(held)
      BY <3>3, FlushedMeans
    <3>5. H(o2) = <<r>> /\ Gone(o1, o2) = held /\ Larger(o1.kept, Larger(o2.kept, 0)) = o2.kept
      BY <3>2, <3>4 DEF Larger
    <3>6. n = Len(held) /\ st = stored \o SubSeq(held, 1, o2.kept)
      <4> HIDE DEF H, h1
      <4> QED
        BY <3>5
    <3> HIDE DEF H, h1, K, Gone, st, n
    <3> QED
      BY <2>2, <3>3, <3>5, <3>6, Zenon DEF Opened
  <2>3. CASE ~RotationDue(r) /\ ~ (held # <<>> /\ Bytes(held) + Size[r] > batch)
    <3>1. o1 = [file |-> log, kept |-> -1] /\ h1 = held
      BY <2>3, <1>2
    <3>2. o1.file = log /\ o1.kept = -1
      BY <3>1
    <3>3. o2 = [file |-> log, kept |-> -1]
      BY <2>3, <1>2, <3>1, <3>2
    <3>4. o2.file = log /\ o2.kept = -1
      BY <3>3
    <3>5. H(o2) = Append(held, r) /\ Gone(o1, o2) = <<>> /\ Larger(o1.kept, Larger(o2.kept, 0)) = 0
      BY <3>1, <3>2, <3>4 DEF Larger
    <3>6. n = 0 /\ st = stored
      <4>1. SubSeq(held, 1, 0) = <<>> /\ stored \o <<>> = stored
        OBVIOUS
      <4> HIDE DEF H, h1
      <4> QED
        BY <3>5, <4>1
    <3>7. held # <<>> => Bytes(held) + Size[r] <= batch
      <4>1. Bytes(held) \in Nat /\ Size[r] \in Nat
        BY BytesBasic DEF WritersAssumption
      <4> QED
        BY <2>3, <4>1
    <3> HIDE DEF H, h1, K, Gone, st, n
    <3> QED
      BY <2>3, <3>4, <3>5, <3>6, <3>7, Zenon DEF Opened
  <2> QED
    BY <2>1, <2>2, <2>3
<1> DEFINE bad == b1 \/ b2 \/ b3
<1>5. bad \in BOOLEAN /\ (b1 => bad) /\ (b2 => bad) /\ (b3 => bad)
  OBVIOUS
<1>6. Fault(bad)
  BY <1>1
<1>7. PICK b \in {b1, b2} : Opened(r, b, H(o2), o2.file, st, n)
  BY <1>4
<1>8. b \in BOOLEAN /\ (b => bad)
  BY <1>5
<1> HIDE DEF H, h1, K, Gone, st, n, bad
<1> QED
  BY <1>3, <1>5, <1>6, <1>7, <1>8, Zenon DEF WroteLine

WriterTypes == WritersAssumption /\ TypeOK /\ log \in LogTypes

\* What the channel took is what is settled, what is held and what still waits, in order.
InOrder ==
  /\ Len(accepted) = settled + Len(held) + Len(ch)
  /\ Follows(accepted, settled, held)
  /\ Follows(accepted, settled + Len(held), ch)

\* What is stored was accepted, and is settled.
StoredFrom == \A i \in 1..Len(stored) : \E k \in 1..settled : stored[i] = accepted[k]

\* n more records are settled, some of them by being stored.
Settles(n) ==
  /\ settled' = settled + n
  /\ \E T \in SUBSET (settled + 1 .. settled + n) : stored' = stored \o Picked(accepted, T)

\* What the drain goroutine does to the records: it takes one or none, and settles all it
\* has, all but the one it took, or nothing.
Worked ==
  /\ UNCHANGED <<kind, batch, calls, accepted, closed>>
  /\ \E n \in Nat :
       /\ Settles(n)
       /\ \/ /\ ch # <<>> /\ ch' = Tail(ch)
             /\ \/ n = 0 /\ held' = Append(held, Head(ch))
                \/ n = Len(held) /\ held' = <<Head(ch)>>
                \/ n = Len(held) + 1 /\ held' = <<>>
          \/ /\ ch' = ch
             /\ \/ n = 0 /\ held' = held
                \/ n = Len(held) /\ held' = <<>>

\* The types, one by one.
LEMMA TypesMean ==
  ASSUME WriterTypes
  PROVE  /\ kind \in Kinds /\ batch \in Nat
         /\ ch \in Seq(Records) /\ accepted \in Seq(Records) /\ held \in Seq(Records)
         /\ stored \in Seq(Records) /\ settled \in Nat /\ attempt \in Nat /\ faults \in Nat
         /\ log \in LogTypes /\ closed \in {"no", "flagged", "closing", "yes"}
         /\ worker \in {"on", "done"} /\ WritersAssumption
<1>1. {ch, accepted, held, stored} \subseteq Seq(Records)
  BY DEF WriterTypes, TypeOK
<1> QED
  BY <1>1 DEF WriterTypes, TypeOK, WritersAssumption

\* What is picked out of a sequence is of the sequence.
LEMMA PickedTyped ==
  ASSUME NEW a \in Seq(Records), NEW T \in SUBSET (1..Len(a))
  PROVE  /\ Picked(a, T) \in Seq(Records)
         /\ \A i \in 1..Len(Picked(a, T)) : \E k \in T : Picked(a, T)[i] = a[k]
<1> DEFINE c == Cardinality(T)
<1>1. PICK q : Lists(q, c, T)
  <2>1. Len(a) \in Nat
    OBVIOUS
  <2> QED
    BY <2>1, ListExists
<1>2. c \in Nat
  <2>1. IsFiniteSet(1..Len(a))
    BY FS_Interval
  <2> QED
    BY <2>1, FS_Subset, FS_CardinalityType
<1>3. Picked(a, T) = [i \in 1..c |-> a[q[i]]]
  <2>1. T \in SUBSET Int
    OBVIOUS
  <2> HIDE DEF c
  <2> QED
    BY <1>1, <1>2, <2>1, PickedList
<1>4. \A i \in 1..c : q[i] \in T
  BY <1>1 DEF Lists
<1>5. \A i \in 1..c : a[q[i]] \in Records
  <2>1. \A k \in T : a[k] \in Records
    OBVIOUS
  <2> QED
    BY <1>4, <2>1
<1> HIDE DEF c
<1>6. [i \in 1..c |-> a[q[i]]] \in Seq(Records) /\ Len([i \in 1..c |-> a[q[i]]]) = c
  BY <1>2, <1>5
<1> QED
  BY <1>3, <1>4, <1>6

\* A step that settles nothing.
LEMMA SettleNone ==
  ASSUME WriterTypes, UNCHANGED <<stored, settled>>
  PROVE  Settles(0)
<1>1. Cardinality({}) = 0
  BY FS_EmptySet
<1>2. Picked(accepted, {}) = <<>>
  BY <1>1 DEF Picked
<1>3. stored \o <<>> = stored /\ settled + 0 = settled
  BY TypesMean
<1>4. {} \in SUBSET (settled + 1 .. settled + 0)
  OBVIOUS
<1> QED
  BY <1>2, <1>3, <1>4 DEF Settles

\* A transaction or a POST settles the records it is given.
LEMMA SettleOnlyMeans ==
  ASSUME WriterTypes, NEW s \in Seq(Records), NEW X \in SUBSET (1..Len(s)), SettleOnly(s, X),
         Follows(accepted, settled, s)
  PROVE  Settles(Len(s))
<1>1. settled \in Nat /\ Len(s) \in Nat
  BY TypesMean
<1>2. PICK T \in SUBSET (settled + 1 .. settled + Len(s)) : Picked(s, X) = Picked(accepted, T)
  BY <1>1, PickedShift
<1>3. stored' = stored \o Picked(s, X) /\ settled' = settled + Len(s)
  BY DEF SettleOnly, Picked, Place
<1> QED
  BY <1>2, <1>3 DEF Settles

\* A transaction settles the whole batch, whether it commits or not.
LEMMA CommitMeans ==
  ASSUME WriterTypes, NEW s \in Seq(Records), Commit(s), Follows(accepted, settled, s)
  PROVE  Settles(Len(s)) /\ faults' \in 0..MaxFaults
<1>1. PICK X \in SUBSET (1..Len(s)) : SettleOnly(s, X)
  BY DEF Commit
<1>2. faults' \in 0..MaxFaults
  BY DEF Commit, WriterTypes, TypeOK, WritersAssumption
<1> QED
  BY <1>1, <1>2, SettleOnlyMeans

\* The next records in line are what is held, and the next one from the channel.
LEMMA HeldIsNext ==
  ASSUME WriterTypes, InOrder, ch # <<>>
  PROVE  /\ Head(ch) \in Records /\ Append(held, Head(ch)) \in Seq(Records)
         /\ Len(Append(held, Head(ch))) = Len(held) + 1
         /\ Follows(accepted, settled, Append(held, Head(ch)))
         /\ Follows(accepted, settled + Len(held), <<Head(ch)>>)
<1>1. held \in Seq(Records) /\ ch \in Seq(Records) /\ settled \in Nat
  BY TypesMean
<1>2. Head(ch) = ch[1] /\ 1 \in 1..Len(ch) /\ Head(ch) \in Records
  BY <1>1
<1>3. Head(ch) = accepted[settled + Len(held) + 1]
  BY <1>2 DEF InOrder, Follows
<1>4. ASSUME NEW i \in 1..Len(held) + 1 PROVE Append(held, Head(ch))[i] = accepted[settled + i]
  <2>1. CASE i \in 1..Len(held)
    <3>1. Append(held, Head(ch))[i] = held[i]
      BY <1>1, <1>2, <2>1
    <3> QED
      BY <3>1, <2>1 DEF InOrder, Follows
  <2>2. CASE i = Len(held) + 1
    <3>1. Append(held, Head(ch))[i] = Head(ch)
      BY <1>1, <1>2, <2>2
    <3>2. settled + i = settled + Len(held) + 1
      BY <1>1, <2>2
    <3> QED
      BY <3>1, <3>2, <1>3
  <2> QED
    BY <1>1, <2>1, <2>2
<1>5. Append(held, Head(ch)) \in Seq(Records) /\ Len(Append(held, Head(ch))) = Len(held) + 1
  BY <1>1, <1>2
<1> QED
  BY <1>2, <1>3, <1>4, <1>5 DEF Follows

\* The drain goroutine keeps the records in order, and what it does is the settling of
\* the abstract writer.
LEMMA WorkedKeeps ==
  ASSUME WriterTypes, InOrder, StoredFrom, Worked
  PROVE  /\ ch' \in Seq(Records) /\ held' \in Seq(Records) /\ stored' \in Seq(Records)
         /\ accepted' = accepted /\ settled' \in 0..Len(accepted) /\ Len(ch') <= Len(ch)
         /\ InOrder' /\ StoredFrom'
         /\ S!Settle \/ UNCHANGED <<accepted, settled, stored, closed = "yes">>
<1> DEFINE L == Len(held)
<1> DEFINE C == Len(ch)
<1>1. /\ ch \in Seq(Records) /\ held \in Seq(Records) /\ stored \in Seq(Records)
      /\ accepted \in Seq(Records) /\ settled \in Nat
  BY TypesMean
<1>2. UNCHANGED <<accepted, closed>>
  BY DEF Worked
<1>3. PICK n \in Nat :
       /\ Settles(n)
       /\ \/ /\ ch # <<>> /\ ch' = Tail(ch)
             /\ \/ n = 0 /\ held' = Append(held, Head(ch))
                \/ n = Len(held) /\ held' = <<Head(ch)>>
                \/ n = Len(held) + 1 /\ held' = <<>>
          \/ /\ ch' = ch
             /\ \/ n = 0 /\ held' = held
                \/ n = Len(held) /\ held' = <<>>
  BY DEF Worked
<1>4. settled' = settled + n
  BY <1>3 DEF Settles
<1>5. /\ ch' \in Seq(Records) /\ held' \in Seq(Records) /\ Len(ch') <= Len(ch)
      /\ settled + n <= Len(accepted)
      /\ Len(accepted) = settled' + Len(held') + Len(ch')
      /\ Follows(accepted, settled', held')
      /\ Follows(accepted, settled' + Len(held'), ch')
  <2>1. L \in Nat /\ C \in Nat /\ Len(accepted) = settled + L + C
    BY <1>1 DEF InOrder
  <2>2. ASSUME ch # <<>>
        PROVE  /\ Tail(ch) \in Seq(Records) /\ Len(Tail(ch)) = C - 1 /\ C >= 1
               /\ Head(ch) \in Records
               /\ Follows(accepted, settled + L + 1, Tail(ch))
    <3>1. /\ Tail(ch) \in Seq(Records) /\ Len(Tail(ch)) = C - 1 /\ C >= 1
          /\ Head(ch) \in Records
      BY <1>1, <2>2
    <3>2. ASSUME NEW i \in 1..C - 1 PROVE Tail(ch)[i] = accepted[settled + L + 1 + i]
      <4>1. Tail(ch)[i] = ch[i + 1] /\ i + 1 \in 1..C
        BY <1>1, <2>2
      <4>2. ch[i + 1] = accepted[settled + L + (i + 1)]
        BY <4>1 DEF InOrder, Follows
      <4>3. settled + L + (i + 1) = settled + L + 1 + i
        BY <1>1, <2>1
      <4> HIDE DEF L, C
      <4> QED
        BY <4>1, <4>2, <4>3
    <3> HIDE DEF L, C
    <3> QED
      BY <3>1, <3>2 DEF Follows
  <2>3. Len(<<>>) = 0 /\ \A k : Follows(accepted, k, <<>>)
    BY DEF Follows
  <2>4. Follows(accepted, settled, held) /\ Follows(accepted, settled + L, ch)
    BY DEF InOrder
  <2>5. CASE ch # <<>> /\ ch' = Tail(ch) /\ n = 0 /\ held' = Append(held, Head(ch))
    <3>1. /\ held' \in Seq(Records) /\ Len(held') = L + 1 /\ Follows(accepted, settled, held')
      BY <2>5, HeldIsNext
    <3>2. settled' = settled /\ settled' + Len(held') = settled + L + 1
      BY <1>1, <1>4, <2>1, <2>5, <3>1
    <3>3. settled + n <= Len(accepted) /\ Len(ch') = C - 1
      BY <1>1, <2>1, <2>2, <2>5
    <3>4. Follows(accepted, settled', held') /\ Follows(accepted, settled' + Len(held'), ch')
      <4> HIDE DEF L, C
      <4> QED
        BY <2>2, <2>5, <3>1, <3>2
    <3> QED
      BY <1>1, <2>1, <2>2, <2>5, <3>1, <3>2, <3>3, <3>4
  <2>6. CASE ch # <<>> /\ ch' = Tail(ch) /\ n = Len(held) /\ held' = <<Head(ch)>>
    <3>1. held' \in Seq(Records) /\ Len(held') = 1 /\ Follows(accepted, settled + L, held')
      BY <2>2, <2>6, HeldIsNext
    <3>2. settled' = settled + L /\ settled' + Len(held') = settled + L + 1
      BY <1>1, <1>4, <2>1, <2>6, <3>1
    <3>3. settled + n <= Len(accepted) /\ Len(ch') = C - 1
      BY <1>1, <2>1, <2>2, <2>6
    <3>4. Follows(accepted, settled', held') /\ Follows(accepted, settled' + Len(held'), ch')
      <4> HIDE DEF L, C
      <4> QED
        BY <2>2, <2>6, <3>1, <3>2
    <3> QED
      BY <1>1, <2>1, <2>2, <2>6, <3>1, <3>2, <3>3, <3>4
  <2>7. CASE ch # <<>> /\ ch' = Tail(ch) /\ n = Len(held) + 1 /\ held' = <<>>
    <3>1. settled' = settled + L + 1 /\ settled' + Len(held') = settled + L + 1 /\ Len(held') = 0
      BY <1>1, <1>4, <2>1, <2>3, <2>7
    <3>2. held' \in Seq(Records)
      BY <2>7
    <3>3. settled + n <= Len(accepted) /\ Len(ch') = C - 1
      BY <1>1, <2>1, <2>2, <2>7
    <3> HIDE DEF L, C
    <3> QED
      BY <1>1, <2>1, <2>2, <2>3, <2>7, <3>1, <3>2, <3>3 DEF L, C
  <2>8. CASE ch' = ch /\ n = 0 /\ held' = held
    <3>1. settled' = settled
      BY <1>1, <1>4, <2>8
    <3> QED
      BY <1>1, <2>1, <2>4, <2>8, <3>1
  <2>9. CASE ch' = ch /\ n = Len(held) /\ held' = <<>>
    <3>1. settled' = settled + L /\ settled' + Len(held') = settled + L /\ Len(held') = 0
      BY <1>1, <1>4, <2>1, <2>3, <2>9
    <3>2. held' \in Seq(Records)
      BY <2>9
    <3> QED
      BY <1>1, <2>1, <2>3, <2>4, <2>9, <3>1, <3>2
  <2> QED
    BY <1>3, <2>5, <2>6, <2>7, <2>8, <2>9
<1>6. InOrder'
  BY <1>2, <1>5 DEF InOrder, Follows
<1>7. PICK T \in SUBSET (settled + 1 .. settled + n) : stored' = stored \o Picked(accepted, T)
  BY <1>3 DEF Settles
<1>8. T \in SUBSET (1..Len(accepted))
  BY <1>1, <1>5
<1>9. /\ Picked(accepted, T) \in Seq(Records)
      /\ \A i \in 1..Len(Picked(accepted, T)) : \E k \in T : Picked(accepted, T)[i] = accepted[k]
  BY <1>1, <1>8, PickedTyped
<1>10. stored' \in Seq(Records) /\ StoredFrom'
  <2> DEFINE P == Picked(accepted, T)
  <2>1. P \in Seq(Records) /\ stored' = stored \o P
        /\ \A i \in 1..Len(P) : \E k \in T : P[i] = accepted[k]
    BY <1>7, <1>9
  <2> HIDE DEF P
  <2>2. stored' \in Seq(Records)
    BY <1>1, <2>1
  <2>3. ASSUME NEW i \in 1..Len(stored') PROVE \E k \in 1..settled' : stored'[i] = accepted[k]
    <3>1. CASE i <= Len(stored)
      <4>1. stored'[i] = stored[i] /\ i \in 1..Len(stored)
        BY <1>1, <2>1, <3>1
      <4>2. PICK k \in 1..settled : stored[i] = accepted[k]
        BY <4>1 DEF StoredFrom
      <4> QED
        BY <1>1, <1>4, <4>1, <4>2
    <3>2. CASE i > Len(stored)
      <4>1. stored'[i] = P[i - Len(stored)] /\ i - Len(stored) \in 1..Len(P)
        BY <1>1, <2>1, <3>2
      <4>2. PICK k \in T : P[i - Len(stored)] = accepted[k]
        BY <2>1, <4>1
      <4> QED
        BY <1>1, <1>4, <4>1, <4>2
    <3> QED
      BY <1>1, <2>2, <3>1, <3>2
  <2> QED
    BY <1>2, <2>2, <2>3 DEF StoredFrom
<1>11. S!Settle \/ UNCHANGED <<accepted, settled, stored, closed = "yes">>
  <2>1. CASE n = 0
    <3>1. T = {}
      BY <1>1, <2>1
    <3>2. Picked(accepted, T) = <<>>
      BY <3>1, FS_EmptySet DEF Picked
    <3>3. stored' = stored /\ settled' = settled
      BY <1>1, <1>4, <1>7, <2>1, <3>2
    <3> QED
      BY <1>2, <3>3
  <2>2. CASE n # 0
    <3>1. settled + n \in settled + 1 .. Len(accepted)
      BY <1>1, <1>5, <2>2
    <3>2. stored' = stored \o [i \in 1..Cardinality(T) |->
              accepted[CHOOSE k \in T : Cardinality({j \in T : j <= k}) = i]]
      BY <1>7 DEF Picked, Place
    <3>3. stored' = stored \o [i \in 1..S!Cardinality(T) |->
              accepted[CHOOSE k \in T : S!Cardinality({j \in T : j <= k}) = i]]
      BY <3>2, Zenon DEF S!Cardinality, Cardinality
    <3> QED
      BY <1>2, <1>4, <3>1, <3>3 DEF S!Settle
  <2> QED
    BY <2>1, <2>2
<1> QED
  BY <1>1, <1>2, <1>4, <1>5, <1>6, <1>10, <1>11

\* A record is accepted once, from the caller that sent it.
SentOnce ==
  /\ \A i \in 1..Len(accepted) : calls[accepted[i]] = "sent"
  /\ \A i, j \in 1..Len(accepted) : accepted[i] = accepted[j] => i = j

\* The goroutine returns when the channel is closed and it has nothing left.
Ended ==
  /\ worker = "done" => held = <<>> /\ ch = <<>> /\ closed \in {"closing", "yes"}
  /\ closed = "yes" => worker = "done"

\* A store without batches, and one that has not seen a record yet, hold nothing.
StoreIdle == kind \in Store /\ (batch = 0 \/ ~primed) => held = <<>>

\* What the goroutine sits on: a full exporter batch is being posted.
HeldFits ==
  /\ kind \in Store => Len(held) <= Larger(batch - 1, 1)
  /\ kind = "jsonl" => batch = BufferSize /\ Bytes(held) < batch
  /\ kind = "otlp" => batch > 0 /\ Len(held) <= batch /\ (attempt = 0 => Len(held) < batch)

WorkerInv == WriterTypes /\ InOrder /\ StoredFrom /\ SentOnce /\ Ended /\ StoreIdle /\ HeldFits

WorkerTypes ==
  /\ primed \in BOOLEAN /\ timer \in {"off", "armed", "fired"}
  /\ attempt \in 0..MaxRetries + 1 /\ log \in LogTypes
  /\ faults \in 0..MaxFaults /\ worker \in {"on", "done"}

\* What is to be shown of each of the goroutine's steps.
StepKeeps == Worked /\ WorkerTypes' /\ Ended' /\ StoreIdle' /\ HeldFits'

\* The types of what only the goroutine changes.
LEMMA TypesGive == ASSUME WriterTypes PROVE WorkerTypes
BY DEF WriterTypes, TypeOK, WorkerTypes

\* Nothing held is within every bound.
LEMMA NothingHeld ==
  ASSUME WorkerInv, held' = <<>>, UNCHANGED <<kind, batch>>
  PROVE  HeldFits' /\ StoreIdle'
<1>1. WritersAssumption /\ batch \in Nat /\ BufferSize \in Nat \ {0}
  BY TypesMean DEF WorkerInv, WritersAssumption
<1>2. Bytes(held') = 0 /\ Len(held') = 0
  BY <1>1, BytesBasic
<1>3. Larger(batch' - 1, 1) >= 1
  BY <1>1 DEF Larger
<1>4. kind' = kind /\ batch' = batch /\ HeldFits
  BY DEF WorkerInv
<1>5. kind = "jsonl" => batch = BufferSize
  BY <1>4 DEF HeldFits
<1>6. kind = "otlp" => batch > 0
  BY <1>4 DEF HeldFits
<1>7. HeldFits'
  <2>1. (kind \in Store => Len(held) <= Larger(batch - 1, 1))'
    <3>1. Len(held') <= Larger(batch' - 1, 1)
      BY <1>1, <1>2, <1>4 DEF Larger
    <3> QED
      BY <3>1
  <2>2. (kind = "jsonl" => batch = BufferSize /\ Bytes(held) < batch)'
    BY <1>1, <1>2, <1>4, <1>5
  <2>3. (kind = "otlp" => batch > 0 /\ Len(held) <= batch /\ (attempt = 0 => Len(held) < batch))'
    BY <1>1, <1>2, <1>4, <1>6
  <2> QED
    BY <2>1, <2>2, <2>3 DEF HeldFits
<1>8. StoreIdle'
  BY DEF StoreIdle
<1> QED
  BY <1>7, <1>8

\* A turn of SQLiteStore.drain.
LEMMA DrainKeeps ==
  ASSUME WorkerInv, Drain
  PROVE  StepKeeps
<1> USE DEF WorkerInv
<1>1. PICK r \in Records : DrainTurn(r)
  BY DEF Drain
<1>2. /\ kind \in Store /\ worker = "on"
      /\ UNCHANGED <<kind, batch, calls, accepted, attempt, log, worker, closed>>
  BY DEF Drain
<1>3. ch # <<>> /\ r = Head(ch) /\ ch' = Tail(ch)
  BY <1>1 DEF DrainTurn
<1>4. held \in Seq(Records) /\ batch \in Nat /\ Len(held) \in Nat
  BY TypesMean
<1>5. WorkerTypes
  BY TypesGive
<1>6. CASE batch = 0
  <2>1. Commit(<<r>>) /\ UNCHANGED <<held, primed, timer>>
    BY <1>1, <1>6 DEF DrainTurn
  <2>2. held = <<>> /\ Len(held) = 0
    BY <1>2, <1>6 DEF StoreIdle
  <2>3. Append(held, r) = <<r>> /\ Len(<<r>>) = 1
    BY <2>2
  <2>4. <<r>> \in Seq(Records) /\ Follows(accepted, settled, <<r>>)
    BY <1>3, <2>3, HeldIsNext
  <2>5. Settles(1) /\ faults' \in 0..MaxFaults
    BY <2>1, <2>3, <2>4, CommitMeans
  <2>6. Worked
    <3>1. 1 \in Nat /\ 1 = Len(held) + 1 /\ held' = <<>>
      BY <2>1, <2>2
    <3> QED
      BY <1>2, <1>3, <2>5, <3>1 DEF Worked
  <2>7. HeldFits' /\ StoreIdle'
    BY <1>2, <2>1, <2>2, NothingHeld
  <2>8. WorkerTypes' /\ Ended'
    BY <1>2, <1>5, <2>1, <2>5 DEF WorkerTypes, Ended
  <2> QED
    BY <2>6, <2>7, <2>8 DEF StepKeeps
<1>7. CASE batch # 0 /\ ~primed
  <2>1. held' = <<r>> /\ primed' = TRUE /\ timer' = "armed" /\ UNCHANGED <<stored, settled, faults>>
    BY <1>1, <1>7 DEF DrainTurn
  <2>2. held = <<>>
    BY <1>2, <1>7 DEF StoreIdle
  <2>3. held' = Append(held, Head(ch)) /\ Len(held') = 1
    BY <1>3, <2>1, <2>2
  <2>4. Settles(0)
    BY <2>1, SettleNone
  <2>5. Worked
    <3>1. 0 \in Nat
      OBVIOUS
    <3> QED
      BY <1>2, <1>3, <2>3, <2>4, <3>1 DEF Worked
  <2>6. HeldFits' /\ StoreIdle'
    <3>1. Larger(batch - 1, 1) >= 1
      BY <1>4 DEF Larger
    <3> QED
      BY <1>2, <1>7, <2>1, <2>3, <3>1 DEF HeldFits, StoreIdle, Store
  <2>7. WorkerTypes' /\ Ended'
    BY <1>2, <1>5, <2>1 DEF WorkerTypes, Ended
  <2> QED
    BY <2>5, <2>6, <2>7 DEF StepKeeps
<1>8. CASE batch # 0 /\ primed /\ (Len(held) + 1 >= batch \/ timer = "fired")
  <2>1. Commit(Append(held, r)) /\ held' = <<>> /\ timer' = "off" /\ UNCHANGED primed
    BY <1>1, <1>8 DEF DrainTurn
  <2>2. /\ Append(held, r) \in Seq(Records) /\ Len(Append(held, r)) = Len(held) + 1
        /\ Follows(accepted, settled, Append(held, r))
    BY <1>3, HeldIsNext
  <2>3. Settles(Len(held) + 1) /\ faults' \in 0..MaxFaults
    BY <2>1, <2>2, CommitMeans
  <2>4. Worked
    <3>1. Len(held) + 1 \in Nat
      BY <1>4
    <3> QED
      BY <1>2, <1>3, <2>1, <2>3, <3>1 DEF Worked
  <2>5. HeldFits' /\ StoreIdle'
    BY <1>2, <2>1, NothingHeld
  <2>6. WorkerTypes' /\ Ended'
    BY <1>2, <1>5, <2>1, <2>3 DEF WorkerTypes, Ended
  <2> QED
    BY <2>4, <2>5, <2>6 DEF StepKeeps
<1>9. CASE batch # 0 /\ primed /\ ~ (Len(held) + 1 >= batch \/ timer = "fired")
  <2>1. held' = Append(held, r) /\ UNCHANGED <<primed, timer, stored, settled, faults>>
    BY <1>1, <1>9 DEF DrainTurn
  <2>2. Len(held') = Len(held) + 1
    BY <1>3, <2>1, HeldIsNext
  <2>3. Settles(0)
    BY <2>1, SettleNone
  <2>4. Worked
    <3>1. 0 \in Nat
      OBVIOUS
    <3> QED
      BY <1>2, <1>3, <2>1, <2>3, <3>1 DEF Worked
  <2>5. HeldFits' /\ StoreIdle'
    <3>1. Len(held') <= batch - 1 /\ Larger(batch - 1, 1) >= batch - 1
      BY <1>4, <1>9, <2>2 DEF Larger
    <3> QED
      BY <1>2, <1>4, <1>9, <2>1, <2>2, <3>1 DEF HeldFits, StoreIdle, Store, Larger
  <2>6. WorkerTypes' /\ Ended'
    BY <1>2, <1>5, <2>1 DEF WorkerTypes, Ended
  <2> QED
    BY <2>4, <2>5, <2>6 DEF StepKeeps
<1> QED
  BY <1>6, <1>7, <1>8, <1>9

\* The last transaction of a store.
LEMMA DrainEndsKeeps ==
  ASSUME WorkerInv, DrainEnds
  PROVE  StepKeeps
<1> USE DEF WorkerInv
<1>1. /\ kind \in Store /\ ch = <<>> /\ closed = "closing" /\ held' = <<>> /\ timer' = "off" /\ worker' = "done"
      /\ UNCHANGED <<kind, batch, callVars, primed, attempt, log, closed>>
      /\ IF held = <<>> THEN UNCHANGED <<stored, settled, faults>> ELSE Commit(held)
  BY DEF DrainEnds
<1>2. held \in Seq(Records) /\ Follows(accepted, settled, held) /\ Len(held) \in Nat
  BY TypesMean DEF InOrder
<1>3. WorkerTypes
  BY TypesGive
<1>4. Settles(Len(held)) /\ faults' \in 0..MaxFaults
  <2>1. CASE held = <<>>
    BY <1>1, <1>3, <2>1, SettleNone DEF WorkerTypes
  <2>2. CASE held # <<>>
    BY <1>1, <1>2, <2>2, CommitMeans
  <2> QED
    BY <2>1, <2>2
<1>5. Worked
  BY <1>1, <1>2, <1>4 DEF Worked, callVars
<1>6. HeldFits' /\ StoreIdle'
  BY <1>1, NothingHeld
<1>7. WorkerTypes' /\ Ended'
  BY <1>1, <1>3, <1>4 DEF WorkerTypes, Ended, callVars
<1> QED
  BY <1>5, <1>6, <1>7 DEF StepKeeps

\* Exporter.run gathers a span, or returns.
LEMMA GatherKeeps ==
  ASSUME WorkerInv, Gather \/ GatherEnds
  PROVE  StepKeeps
<1> USE DEF WorkerInv
<1>1. held \in Seq(Records) /\ batch \in Nat /\ Len(held) \in Nat
  BY TypesMean
<1>2. WorkerTypes /\ MaxRetries \in Nat
  BY TypesGive, TypesMean DEF WritersAssumption
<1>3. Settles(0)
  BY SettleNone DEF Gather, GatherEnds
<1>4. CASE Gather
  <2>1. /\ kind = "otlp" /\ worker = "on" /\ attempt = 0 /\ ch # <<>>
        /\ held' = Append(held, Head(ch)) /\ ch' = Tail(ch)
        /\ attempt' = IF Len(held) + 1 >= batch THEN 1 ELSE 0
        /\ UNCHANGED <<kind, batch, calls, accepted, primed, timer, stored, settled, log, faults, worker, closed>>
    BY <1>4 DEF Gather
  <2>2. Worked
    <3>1. 0 \in Nat
      OBVIOUS
    <3> QED
      BY <1>3, <2>1, <3>1 DEF Worked
  <2>3. Len(held') = Len(held) + 1
    BY <2>1, HeldIsNext
  <2>4. HeldFits' /\ StoreIdle'
    BY <1>1, <2>1, <2>3 DEF HeldFits, StoreIdle, Store
  <2>5. WorkerTypes' /\ Ended'
    BY <1>2, <2>1 DEF WorkerTypes, Ended
  <2> QED
    BY <2>2, <2>4, <2>5 DEF StepKeeps
<1>5. CASE GatherEnds
  <2>1. /\ kind = "otlp" /\ worker = "on" /\ attempt = 0 /\ ch = <<>> /\ closed = "closing"
        /\ \/ held = <<>> /\ worker' = "done" /\ UNCHANGED attempt
           \/ attempt' = 1 /\ UNCHANGED worker
        /\ UNCHANGED <<kind, batch, callVars, held, primed, timer, stored, settled, log, faults, closed>>
    BY <1>5 DEF GatherEnds
  <2>2. Worked
    <3>1. 0 \in Nat
      OBVIOUS
    <3> QED
      BY <1>3, <2>1, <3>1 DEF Worked, callVars
  <2>3. HeldFits' /\ StoreIdle'
    BY <1>1, <2>1 DEF HeldFits, StoreIdle, Store
  <2>4. WorkerTypes' /\ Ended'
    BY <1>2, <2>1 DEF WorkerTypes, Ended, callVars
  <2> QED
    BY <2>2, <2>3, <2>4 DEF StepKeeps
<1> QED
  BY <1>4, <1>5

\* An attempt of Exporter.flush.
LEMMA PostKeeps ==
  ASSUME WorkerInv, Post
  PROVE  StepKeeps
<1> USE DEF WorkerInv
<1>1. /\ held \in Seq(Records) /\ batch \in Nat /\ Len(held) \in Nat /\ MaxRetries \in Nat
      /\ faults \in Nat /\ MaxFaults \in Nat /\ Follows(accepted, settled, held)
  BY TypesMean DEF WritersAssumption, InOrder
<1>2. WorkerTypes
  BY TypesGive
<1>3. /\ kind = "otlp" /\ attempt > 0
      /\ UNCHANGED <<kind, batch, callVars, primed, timer, log, worker, closed>>
      /\ \/ \E X \in SUBSET (1..Len(held)) : SettleOnly(held, X) /\ held' = <<>> /\ attempt' = 0
         \/ attempt <= MaxRetries /\ attempt' = attempt + 1 /\ UNCHANGED <<held, stored, settled>>
      /\ faults' \in 0..MaxFaults
  <2>1. \/ SettleOnly(held, 1..Len(held)) /\ held' = <<>> /\ attempt' = 0
        \/ SettleOnly(held, {}) /\ held' = <<>> /\ attempt' = 0
        \/ attempt <= MaxRetries /\ attempt' = attempt + 1 /\ UNCHANGED <<held, stored, settled>>
    BY DEF Post
  <2>2. faults' \in 0..MaxFaults
    BY <1>1, <1>2 DEF Post, WorkerTypes
  <2>3. 1..Len(held) \in SUBSET (1..Len(held)) /\ {} \in SUBSET (1..Len(held))
    OBVIOUS
  <2>4. /\ kind = "otlp" /\ attempt > 0
        /\ UNCHANGED <<kind, batch, callVars, primed, timer, log, worker, closed>>
    BY DEF Post
  <2> QED
    BY <2>1, <2>2, <2>3, <2>4
<1>4. ASSUME NEW X \in SUBSET (1..Len(held)), SettleOnly(held, X), held' = <<>>, attempt' = 0
      PROVE  StepKeeps
  <2>1. Settles(Len(held))
    BY <1>1, <1>4, SettleOnlyMeans
  <2>2. Worked
    BY <1>1, <1>3, <1>4, <2>1 DEF Worked, callVars
  <2>3. HeldFits' /\ StoreIdle'
    BY <1>3, <1>4, NothingHeld
  <2>4. WorkerTypes' /\ Ended'
    BY <1>1, <1>2, <1>3, <1>4 DEF WorkerTypes, Ended, callVars
  <2> QED
    BY <2>2, <2>3, <2>4 DEF StepKeeps
<1>5. CASE attempt <= MaxRetries /\ attempt' = attempt + 1 /\ UNCHANGED <<held, stored, settled>>
  <2>1. Settles(0)
    BY <1>5, SettleNone
  <2>2. Worked
    <3>1. 0 \in Nat
      OBVIOUS
    <3> QED
      BY <1>3, <1>5, <2>1, <3>1 DEF Worked, callVars
  <2>3. HeldFits' /\ StoreIdle'
    BY <1>1, <1>2, <1>3, <1>5 DEF HeldFits, StoreIdle, Store, WorkerTypes
  <2>4. WorkerTypes' /\ Ended'
    BY <1>1, <1>2, <1>3, <1>5 DEF WorkerTypes, Ended, callVars
  <2> QED
    BY <2>2, <2>3, <2>4 DEF StepKeeps
<1> QED
  BY <1>3, <1>4, <1>5

-----------------------------------------------------------------------------
\* The recorder's files, the oldest first, and the lines of the p-th and the later ones.
Files(f) == Append(f.rotated, f.active)
OnLine(F, p, x) == \E q \in p..Len(F) : \E j \in 1..Len(F[q]) : F[q][j] = x

\* Of what was stored, the lines from any file on are a tail.
Newest(st, F) ==
  \A p \in 1..Len(F) : \A i, j \in 1..Len(st) :
    i < j /\ OnLine(F, p, st[i]) => OnLine(F, p, st[j])

Apart(st, s) == \A i \in 1..Len(st), j \in 1..Len(s) : st[i] # s[j]

\* Lines that are new go to the end of the last file.
LEMMA NewestGrows ==
  ASSUME NEW st \in Seq(Records), NEW s \in Seq(Records), Apart(st, s),
         NEW R \in Seq(Seq(Records)), NEW a \in Seq(Records), Newest(st, Append(R, a))
  PROVE  Newest(st \o s, Append(R, a \o s))
<1> DEFINE m == Len(R) + 1
<1> DEFINE F == Append(R, a)
<1> DEFINE G == Append(R, a \o s)
<1> DEFINE u == st \o s
<1>1. /\ m \in Nat /\ Len(F) = m /\ Len(G) = m /\ F[m] = a /\ G[m] = a \o s
      /\ \A q \in 1..m - 1 : F[q] = R[q] /\ G[q] = R[q]
  BY a \o s \in Seq(Records)
<1>2. /\ u \in Seq(Records) /\ Len(u) = Len(st) + Len(s)
      /\ \A i \in 1..Len(st) : u[i] = st[i]
      /\ \A i \in Len(st) + 1 .. Len(u) : u[i] = s[i - Len(st)] /\ i - Len(st) \in 1..Len(s)
  OBVIOUS
<1>3. ASSUME NEW p \in 1..m, NEW x, OnLine(F, p, x) PROVE OnLine(G, p, x)
  <2>0. PICK q \in p..m : \E j \in 1..Len(F[q]) : F[q][j] = x
    BY <1>1, <1>3 DEF OnLine
  <2>1. PICK j \in 1..Len(F[q]) : F[q][j] = x
    BY <2>0
  <2>2. CASE q = m
    <3>1. G[m][j] = a[j] /\ j \in 1..Len(G[m]) /\ F[m] = a
      BY <1>1, <2>1, <2>2
    <3> HIDE DEF F, G, m
    <3> QED
      BY <1>1, <2>1, <2>2, <3>1 DEF OnLine
  <2>3. CASE q # m
    <3>1. G[q] = F[q]
      BY <1>1, <2>1, <2>3
    <3> HIDE DEF F, G, m
    <3> QED
      BY <1>1, <2>1, <3>1 DEF OnLine
  <2> QED
    BY <2>2, <2>3
<1>4. ASSUME NEW p \in 1..m, NEW i \in 1..Len(st), OnLine(G, p, st[i]) PROVE OnLine(F, p, st[i])
  <2>0. PICK q \in p..m : \E j \in 1..Len(G[q]) : G[q][j] = st[i]
    BY <1>1, <1>4 DEF OnLine
  <2>1. PICK j \in 1..Len(G[q]) : G[q][j] = st[i]
    BY <2>0
  <2>2. CASE q = m
    <3>1. G[m] = a \o s /\ j \in 1..Len(a \o s) /\ (a \o s)[j] = st[i]
      BY <1>1, <2>1, <2>2
    <3>2. j <= Len(a)
      <4> SUFFICES ASSUME j > Len(a) PROVE FALSE
        BY <3>1
      <4>1. (a \o s)[j] = s[j - Len(a)] /\ j - Len(a) \in 1..Len(s)
        BY <3>1
      <4> QED
        BY <3>1, <4>1 DEF Apart
    <3>3. j \in 1..Len(a) /\ a[j] = st[i]
      BY <3>1, <3>2
    <3> HIDE DEF F, G, m
    <3> QED
      BY <1>1, <2>1, <2>2, <3>3 DEF OnLine
  <2>3. CASE q # m
    <3>1. G[q] = F[q]
      BY <1>1, <2>1, <2>3
    <3> HIDE DEF F, G, m
    <3> QED
      BY <1>1, <2>1, <3>1 DEF OnLine
  <2> QED
    BY <2>2, <2>3
<1>5. ASSUME NEW p \in 1..m, NEW j \in Len(st) + 1 .. Len(u) PROVE OnLine(G, p, u[j])
  <2>1. u[j] = s[j - Len(st)] /\ j - Len(st) \in 1..Len(s)
    BY <1>2
  <2>2. Len(a) + (j - Len(st)) \in 1..Len(a \o s) /\ (a \o s)[Len(a) + (j - Len(st))] = s[j - Len(st)]
    BY <2>1
  <2> DEFINE k == Len(a) + (j - Len(st))
  <2>3. m \in p..m /\ k \in 1..Len(G[m]) /\ G[m][k] = u[j]
    <3> HIDE DEF G, u
    <3> QED
      BY <1>1, <2>1, <2>2
  <2> HIDE DEF G, u, k, m
  <2> QED
    BY <1>1, <2>3 DEF OnLine
<1>6. ASSUME NEW p \in 1..m, NEW i \in 1..Len(u), NEW j \in 1..Len(u), i < j, OnLine(G, p, u[i])
      PROVE  OnLine(G, p, u[j])
  <2>1. CASE j > Len(st)
    <3>1. j \in Len(st) + 1 .. Len(u)
      BY <1>2, <2>1
    <3> HIDE DEF G, u, m
    <3> QED
      BY <1>5, <3>1
  <2>2. CASE j <= Len(st)
    <3>1. i \in 1..Len(st) /\ j \in 1..Len(st) /\ u[i] = st[i] /\ u[j] = st[j]
      BY <1>2, <1>6, <2>2
    <3> HIDE DEF F, G, u, m
    <3>2. OnLine(F, p, st[i])
      BY <1>4, <1>6, <3>1
    <3>3. OnLine(F, p, st[j])
      <4>1. Newest(st, F)
        BY DEF F
      <4> QED
        BY <1>1, <1>6, <3>1, <3>2, <4>1 DEF Newest
    <3> QED
      BY <1>3, <3>1, <3>3
  <2> QED
    BY <1>2, <2>1, <2>2
<1> HIDE DEF F, G, u, m
<1>7. Newest(u, G)
  BY <1>1, <1>6 DEF Newest
<1> QED
  BY <1>7 DEF u, G

\* The oldest files go, and an empty one comes.
LEMMA NewestTurns ==
  ASSUME NEW st \in Seq(Records), NEW F \in Seq(Seq(Records)), NEW E \in Seq(Seq(Records)),
         NEW d \in 0..Len(F), Len(E) = Len(F) - d, \A p \in 1..Len(F) - d : E[p] = F[p + d],
         Newest(st, F)
  PROVE  Newest(st, Append(E, <<>>))
<1> DEFINE m == Len(F)
<1> DEFINE e == <<>>
<1> DEFINE G == Append(E, e)
<1>0. e \in Seq(Records) /\ Len(e) = 0 /\ m \in Nat
  OBVIOUS
<1>1. /\ Len(G) = m - d + 1 /\ G[m - d + 1] = e
      /\ \A p \in 1..m - d : G[p] = F[p + d] /\ p + d \in 1..m
  <2> HIDE DEF e
  <2>1. Len(G) = Len(E) + 1 /\ G[Len(E) + 1] = e /\ \A p \in 1..Len(E) : G[p] = E[p]
    BY <1>0
  <2> HIDE DEF G
  <2> QED
    BY <1>0, <2>1
<1> HIDE DEF G, e, m
<1>2. ASSUME NEW p \in 1..m - d + 1, NEW x, OnLine(G, p, x) PROVE p \in 1..m - d /\ OnLine(F, p + d, x)
  <2>0. PICK q \in p..m - d + 1 : \E j \in 1..Len(G[q]) : G[q][j] = x
    BY <1>1, <1>2 DEF OnLine
  <2>1. PICK j \in 1..Len(G[q]) : G[q][j] = x
    BY <2>0
  <2>2. q # m - d + 1
    BY <1>0, <1>1, <2>1
  <2>3. q \in 1..m - d /\ p \in 1..m - d /\ G[q] = F[q + d] /\ q + d \in p + d .. m
    BY <1>0, <1>1, <2>1, <2>2
  <2> QED
    BY <1>0, <2>1, <2>3 DEF OnLine, m
<1>3. ASSUME NEW p \in 1..m - d, NEW x, OnLine(F, p + d, x) PROVE OnLine(G, p, x)
  <2>0. PICK q \in p + d .. m : \E j \in 1..Len(F[q]) : F[q][j] = x
    BY <1>0, <1>3 DEF OnLine, m
  <2>1. PICK j \in 1..Len(F[q]) : F[q][j] = x
    BY <2>0
  <2>2. q - d \in p..m - d + 1 /\ q - d \in 1..m - d /\ (q - d) + d = q
    BY <1>0, <2>1
  <2>3. G[q - d] = F[q]
    BY <1>1, <2>2
  <2> QED
    BY <1>1, <2>1, <2>2, <2>3 DEF OnLine
<1>4. ASSUME NEW p \in 1..m - d + 1, NEW i \in 1..Len(st), NEW j \in 1..Len(st), i < j, OnLine(G, p, st[i])
      PROVE  OnLine(G, p, st[j])
  <2>1. p \in 1..m - d /\ OnLine(F, p + d, st[i])
    BY <1>2, <1>4
  <2>2. p + d \in 1..m
    BY <1>1, <2>1
  <2>3. OnLine(F, p + d, st[j])
    BY <1>4, <2>1, <2>2 DEF Newest, m
  <2> QED
    BY <1>3, <2>1, <2>3
<1>5. Newest(st, G)
  BY <1>1, <1>4 DEF Newest
<1> QED
  BY <1>5 DEF G, e

\* What holds of the files f and the stored records st, and of the lines h still in the
\* buffer while nothing has failed.
FilesKept(st, f) == Len(f.rotated) <= KeepFiles /\ Newest(st, Files(f))

Clean(f, h) ==
  /\ f.bw = "ok" /\ f.present /\ f.written = Bytes(f.active) /\ FitsCap(f.active \o h)
  /\ \A i \in 1..Len(f.rotated) : FitsCap(f.rotated[i])

\* A rotation keeps the newest lines and the number of files, whatever fails in it.
LEMMA RotationKeeps ==
  ASSUME WritersAssumption, NEW f \in LogTypes, NEW bad \in BOOLEAN, NEW g \in Rotated(f, bad),
         NEW st \in Seq(Records), FilesKept(st, f)
  PROVE  FilesKept(st, g)
<1>1. CASE g.rotated = f.rotated /\ g.active = f.active
  BY <1>1 DEF FilesKept, Files
<1>2. CASE g.rotated = Evict(Append(f.rotated, f.active)) /\ g.active = <<>>
  <2> DEFINE F == Files(f)
  <2>1. F \in Seq(Seq(Records)) /\ Newest(st, F) /\ Evict(F) = g.rotated
    BY <1>2 DEF Files, LogTypes, FilesKept
  <2> HIDE DEF F
  <2>2. PICK d \in 0..Len(F) : /\ Len(Evict(F)) = Len(F) - d
                               /\ \A p \in 1..Len(F) - d : Evict(F)[p] = F[p + d]
    BY <2>1, EvictDrops
  <2>3. Evict(F) \in Seq(Seq(Records)) /\ Len(Evict(F)) <= KeepFiles
    BY <2>1, EvictDrops
  <2> DEFINE E == Evict(F)
  <2>4. E \in Seq(Seq(Records)) /\ Len(E) = Len(F) - d /\ \A p \in 1..Len(F) - d : E[p] = F[p + d]
    BY <2>2, <2>3
  <2> HIDE DEF E
  <2>5. Newest(st, Append(E, <<>>))
    BY <2>1, <2>4, NewestTurns
  <2> QED
    BY <1>2, <2>1, <2>3, <2>5 DEF FilesKept, Files, E
<1> QED
  BY <1>1, <1>2, RotatedMeans

\* So does a flush, whatever part of it reaches the file.
LEMMA FlushKeeps ==
  ASSUME WritersAssumption, NEW f \in LogTypes, NEW s \in Seq(Records), NEW bad \in BOOLEAN,
         NEW o \in Flushed(f, s, bad), NEW st \in Seq(Records), FilesKept(st, f), Apart(st, s)
  PROVE  FilesKept(st \o SubSeq(s, 1, o.kept), o.file)
<1>1. o.kept \in 0..Len(s) /\ o.file \in LogTypes
  BY FlushedMeans
<1>2. CASE o.file.rotated = f.rotated /\ o.file.active = f.active \o SubSeq(s, 1, o.kept)
  <2> DEFINE t == SubSeq(s, 1, o.kept)
  <2>1. t \in Seq(Records) /\ Len(t) = o.kept /\ \A j \in 1..Len(t) : t[j] = s[j] /\ j \in 1..Len(s)
    <3> DEFINE k == o.kept
    <3>1. k \in 0..Len(s) /\ t = SubSeq(s, 1, k)
      BY <1>1
    <3> HIDE DEF k, t
    <3>2. t \in Seq(Records) /\ Len(t) = k /\ \A j \in 1..Len(t) : t[j] = s[j] /\ j \in 1..Len(s)
      BY <3>1
    <3> QED
      BY <3>2 DEF k
  <2> HIDE DEF t
  <2>2. Apart(st, t)
    BY <2>1 DEF Apart
  <2>3. f.rotated \in Seq(Seq(Records)) /\ f.active \in Seq(Records)
    BY DEF LogTypes
  <2>4. Newest(st, Append(f.rotated, f.active))
    BY DEF FilesKept, Files
  <2>5. Newest(st \o t, Append(f.rotated, f.active \o t))
    BY <2>1, <2>2, <2>3, <2>4, NewestGrows
  <2> QED
    BY <1>2, <2>5 DEF FilesKept, Files, t
<1>3. CASE o.kept = 0 /\ o.file \in Rotated(f, bad)
  <2>1. st \o SubSeq(s, 1, 0) = st
    OBVIOUS
  <2>2. FilesKept(st, o.file)
    BY <1>3, RotationKeeps
  <2> QED
    BY <1>3, <2>1, <2>2
<1> QED
  BY <1>2, <1>3, FlushedMeans

\* While nothing fails a flush writes it all, and a rotation starts an empty file.
LEMMA CleanFlush ==
  ASSUME WritersAssumption, NEW f \in LogTypes, NEW s \in Seq(Records), Clean(f, s),
         NEW o \in Flushed(f, s, FALSE)
  PROVE  Clean(o.file, <<>>) /\ o.file.active = f.active \o s
<1>1. f.active \in Seq(Records) /\ f.written \in Nat /\ f.bw = "ok"
  BY DEF LogTypes, Clean
<1>2. CASE s = <<>>
  <2>1. o.file = f
    BY <1>2 DEF Flushed
  <2>2. f.active \o s = f.active /\ f.active \o <<>> = f.active
    BY <1>1, <1>2
  <2> QED
    BY <1>2, <2>1, <2>2
<1>3. CASE s # <<>>
  <2> DEFINE a == f.active \o s
  <2>1. o = [file |-> [f EXCEPT !.active = a, !.written = @ + Bytes(s)], kept |-> Len(s)]
    BY <1>1, <1>3 DEF Flushed
  <2>2. Bytes(a) = Bytes(f.active) + Bytes(s)
    BY <1>1, BytesConcat
  <2>3. a \in Seq(Records) /\ a \o <<>> = a /\ FitsCap(a)
    BY <1>1 DEF Clean
  <2> HIDE DEF a
  <2>4. o.file = [f EXCEPT !.active = a, !.written = f.written + Bytes(s)]
    BY <2>1
  <2>5. /\ o.file.bw = f.bw /\ o.file.present = f.present /\ o.file.active = a
        /\ o.file.written = f.written + Bytes(s) /\ o.file.rotated = f.rotated
    BY <2>4 DEF LogTypes
  <2> QED
    BY <2>2, <2>3, <2>5 DEF Clean, a
<1> QED
  BY <1>2, <1>3

\* Without a failure a rotation starts an empty file.
LEMMA CleanRotation ==
  ASSUME WritersAssumption, NEW f \in LogTypes, Clean(f, <<>>), NEW g \in Rotated(f, FALSE)
  PROVE  Clean(g, <<>>) /\ g.active = <<>>
<1> DEFINE F == Append(f.rotated, f.active)
<1>1. f.active \in Seq(Records) /\ f.rotated \in Seq(Seq(Records)) /\ f.bw = "ok" /\ f.present
  BY DEF LogTypes, Clean
<1>2. g = [[f EXCEPT !.rotated = Evict(F), !.active = <<>>] EXCEPT !.bw = "ok", !.written = 0]
  BY <1>1 DEF Rotated
<1>3. F \in Seq(Seq(Records)) /\ \A i \in 1..Len(F) : FitsCap(F[i])
  <2>1. f.active \o <<>> = f.active
    BY <1>1
  <2>2. FitsCap(f.active)
    BY <2>1 DEF Clean
  <2>3. ASSUME NEW i \in 1..Len(F) PROVE FitsCap(F[i])
    <3>1. CASE i \in 1..Len(f.rotated)
      <4>1. F[i] = f.rotated[i]
        BY <1>1, <3>1
      <4> HIDE DEF F
      <4> QED
        BY <3>1, <4>1 DEF Clean
    <3>2. CASE i = Len(f.rotated) + 1
      <4>1. F[i] = f.active
        BY <1>1, <3>2
      <4> HIDE DEF F
      <4> QED
        BY <2>2, <4>1
    <3> QED
      BY <1>1, <3>1, <3>2
  <2> QED
    BY <1>1, <2>3
<1> HIDE DEF F
<1>4. PICK d \in 0..Len(F) : /\ Len(Evict(F)) = Len(F) - d
                             /\ \A p \in 1..Len(F) - d : Evict(F)[p] = F[p + d]
  BY <1>3, EvictDrops
<1>5. ASSUME NEW i \in 1..Len(Evict(F)) PROVE FitsCap(Evict(F)[i])
  <2>1. i \in 1..Len(F) - d /\ i + d \in 1..Len(F)
    BY <1>3, <1>4
  <2>2. Evict(F)[i] = F[i + d] /\ FitsCap(F[i + d])
    BY <1>3, <1>4, <2>1
  <2> QED
    BY <2>2
<1>6. /\ g.bw = "ok" /\ g.present = f.present /\ g.active = <<>> /\ g.written = 0 /\ g.rotated = Evict(F)
  BY <1>2 DEF LogTypes
<1>7. FitsCap(<<>> \o <<>>)
  <2>1. <<>> \o <<>> = <<>>
    OBVIOUS
  <2>2. Bytes(<<>>) = 0 /\ MaxBytes \in Nat /\ BufferSize \in Nat
    BY BytesBasic DEF WritersAssumption
  <2>3. FitsCap(<<>>)
    BY <2>2 DEF FitsCap, Larger
  <2> QED
    BY <2>1, <2>3
<1>8. Bytes(<<>>) = 0
  BY BytesBasic
<1> QED
  BY <1>1, <1>5, <1>6, <1>7, <1>8 DEF Clean

\* A line that calls for no rotation fits behind the file and the buffer.
LEMMA LineFits ==
  ASSUME WriterTypes, HeldFits, kind = "jsonl", MaxBytes > 0, Clean(log, held),
         NEW r \in Records, ~RotationDue(r)
  PROVE  FitsCap((log.active \o held) \o <<r>>)
<1>1. /\ held \in Seq(Records) /\ log.active \in Seq(Records) /\ WritersAssumption
      /\ log.written = Bytes(log.active) /\ Size[r] \in Nat /\ MaxBytes \in Nat /\ BufferSize \in Nat
  BY TypesMean DEF LogTypes, Clean, WritersAssumption
<1> DEFINE s == log.active \o held
<1>2. /\ s \in Seq(Records) /\ s \o <<r>> = Append(s, r) /\ Bytes(s) = Bytes(log.active) + Bytes(held)
      /\ Bytes(held) \in Nat /\ Bytes(log.active) \in Nat
  <2>1. s \in Seq(Records)
    BY <1>1
  <2>2. Bytes(s) = Bytes(log.active) + Bytes(held)
    BY <1>1, BytesConcat
  <2>3. Bytes(held) \in Nat /\ Bytes(log.active) \in Nat
    BY <1>1, BytesBasic
  <2> HIDE DEF s
  <2>4. s \o <<r>> = Append(s, r)
    BY <2>1
  <2> QED
    BY <2>1, <2>2, <2>3, <2>4
<1>3. CASE log.active = <<>>
  <2>1. s = held
    BY <1>1, <1>3
  <2> HIDE DEF s
  <2>2. Bytes(SubSeq(Append(s, r), 1, Len(Append(s, r)) - 1)) = Bytes(s)
    BY <1>1, <1>2, BytesFront
  <2>3. Bytes(s) < BufferSize
    BY <2>1 DEF HeldFits
  <2> QED
    BY <1>2, <2>2, <2>3 DEF FitsCap, s
<1>4. CASE log.active # <<>>
  <2> HIDE DEF s
  <2>1. log.written > 0
    BY <1>1, <1>4, BytesPositive
  <2>2. log.written + Bytes(held) + Size[r] <= MaxBytes
    BY <1>1, <1>2, <2>1 DEF RotationDue
  <2>3. Bytes(Append(s, r)) = Bytes(s) + Size[r]
    BY <1>1, <1>2, BytesBasic
  <2>4. Bytes(Append(s, r)) <= Larger(MaxBytes, BufferSize)
    BY <1>1, <1>2, <2>2, <2>3 DEF Larger
  <2> QED
    BY <1>2, <2>4 DEF FitsCap, s
<1> QED
  BY <1>3, <1>4

\* A line alone in its file fits, however long it is.
LEMMA AloneFits ==
  ASSUME WritersAssumption, NEW r \in Records
  PROVE  FitsCap(<<>> \o <<r>>)
<1>1. <<>> \o <<r>> = Append(<<>>, r) /\ <<>> \in Seq(Records)
  OBVIOUS
<1>2. Bytes(SubSeq(Append(<<>>, r), 1, Len(Append(<<>>, r)) - 1)) = Bytes(<<>>)
  BY <1>1, BytesFront
<1>3. Bytes(<<>>) = 0 /\ BufferSize \in Nat \ {0}
  BY BytesBasic DEF WritersAssumption
<1> QED
  BY <1>1, <1>2, <1>3 DEF FitsCap

\* What the files keep to, as part of the invariant.
FilesInv ==
  kind = "jsonl" =>
    /\ FilesKept(stored, log)
    /\ MaxBytes > 0 /\ faults = MaxFaults => Clean(log, held)

\* The records in line were not stored before.
LEMMA NextIsNew ==
  ASSUME WorkerInv, NEW s \in Seq(Records), Follows(accepted, settled, s), Len(s) <= Len(held) + Len(ch)
  PROVE  Apart(stored, s)
<1> SUFFICES ASSUME NEW i \in 1..Len(stored), NEW j \in 1..Len(s), stored[i] = s[j] PROVE FALSE
  BY DEF Apart
<1>1. PICK k \in 1..settled : stored[i] = accepted[k]
  BY DEF WorkerInv, StoredFrom
<1>2. s[j] = accepted[settled + j]
  BY DEF Follows
<1>3. settled \in Nat /\ Len(accepted) = settled + Len(held) + Len(ch)
      /\ held \in Seq(Records) /\ ch \in Seq(Records)
  BY TypesMean DEF WorkerInv, InOrder
<1>4. k \in 1..Len(accepted) /\ settled + j \in 1..Len(accepted) /\ k # settled + j
  BY <1>3
<1> QED
  BY <1>1, <1>2, <1>4 DEF WorkerInv, SentOnce

\* The line after the buffer was not stored before, nor with the buffer.
LEMMA ApartAppend ==
  ASSUME NEW st \in Seq(Records), NEW h \in Seq(Records), NEW r \in Records,
         Apart(st, Append(h, r)), \A j \in 1..Len(h) : h[j] # r, NEW k \in 0..Len(h)
  PROVE  Apart(st, h) /\ Apart(st \o SubSeq(h, 1, k), <<r>>)
<1>1. Len(Append(h, r)) = Len(h) + 1 /\ Append(h, r)[Len(h) + 1] = r
      /\ \A j \in 1..Len(h) : Append(h, r)[j] = h[j]
  OBVIOUS
<1>2. Apart(st, h)
  BY <1>1 DEF Apart
<1>3. \A i \in 1..Len(st) : st[i] # r
  BY <1>1 DEF Apart
<1> DEFINE t == SubSeq(h, 1, k)
<1>4. t \in Seq(Records) /\ Len(t) = k /\ \A i \in 1..k : t[i] = h[i]
  OBVIOUS
<1> HIDE DEF t
<1>5. ASSUME NEW i \in 1..Len(st \o t) PROVE (st \o t)[i] # r
  <2>1. CASE i <= Len(st)
    BY <1>3, <1>4, <2>1
  <2>2. CASE i > Len(st)
    <3>1. (st \o t)[i] = t[i - Len(st)] /\ i - Len(st) \in 1..k
      BY <1>4, <2>2
    <3> QED
      BY <1>4, <3>1
  <2> QED
    BY <1>4, <2>1, <2>2
<1>6. Apart(st \o t, <<r>>)
  BY <1>5 DEF Apart
<1> QED
  BY <1>2, <1>6 DEF t

\* A flush of everything held: Sync, and the last one.
LEMMA FlushHeldKeeps ==
  ASSUME WorkerInv, FilesInv, kind = "jsonl", NEW bad \in BOOLEAN, Fault(bad), FlushHeld(bad), held' = <<>>,
         UNCHANGED <<kind, batch>>
  PROVE  Settles(Len(held)) /\ log' \in LogTypes /\ faults' \in 0..MaxFaults /\ FilesInv'
<1>1. /\ held \in Seq(Records) /\ stored \in Seq(Records) /\ log \in LogTypes /\ WritersAssumption
      /\ faults \in Nat /\ MaxFaults \in Nat
  BY TypesMean DEF WorkerInv, WritersAssumption
<1>2. WorkerTypes
  BY TypesGive DEF WorkerInv
<1>3. PICK o \in Flushed(log, held, bad) : log' = o.file /\ SettleOnly(held, 1..o.kept)
  BY DEF FlushHeld
<1>4. o.kept \in 0..Len(held) /\ o.file \in LogTypes
  BY <1>1, FlushedMeans
<1>5. Follows(accepted, settled, held)
  BY DEF WorkerInv, InOrder
<1>6. Settles(Len(held))
  <2>1. 1..o.kept \in SUBSET (1..Len(held))
    BY <1>4
  <2> QED
    BY <1>1, <1>3, <1>5, <2>1, SettleOnlyMeans DEF WorkerInv
<1>7. faults' \in 0..MaxFaults /\ (bad => faults' # MaxFaults) /\ (~bad => faults' = faults)
  BY <1>1, <1>2 DEF Fault, WorkerTypes
<1>8. stored' = stored \o SubSeq(held, 1, o.kept)
  <2> DEFINE k == o.kept
  <2>1. stored' = stored \o Picked(held, 1..k) /\ k \in 0..Len(held)
    BY <1>3, <1>4 DEF SettleOnly, Picked, Place
  <2> HIDE DEF k
  <2> DEFINE q == [i \in 1..k |-> i]
  <2>2. Lists(q, k, 1..k)
    BY DEF Lists
  <2>3. Picked(held, 1..k) = [i \in 1..k |-> held[q[i]]]
    <3> DEFINE K == 1..k
    <3>1. K \in SUBSET Int /\ k \in Nat
      BY <2>1
    <3>2. Lists(q, k, K)
      BY <2>2
    <3> HIDE DEF q, K
    <3>3. Picked(held, K) = [i \in 1..k |-> held[q[i]]]
      BY <3>1, <3>2, PickedList
    <3> QED
      BY <3>3 DEF K
  <2>4. SubSeq(held, 1, k) = [i \in 1..k |-> held[q[i]]]
    BY <1>1, <2>1
  <2> QED
    BY <2>1, <2>3, <2>4 DEF k
<1>9. FilesKept(stored', log')
  <2>1. Apart(stored, held)
    <3>1. Len(held) <= Len(held) + Len(ch)
      BY TypesMean DEF WorkerInv
    <3> QED
      BY <1>1, <1>5, <3>1, NextIsNew
  <2>2. FilesKept(stored, log)
    BY DEF FilesInv
  <2> QED
    BY <1>1, <1>3, <1>8, <2>1, <2>2, FlushKeeps
<1>10. ASSUME MaxBytes > 0, faults' = MaxFaults PROVE Clean(log', held')
  <2>1. bad = FALSE /\ faults = MaxFaults
    BY <1>7, <1>10
  <2>2. Clean(log, held)
    BY <1>10, <2>1 DEF FilesInv
  <2>3. Clean(o.file, <<>>)
    BY <1>1, <2>1, <2>2, <1>3, CleanFlush
  <2> QED
    BY <1>3, <2>3
<1> QED
  BY <1>3, <1>4, <1>6, <1>7, <1>9, <1>10 DEF FilesInv

\* A flush of everything held: the ticker, a caller, or the end of run.
LEMMA SyncKeeps ==
  ASSUME WorkerInv, FilesInv, Sync \/ RunEnds
  PROVE  StepKeeps /\ FilesInv'
<1>1. PICK bad \in BOOLEAN : Fault(bad) /\ FlushHeld(bad)
  BY DEF Sync, RunEnds
<1>2. /\ kind = "jsonl" /\ worker = "on" /\ held' = <<>>
      /\ UNCHANGED <<kind, batch, callVars, primed, timer, attempt, closed>>
      /\ \/ worker' = worker
         \/ worker' = "done" /\ ch = <<>> /\ closed = "closing"
  <2>1. CASE Sync
    BY <2>1 DEF Sync
  <2>2. CASE RunEnds
    BY <2>2 DEF RunEnds
  <2> QED
    BY <2>1, <2>2
<1>3. Settles(Len(held)) /\ log' \in LogTypes /\ faults' \in 0..MaxFaults /\ FilesInv'
  BY <1>1, <1>2, FlushHeldKeeps
<1>4. Worked
  <2>1. Len(held) \in Nat
    BY TypesMean DEF WorkerInv
  <2> QED
    BY <1>2, <1>3, <2>1 DEF Worked, callVars
<1>5. HeldFits' /\ StoreIdle'
  BY <1>2, NothingHeld
<1>6. WorkerTypes' /\ Ended'
  BY <1>2, <1>3, TypesGive DEF WorkerTypes, Ended, callVars, WorkerInv
<1> QED
  BY <1>3, <1>4, <1>5, <1>6 DEF StepKeeps

\* Concatenation is associative.
LEMMA Regrouped ==
  ASSUME NEW x \in Seq(Records), NEW y \in Seq(Records), NEW z \in Seq(Records)
  PROVE  (x \o y) \o z = x \o (y \o z)
BY ConcatAssociative

\* The beginnings of two sequences behind a third.
LEMMA Pieces ==
  ASSUME NEW u \in Seq(Records), NEW v \in Seq(Records), NEW j \in 0..Len(u), NEW k \in 0..Len(v),
         NEW st \in Seq(Records)
  PROVE  /\ SubSeq(u, 1, j) \in Seq(Records) /\ SubSeq(v, 1, k) \in Seq(Records)
         /\ st \o SubSeq(u, 1, j) \in Seq(Records)
         /\ (st \o SubSeq(u, 1, j)) \o SubSeq(v, 1, k) = st \o (SubSeq(u, 1, j) \o SubSeq(v, 1, k))
<1> DEFINE x == SubSeq(u, 1, j)
           y == SubSeq(v, 1, k)
<1>1. x \in Seq(Records) /\ y \in Seq(Records)
  OBVIOUS
<1> HIDE DEF x, y
<1>2. st \o x \in Seq(Records)
  BY <1>1
<1>3. (st \o x) \o y = st \o (x \o y)
  BY <1>1, Regrouped
<1> QED
  BY <1>1, <1>2, <1>3 DEF x, y

\* What is stored of a stretch of what was accepted.
Takes(a, n, m, s) == \E T \in SUBSET (n + 1 .. n + m) : s = Picked(a, T)

\* The beginnings of two stretches that follow each other are stored of both.
LEMMA TakenTwice ==
  ASSUME NEW a, NEW u \in Seq(Records), NEW v \in Seq(Records), NEW n \in Nat,
         Follows(a, n, u), Follows(a, n + Len(u), v),
         NEW j \in 0..Len(u), NEW k \in 0..Len(v)
  PROVE  Takes(a, n, Len(u) + Len(v), SubSeq(u, 1, j) \o SubSeq(v, 1, k))
<1>1. \E T \in SUBSET (n + 1 .. n + Len(u) + Len(v)) :
        SubSeq(u, 1, j) \o SubSeq(v, 1, k) = Picked(a, T)
  BY PickedTwice
<1>2. n + Len(u) + Len(v) = n + (Len(u) + Len(v))
  OBVIOUS
<1> QED
  BY <1>1, <1>2, Zenon DEF Takes

\* The beginning of one stretch.
LEMMA TakenOnce ==
  ASSUME NEW a, NEW u \in Seq(Records), NEW n \in Nat, Follows(a, n, u), NEW j \in 0..Len(u)
  PROVE  Takes(a, n, Len(u), SubSeq(u, 1, j))
<1> DEFINE e == <<>>
<1>1. e \in Seq(Records) /\ Len(e) = 0 /\ 0 \in 0..Len(e) /\ Follows(a, n + Len(u), e)
      /\ SubSeq(u, 1, j) \o SubSeq(e, 1, 0) = SubSeq(u, 1, j) /\ Len(u) + Len(e) = Len(u)
  BY DEF Follows
<1> HIDE DEF e
<1>2. Takes(a, n, Len(u) + Len(e), SubSeq(u, 1, j) \o SubSeq(e, 1, 0))
  BY <1>1, TakenTwice
<1> QED
  BY <1>1, <1>2

\* What is known once the line is in the buffer.
OpenedWell(r, b, h, f, st, n) ==
  /\ f \in LogTypes /\ h \in Seq(Records) /\ st \in Seq(Records)
  /\ \/ h = Append(held, r) /\ st = stored /\ n = 0
     \/ /\ h = <<r>> /\ n = Len(held)
        /\ \E k \in 0..Len(held) : st = stored \o SubSeq(held, 1, k)
  /\ FilesKept(st, f) /\ Apart(st, h)
  /\ (MaxBytes > 0 /\ faults = MaxFaults /\ ~b => Clean(f, h))

\* The buffer before the line is added: whatever has been done keeps the files.
LEMMA OpenedKeeps ==
  ASSUME WorkerInv, FilesInv, kind = "jsonl", ch # <<>>, NEW r, r = Head(ch), NEW b \in BOOLEAN,
         NEW h, NEW f, NEW st, NEW n, Opened(r, b, h, f, st, n)
  PROVE  OpenedWell(r, b, h, f, st, n)
<1>0. WriterTypes /\ InOrder /\ StoredFrom /\ SentOnce
  BY DEF WorkerInv
<1>1. /\ held \in Seq(Records) /\ ch \in Seq(Records) /\ stored \in Seq(Records) /\ settled \in Nat
      /\ log \in LogTypes /\ WritersAssumption /\ MaxBytes \in Nat
  BY <1>0, TypesMean DEF WritersAssumption
<1>2. /\ r \in Records /\ Append(held, r) \in Seq(Records)
      /\ Len(Append(held, r)) = Len(held) + 1
      /\ Follows(accepted, settled, Append(held, r))
  BY <1>0, HeldIsNext
<1>3. Apart(stored, Append(held, r))
  <2>1. Len(Append(held, r)) <= Len(held) + Len(ch)
    BY <1>1, <1>2
  <2> QED
    BY <1>2, <2>1, NextIsNew
<1>4. \A j \in 1..Len(held) : held[j] # r
  <2> SUFFICES ASSUME NEW j \in 1..Len(held), held[j] = r PROVE FALSE
    OBVIOUS
  <2>1. Len(accepted) = settled + Len(held) + Len(ch) /\ Len(ch) >= 1
    BY <1>0, <1>1 DEF InOrder
  <2>2. r = accepted[settled + (Len(held) + 1)]
    <3>1. Append(held, r)[Len(held) + 1] = r /\ Len(held) + 1 \in 1..Len(Append(held, r))
      BY <1>1, <1>2
    <3> QED
      BY <1>2, <3>1 DEF Follows
  <2>3. held[j] = accepted[settled + j]
    BY <1>0 DEF InOrder, Follows
  <2>4. settled + j \in 1..Len(accepted) /\ settled + (Len(held) + 1) \in 1..Len(accepted)
    BY <1>1, <2>1
  <2>5. settled + j # settled + (Len(held) + 1)
    BY <1>1
  <2> QED
    BY <1>0, <2>2, <2>3, <2>4, <2>5 DEF SentOnce
<1>5. /\ FilesKept(stored, log) /\ HeldFits
      /\ (MaxBytes > 0 /\ faults = MaxFaults => Clean(log, held))
  BY DEF FilesInv, WorkerInv
<1>6. log.active \in Seq(Records) /\ log.active \o Append(held, r) = (log.active \o held) \o <<r>>
  <2>1. log.active \in Seq(Records)
    BY <1>1 DEF LogTypes
  <2>2. Append(held, r) = held \o <<r>>
    BY <1>1, <1>2
  <2>3. <<r>> \in Seq(Records)
    BY <1>2
  <2>4. log.active \o (held \o <<r>>) = (log.active \o held) \o <<r>>
    <3> DEFINE x == log.active
               y == <<r>>
    <3>1. x \in Seq(Records) /\ y \in Seq(Records) /\ held \in Seq(Records)
      BY <1>1, <2>1, <2>3
    <3> HIDE DEF x, y
    <3>2. (x \o held) \o y = x \o (held \o y)
      BY <3>1, Regrouped
    <3> QED
      BY <3>2 DEF x, y
  <2> QED
    BY <2>1, <2>2, <2>4
<1>7. CASE /\ h = Append(held, r) /\ f = log /\ st = stored /\ n = 0
           /\ ~RotationDue(r)
  <2>1. MaxBytes > 0 /\ faults = MaxFaults => Clean(f, h)
    <3> SUFFICES ASSUME MaxBytes > 0, faults = MaxFaults PROVE Clean(f, h)
      OBVIOUS
    <3>1. Clean(log, held)
      BY <1>5
    <3>2. FitsCap((log.active \o held) \o <<r>>)
      BY <1>0, <1>2, <1>5, <1>7, <3>1, LineFits
    <3> QED
      BY <1>6, <1>7, <3>1, <3>2 DEF Clean
  <2> QED
    BY <1>1, <1>2, <1>3, <1>5, <1>7, <2>1 DEF OpenedWell
<1>8. ASSUME h = <<r>>, n = Len(held), NEW o \in Flushed(log, held, b),
             st = stored \o SubSeq(held, 1, o.kept),
             \/ RotationDue(r) /\ f \in Rotated(o.file, b)
             \/ ~RotationDue(r) /\ held # <<>> /\ f = o.file
      PROVE  /\ f \in LogTypes /\ h \in Seq(Records) /\ st \in Seq(Records)
             /\ o.kept \in 0..Len(held)
             /\ FilesKept(st, f) /\ Apart(st, h)
             /\ (MaxBytes > 0 /\ faults = MaxFaults /\ ~b => Clean(f, h))
  <2>1. o.kept \in 0..Len(held) /\ o.file \in LogTypes
    BY <1>1, FlushedMeans
  <2>2. st \in Seq(Records) /\ h \in Seq(Records)
    <3> DEFINE k == o.kept
    <3>1. k \in 0..Len(held) /\ st = stored \o SubSeq(held, 1, k)
      BY <1>8, <2>1
    <3> HIDE DEF k
    <3>2. stored \o SubSeq(held, 1, k) \in Seq(Records)
      BY <1>1, <3>1, Pieces
    <3>3. <<r>> \in Seq(Records)
      BY <1>2
    <3> QED
      BY <1>8, <3>1, <3>2, <3>3
  <2>3. Apart(stored, held) /\ Apart(st, <<r>>)
    BY <1>1, <1>2, <1>3, <1>4, <1>8, <2>1, ApartAppend
  <2>4. FilesKept(st, o.file)
    BY <1>1, <1>5, <1>8, <2>3, FlushKeeps
  <2>5. FilesKept(st, f) /\ f \in LogTypes
    <3>1. CASE f \in Rotated(o.file, b)
      BY <1>1, <2>1, <2>2, <2>4, <3>1, RotationKeeps, RotatedMeans
    <3>2. CASE f = o.file
      BY <2>1, <2>4, <3>2
    <3> QED
      BY <1>8, <3>1, <3>2
  <2>6. ASSUME MaxBytes > 0, faults = MaxFaults, ~b PROVE Clean(f, h)
    <3>1. Clean(log, held) /\ b = FALSE
      BY <1>5, <2>6
    <3>2. o \in Flushed(log, held, FALSE)
      BY <1>8, <3>1
    <3>3. Clean(o.file, <<>>) /\ o.file.active = log.active \o held
      BY <1>1, <3>1, <3>2, CleanFlush
    <3>4. CASE f \in Rotated(o.file, b)
      <4>1. f \in Rotated(o.file, FALSE)
        BY <3>1, <3>4
      <4>2. Clean(f, <<>>) /\ f.active = <<>>
        BY <1>1, <2>1, <3>3, <4>1, CleanRotation
      <4>3. FitsCap(<<>> \o <<r>>)
        BY <1>1, <1>2, AloneFits
      <4> QED
        BY <1>8, <4>2, <4>3 DEF Clean
    <3>5. CASE ~RotationDue(r) /\ f = o.file
      <4>1. FitsCap((log.active \o held) \o <<r>>)
        BY <1>0, <1>2, <1>5, <2>6, <3>1, <3>5, LineFits
      <4> QED
        BY <1>8, <3>3, <3>5, <4>1 DEF Clean
    <3> QED
      BY <1>8, <3>4, <3>5
  <2> QED
    BY <2>1, <2>2, <2>3, <2>5, <2>6, <1>8
<1> QED
  BY <1>7, <1>8 DEF Opened, OpenedWell

\* A turn of JSONLRecorder.run.
LEMMA RunKeeps ==
  ASSUME WorkerInv, FilesInv, Run
  PROVE  StepKeeps /\ FilesInv'
<1>0. WriterTypes /\ InOrder /\ Ended
  BY DEF WorkerInv
<1> DEFINE r == Head(ch)
<1>1. /\ kind = "jsonl" /\ worker = "on" /\ ch # <<>> /\ WriteLine(r) /\ ch' = Tail(ch)
      /\ UNCHANGED <<kind, batch, calls, accepted, primed, timer, attempt, worker, closed>>
  BY DEF Run
<1>2. /\ held \in Seq(Records) /\ ch \in Seq(Records) /\ stored \in Seq(Records) /\ settled \in Nat
      /\ log \in LogTypes /\ WritersAssumption /\ MaxBytes \in Nat /\ batch \in Nat /\ faults \in Nat
      /\ MaxFaults \in Nat /\ BufferSize \in Nat \ {0} /\ accepted \in Seq(Records)
  BY <1>0, TypesMean DEF WritersAssumption
<1>3. /\ r \in Records /\ Append(held, r) \in Seq(Records)
      /\ Len(Append(held, r)) = Len(held) + 1
      /\ Follows(accepted, settled, Append(held, r)) /\ Follows(accepted, settled, held)
      /\ Follows(accepted, settled + Len(held), <<r>>)
  BY <1>0, <1>1, HeldIsNext DEF InOrder
<1>4. WorkerTypes
  BY <1>0, TypesGive
<1> HIDE DEF r
<1>5. WroteLine(r)
  BY <1>1, <1>2, <1>3, WriteLineMeans
<1>6. PICK bad \in BOOLEAN, b \in BOOLEAN, c \in BOOLEAN :
        /\ Fault(bad) /\ (b => bad) /\ (c => bad)
        /\ \E h, f, st, n : Opened(r, b, h, f, st, n) /\ Kept(c, h, f, st, n)
  BY <1>5 DEF WroteLine
<1>7. PICK h, f, st, n : Opened(r, b, h, f, st, n) /\ Kept(c, h, f, st, n)
  BY <1>6
<1>8. /\ f \in LogTypes /\ h \in Seq(Records) /\ st \in Seq(Records)
      /\ \/ h = Append(held, r) /\ st = stored /\ n = 0
         \/ /\ h = <<r>> /\ n = Len(held)
            /\ \E k \in 0..Len(held) : st = stored \o SubSeq(held, 1, k)
      /\ FilesKept(st, f) /\ Apart(st, h)
      /\ (MaxBytes > 0 /\ faults = MaxFaults /\ ~b => Clean(f, h))
  <2>1. r = Head(ch)
    BY DEF r
  <2> QED
    <3>1. OpenedWell(r, b, h, f, st, n)
      BY <1>1, <1>7, <2>1, OpenedKeeps
    <3> QED
      BY <3>1 DEF OpenedWell
<1>9. faults' \in 0..MaxFaults /\ (bad => faults' # MaxFaults) /\ (~bad => faults' = faults)
  BY <1>2, <1>4, <1>6 DEF Fault, WorkerTypes
<1>10. \/ /\ Bytes(h) >= batch /\ held' = <<>>
          /\ settled' = settled + n + Len(h)
          /\ \E o \in Flushed(f, h, c) : log' = o.file /\ stored' = st \o SubSeq(h, 1, o.kept)
       \/ /\ ~(Bytes(h) >= batch)
          /\ log' = f /\ held' = h /\ stored' = st /\ settled' = settled + n
  BY <1>7 DEF Kept
<1>11. FilesInv' /\ log' \in LogTypes
  <2>1. ASSUME NEW o \in Flushed(f, h, c), log' = o.file, stored' = st \o SubSeq(h, 1, o.kept), held' = <<>>
        PROVE  FilesInv' /\ log' \in LogTypes
    <3>1. FilesKept(stored', log')
      BY <1>2, <1>8, <2>1, FlushKeeps
    <3>2. ASSUME MaxBytes > 0, faults' = MaxFaults PROVE Clean(log', held')
      <4>1. c = FALSE /\ Clean(f, h)
        BY <1>6, <1>8, <1>9, <3>2
      <4>2. o \in Flushed(f, h, FALSE)
        BY <2>1, <4>1
      <4>3. Clean(o.file, <<>>)
        BY <1>2, <1>8, <4>1, <4>2, CleanFlush
      <4> QED
        BY <2>1, <4>3
    <3>3. log' \in LogTypes
      BY <1>2, <1>8, <2>1, FlushedMeans
    <3> QED
      BY <3>1, <3>2, <3>3 DEF FilesInv
  <2>2. ASSUME log' = f, held' = h, stored' = st PROVE FilesInv' /\ log' \in LogTypes
    <3>1. ASSUME MaxBytes > 0, faults' = MaxFaults PROVE Clean(log', held')
      BY <1>6, <1>8, <1>9, <2>2, <3>1
    <3> QED
      BY <1>8, <2>2, <3>1 DEF FilesInv
  <2> QED
    BY <1>10, <2>1, <2>2
<1>12. HeldFits' /\ StoreIdle'
  <2>1. CASE held' = <<>>
    BY <1>1, <2>1, NothingHeld
  <2>2. CASE ~(Bytes(h) >= batch) /\ held' = h
    <3>1. Bytes(h) \in Nat
      BY <1>2, <1>8, BytesBasic
    <3>2. Bytes(held') < batch /\ batch' = batch /\ batch = BufferSize /\ kind' = "jsonl"
      BY <1>1, <1>2, <2>2, <3>1 DEF HeldFits, WorkerInv
    <3> QED
      BY <3>2 DEF HeldFits, StoreIdle, Store
  <2> QED
    BY <1>10, <2>1, <2>2
<1>13. WorkerTypes' /\ Ended'
  BY <1>0, <1>1, <1>4, <1>9, <1>11 DEF WorkerTypes, Ended
<1>14. Worked
  <2>1. h = Append(held, r) /\ st = stored /\ n = 0 /\ ~(Bytes(h) >= batch)
        => Settles(0) /\ held' = Append(held, r)
    <3> SUFFICES ASSUME h = Append(held, r), st = stored, n = 0, ~(Bytes(h) >= batch)
                 PROVE  Settles(0) /\ held' = Append(held, r)
      OBVIOUS
    <3>1. stored' = stored /\ settled' = settled /\ held' = Append(held, r)
      BY <1>2, <1>10
    <3> QED
      BY <1>0, <3>1, SettleNone
  <2>2. ASSUME NEW o \in Flushed(f, h, c), stored' = st \o SubSeq(h, 1, o.kept),
               settled' = settled + n + Len(h)
        PROVE  Settles(Len(held) + 1)
    <3> DEFINE k == o.kept
    <3>1. k \in 0..Len(h) /\ stored' = st \o SubSeq(h, 1, k)
      BY <1>2, <1>8, <2>2, FlushedMeans
    <3> HIDE DEF k
    <3>2. CASE h = Append(held, r) /\ st = stored /\ n = 0
      <4>1. Takes(accepted, settled, Len(h), SubSeq(h, 1, k))
        <5>1. Follows(accepted, settled, h)
          BY <1>3, <3>2
        <5> QED
          BY <1>2, <1>8, <3>1, <5>1, TakenOnce
      <4>2. Len(h) = Len(held) + 1 /\ settled' = settled + Len(h)
        BY <1>2, <1>3, <1>8, <2>2, <3>2
      <4>3. Settles(Len(h))
        BY <3>1, <3>2, <4>1, <4>2 DEF Settles, Takes
      <4> QED
        BY <4>2, <4>3
    <3>3. CASE /\ h = <<r>> /\ n = Len(held)
               /\ \E j \in 0..Len(held) : st = stored \o SubSeq(held, 1, j)
      <4>1. PICK j \in 0..Len(held) : st = stored \o SubSeq(held, 1, j)
        BY <3>3
      <4>2. Takes(accepted, settled, Len(held) + Len(h), SubSeq(held, 1, j) \o SubSeq(h, 1, k))
        <5>1. Follows(accepted, settled + Len(held), h)
          BY <1>3, <3>3
        <5> QED
          BY <1>2, <1>3, <1>8, <3>1, <5>1, TakenTwice
      <4>3. Len(h) = 1 /\ Len(held) \in Nat /\ settled' = settled + (Len(held) + Len(h))
        BY <1>2, <2>2, <3>3
      <4>4. stored' = stored \o (SubSeq(held, 1, j) \o SubSeq(h, 1, k))
        <5>1. (stored \o SubSeq(held, 1, j)) \o SubSeq(h, 1, k)
              = stored \o (SubSeq(held, 1, j) \o SubSeq(h, 1, k))
          <6> DEFINE x == SubSeq(held, 1, j)
                     y == SubSeq(h, 1, k)
          <6>1. x \in Seq(Records) /\ y \in Seq(Records)
            BY <1>2, <1>8, <3>1, Pieces
          <6>2. stored \in Seq(Records)
            BY <1>2
          <6> HIDE DEF x, y
          <6>3. (stored \o x) \o y = stored \o (x \o y)
            BY <6>1, <6>2, Regrouped
          <6> QED
            BY <6>3 DEF x, y
        <5> QED
          BY <3>1, <4>1, <5>1
      <4>5. Settles(Len(held) + Len(h))
        BY <4>2, <4>3, <4>4 DEF Settles, Takes
      <4> QED
        BY <4>3, <4>5
    <3> QED
      BY <1>8, <3>2, <3>3
  <2>3. ASSUME h = <<r>>, n = Len(held), stored' = st, settled' = settled + n,
               NEW j \in 0..Len(held), st = stored \o SubSeq(held, 1, j)
        PROVE  Settles(Len(held))
    <3>1. Takes(accepted, settled, Len(held), SubSeq(held, 1, j))
      BY <1>2, <1>3, TakenOnce
    <3> QED
      BY <2>3, <3>1 DEF Settles, Takes
  <2>4. UNCHANGED <<kind, batch, calls, accepted, closed>> /\ ch # <<>> /\ ch' = Tail(ch)
        /\ Len(held) \in Nat /\ Len(held) + 1 \in Nat /\ 0 \in Nat /\ r = Head(ch)
    BY <1>1, <1>2 DEF r
  <2>5. CASE Bytes(h) >= batch /\ held' = <<>>
    <3>1. Settles(Len(held) + 1)
      BY <1>10, <2>2, <2>5
    <3> QED
      BY <2>4, <2>5, <3>1 DEF Worked
  <2>6. CASE ~(Bytes(h) >= batch) /\ held' = h /\ stored' = st /\ settled' = settled + n
    <3>1. CASE h = Append(held, r) /\ st = stored /\ n = 0
      BY <2>1, <2>4, <2>6, <3>1 DEF Worked
    <3>2. CASE /\ h = <<r>> /\ n = Len(held)
               /\ \E j \in 0..Len(held) : st = stored \o SubSeq(held, 1, j)
      <4>1. Settles(Len(held))
        BY <2>3, <2>6, <3>2
      <4> QED
        BY <2>4, <2>6, <3>2, <4>1 DEF Worked
    <3> QED
      BY <1>8, <3>1, <3>2
  <2> QED
    BY <1>10, <2>5, <2>6
<1> QED
  BY <1>11, <1>12, <1>13, <1>14 DEF StepKeeps

\* The inductive invariant of the writers.
WriterInv == WorkerInv /\ FilesInv

\* The goroutine keeps the invariant and does nothing an abstract writer may not.
LEMMA WorkKeeps ==
  ASSUME WriterInv, Work \/ Sync
  PROVE  WriterInv' /\ (S!Settle \/ UNCHANGED S!sinkVars)
<1>0. WorkerInv /\ FilesInv /\ WriterTypes /\ InOrder /\ StoredFrom /\ SentOnce
  BY DEF WriterInv, WorkerInv
<1>1. StepKeeps /\ FilesInv'
  <2>1. CASE Run \/ RunEnds \/ Sync
    BY <1>0, <2>1, RunKeeps, SyncKeeps
  <2>2. CASE Drain \/ DrainEnds \/ Gather \/ Post \/ GatherEnds
    <3>1. StepKeeps
      BY <1>0, <2>2, DrainKeeps, DrainEndsKeeps, GatherKeeps, PostKeeps
    <3>2. kind # "jsonl" /\ kind' = kind
      BY <2>2 DEF Drain, DrainEnds, Gather, Post, GatherEnds, Store
    <3> QED
      BY <3>1, <3>2 DEF FilesInv
  <2> QED
    BY <2>1, <2>2 DEF Work
<1>2. Worked /\ WorkerTypes' /\ Ended' /\ StoreIdle' /\ HeldFits'
  BY <1>1 DEF StepKeeps
<1>3. UNCHANGED <<kind, batch, calls, accepted, closed>>
  BY <1>2 DEF Worked
<1>4. /\ ch' \in Seq(Records) /\ held' \in Seq(Records) /\ stored' \in Seq(Records)
      /\ settled' \in 0..Len(accepted) /\ Len(ch') <= Len(ch)
      /\ InOrder' /\ StoredFrom'
      /\ S!Settle \/ UNCHANGED <<accepted, settled, stored, closed = "yes">>
  BY <1>0, <1>2, WorkedKeeps
<1>5. WriterTypes'
  <2>1. ch \in Seq(Records) /\ Len(ch) <= QueueSize /\ QueueSize \in Nat /\ WritersAssumption
        /\ accepted \in Seq(Records)
    BY <1>0 DEF WriterTypes, TypeOK, WritersAssumption
  <2>2. Len(ch') <= QueueSize
    BY <1>4, <2>1
  <2>3. TypeOK'
    BY <1>0, <1>2, <1>3, <1>4, <2>1, <2>2 DEF WriterTypes, TypeOK, WorkerTypes, LogTypes
  <2> QED
    BY <1>2, <2>1, <2>3 DEF WriterTypes, WorkerTypes
<1>6. SentOnce'
  BY <1>0, <1>3 DEF SentOnce
<1>7. S!Settle \/ UNCHANGED S!sinkVars
  BY <1>4 DEF S!sinkVars
<1> QED
  BY <1>1, <1>2, <1>4, <1>5, <1>6, <1>7 DEF WriterInv, WorkerInv

\* A caller's record is refused, dropped or lost to a closed channel, or taken.
Turned(r, v) ==
  /\ calls[r] \in {"new", "checked"} /\ calls' = [calls EXCEPT ![r] = v]
  /\ UNCHANGED <<ch, accepted>>
  /\ v \in {"checked", "refused", "panicked", "dropped", "unsampled"}

Taken(r) ==
  /\ calls[r] \in {"new", "checked"} /\ calls' = [calls EXCEPT ![r] = "sent"]
  /\ closed \notin {"closing", "yes"} /\ Len(ch) < QueueSize
  /\ ch' = Append(ch, r) /\ accepted' = Append(accepted, r)

\* What the callers do comes to two things.
LEMMA CallersMean ==
  ASSUME Callers
  PROVE  /\ UNCHANGED <<kind, batch, drainVars, closed>>
         /\ \E r \in Records : (\E v : Turned(r, v)) \/ Taken(r)
<1>1. PICK r \in Records : RecordRequest(r) \/ RecordScore(r) \/ RecordLine(r) \/ NotSampled(r) \/ Submit(r)
  BY DEF Callers
<1>2. UNCHANGED <<kind, batch, drainVars, closed>>
  BY <1>1 DEF RecordRequest, RecordScore, RecordLine, NotSampled, Submit
<1>3. ASSUME Check(r) PROVE \E v : Turned(r, v)
  <2>1. Turned(r, IF closed = "no" THEN "checked" ELSE "refused")
    BY <1>3 DEF Check, Turned
  <2> QED
    BY <2>1
<1>4. ASSUME Send(r) PROVE (\E v : Turned(r, v)) \/ Taken(r)
  <2>1. Turned(r, "panicked") \/ Turned(r, "dropped") \/ Taken(r)
    BY <1>4 DEF Send, Turned, Taken
  <2> QED
    BY <2>1
<1>5. ASSUME RecordScore(r) PROVE (\E v : Turned(r, v)) \/ Taken(r)
  <2>1. Turned(r, "refused") \/ Turned(r, "dropped") \/ Taken(r)
    BY <1>5 DEF RecordScore, Turned, Taken
  <2> QED
    BY <2>1
<1>6. ASSUME NotSampled(r) PROVE \E v : Turned(r, v)
  <2>1. Turned(r, "unsampled")
    BY <1>6 DEF NotSampled, Turned
  <2> QED
    BY <2>1
<1>7. Check(r) \/ Send(r) \/ RecordScore(r) \/ NotSampled(r)
  BY <1>1 DEF RecordRequest, RecordLine, Submit
<1> QED
  BY <1>2, <1>3, <1>4, <1>5, <1>6, <1>7

\* A caller keeps the invariant; a record it hands over is new, and Close has not returned.
LEMMA CallersKeep ==
  ASSUME WriterInv, Callers
  PROVE  WriterInv' /\ (S!Accept \/ UNCHANGED S!sinkVars)
<1>0. WorkerInv /\ FilesInv /\ WriterTypes /\ InOrder /\ StoredFrom /\ SentOnce /\ Ended
      /\ StoreIdle /\ HeldFits
  BY DEF WriterInv, WorkerInv
<1>1. UNCHANGED <<kind, batch, closed, held, primed, timer, attempt, stored, settled, log, faults, worker>>
  BY CallersMean DEF drainVars
<1>2. PICK r \in Records : (\E v : Turned(r, v)) \/ Taken(r)
  BY CallersMean
<1>3. /\ ch \in Seq(Records) /\ accepted \in Seq(Records) /\ held \in Seq(Records)
      /\ stored \in Seq(Records) /\ settled \in Nat /\ QueueSize \in Nat
  BY <1>0, TypesMean DEF WritersAssumption
<1>4. FilesInv' /\ StoreIdle' /\ HeldFits'
  <2>1. FilesInv'
    BY <1>0, <1>1 DEF FilesInv
  <2>2. StoreIdle' /\ HeldFits'
    BY <1>0, <1>1 DEF StoreIdle, HeldFits
  <2> QED
    BY <2>1, <2>2
<1>5. /\ calls \in [Records -> {"new", "checked", "sent", "dropped", "refused", "panicked", "unsampled"}]
      /\ WorkerTypes'
  BY <1>0, <1>1, TypesGive DEF WriterTypes, TypeOK, WorkerTypes
<1>6. ASSUME /\ calls' \in [Records -> {"new", "checked", "sent", "dropped", "refused", "panicked", "unsampled"}]
             /\ ch' \in Seq(Records) /\ accepted' \in Seq(Records) /\ Len(ch') <= QueueSize
             /\ Len(accepted) <= Len(accepted')
      PROVE  WriterTypes'
  <2>1. settled \in 0..Len(accepted')
    BY <1>0, <1>3, <1>6 DEF WriterTypes, TypeOK
  <2>2. TypeOK'
    BY <1>0, <1>1, <1>3, <1>5, <1>6, <2>1 DEF WriterTypes, TypeOK, WorkerTypes, LogTypes
  <2> QED
    BY <1>0, <1>5, <2>2 DEF WriterTypes, WorkerTypes
<1>7. ASSUME NEW v, Turned(r, v) PROVE WriterInv' /\ UNCHANGED S!sinkVars
  <2>1. UNCHANGED <<ch, accepted>>
    BY <1>7 DEF Turned
  <2>2. calls' \in [Records -> {"new", "checked", "sent", "dropped", "refused", "panicked", "unsampled"}]
    BY <1>5, <1>7 DEF Turned
  <2>3. WriterTypes'
    <3>1. Len(ch) <= QueueSize
      BY <1>0 DEF WriterTypes, TypeOK
    <3>2. Len(accepted) \in Nat
      BY <1>3
    <3>3. /\ ch' \in Seq(Records) /\ accepted' \in Seq(Records)
          /\ Len(ch') <= QueueSize /\ Len(accepted) <= Len(accepted')
      BY <1>3, <2>1, <3>1, <3>2
    <3> QED
      BY <1>6, <2>2, <3>3
  <2>4. InOrder' /\ StoredFrom' /\ Ended'
    BY <1>0, <1>1, <2>1 DEF InOrder, StoredFrom, Ended, Follows
  <2>5. SentOnce'
    <3>1. \A i \in 1..Len(accepted) : accepted[i] \in Records /\ accepted[i] # r
      BY <1>0, <1>3, <1>7 DEF SentOnce, Turned
    <3>2. \A x \in Records : x # r => calls'[x] = calls[x]
      BY <1>5, <1>7 DEF Turned
    <3> QED
      BY <1>0, <2>1, <3>1, <3>2 DEF SentOnce
  <2> QED
    BY <1>1, <1>4, <2>1, <2>3, <2>4, <2>5 DEF WriterInv, WorkerInv, S!sinkVars
<1>8. ASSUME Taken(r) PROVE WriterInv' /\ S!Accept
  <2>1. /\ calls[r] \in {"new", "checked"} /\ calls' = [calls EXCEPT ![r] = "sent"]
        /\ closed \notin {"closing", "yes"} /\ Len(ch) < QueueSize
        /\ ch' = Append(ch, r) /\ accepted' = Append(accepted, r)
    BY <1>8 DEF Taken
  <2>2. /\ ch' \in Seq(Records) /\ Len(ch') = Len(ch) + 1
        /\ \A i \in 1..Len(ch) : ch'[i] = ch[i]
        /\ ch'[Len(ch) + 1] = r
    BY <1>3, <2>1
  <2>3. /\ accepted' \in Seq(Records) /\ Len(accepted') = Len(accepted) + 1
        /\ \A i \in 1..Len(accepted) : accepted'[i] = accepted[i] /\ accepted[i] \in Records
        /\ accepted'[Len(accepted) + 1] = r
    BY <1>3, <2>1
  <2>4. calls' \in [Records -> {"new", "checked", "sent", "dropped", "refused", "panicked", "unsampled"}]
    BY <1>5, <2>1
  <2>5. WriterTypes'
    BY <1>3, <1>6, <2>1, <2>2, <2>3, <2>4
  <2>6. InOrder'
    <3>1. Len(accepted) = settled + Len(held) + Len(ch)
      BY <1>0 DEF InOrder
    <3>2. Follows(accepted', settled, held)
      <4> SUFFICES ASSUME NEW i \in 1..Len(held) PROVE held[i] = accepted'[settled + i]
        BY DEF Follows
      <4>1. held[i] = accepted[settled + i] /\ settled + i \in 1..Len(accepted)
        BY <1>0, <1>3, <3>1 DEF InOrder, Follows
      <4> QED
        BY <2>3, <4>1
    <3>3. Follows(accepted', settled + Len(held), ch')
      <4> SUFFICES ASSUME NEW i \in 1..Len(ch') PROVE ch'[i] = accepted'[(settled + Len(held)) + i]
        BY DEF Follows
      <4>1. CASE i \in 1..Len(ch)
        <5>1. ch[i] = accepted[(settled + Len(held)) + i] /\ (settled + Len(held)) + i \in 1..Len(accepted)
          BY <1>0, <1>3, <3>1, <4>1 DEF InOrder, Follows
        <5> QED
          BY <2>2, <2>3, <4>1, <5>1
      <4>2. CASE i = Len(ch) + 1
        <5>1. (settled + Len(held)) + i = Len(accepted) + 1
          BY <1>3, <3>1, <4>2
        <5> QED
          BY <2>2, <2>3, <4>2, <5>1
      <4> QED
        BY <1>3, <2>2, <4>1, <4>2
    <3>4. Len(accepted') = settled + Len(held) + Len(ch')
      BY <1>3, <2>2, <2>3, <3>1
    <3> QED
      BY <1>1, <3>2, <3>3, <3>4 DEF InOrder, Follows
  <2>7. StoredFrom'
    <3> SUFFICES ASSUME NEW i \in 1..Len(stored) PROVE \E k \in 1..settled : stored[i] = accepted'[k]
      BY <1>1 DEF StoredFrom
    <3>1. PICK k \in 1..settled : stored[i] = accepted[k]
      BY <1>0 DEF StoredFrom
    <3>2. k \in 1..Len(accepted)
      BY <1>0, <1>3 DEF InOrder
    <3> QED
      BY <2>3, <3>1, <3>2
  <2>8. \A i \in 1..Len(accepted) : accepted[i] # r
    BY <1>0, <2>1 DEF SentOnce
  <2>9. SentOnce'
    <3>1. \A x \in Records : x # r => calls'[x] = calls[x]
      BY <1>5, <2>1
    <3>2. calls'[r] = "sent"
      BY <1>5, <2>1
    <3>3. \A i \in 1..Len(accepted') : i \in 1..Len(accepted) \/ i = Len(accepted) + 1
      BY <1>3, <2>3
    <3>4. ASSUME NEW i \in 1..Len(accepted') PROVE calls'[accepted'[i]] = "sent"
      BY <1>0, <2>3, <2>8, <3>1, <3>2, <3>3 DEF SentOnce
    <3>5. ASSUME NEW i \in 1..Len(accepted'), NEW j \in 1..Len(accepted'), accepted'[i] = accepted'[j]
          PROVE  i = j
      BY <1>0, <2>3, <2>8, <3>3, <3>5 DEF SentOnce
    <3> QED
      BY <3>4, <3>5 DEF SentOnce
  <2>10. Ended'
    BY <1>0, <1>1, <2>1 DEF Ended
  <2>11. S!Accept
    BY <1>1, <2>1, <2>8 DEF S!Accept
  <2> QED
    BY <1>4, <2>5, <2>6, <2>7, <2>9, <2>10, <2>11 DEF WriterInv, WorkerInv
<1> QED
  BY <1>2, <1>7, <1>8

\* Close keeps the invariant, and returns only when every record is settled.
LEMMA ClosingKeeps ==
  ASSUME WriterInv, TimerFires \/ CloseFlag \/ Closing
  PROVE  WriterInv' /\ (S!Shut \/ UNCHANGED S!sinkVars)
<1>0. WorkerInv /\ FilesInv /\ WriterTypes /\ InOrder /\ StoredFrom /\ SentOnce /\ Ended
      /\ StoreIdle /\ HeldFits
  BY DEF WriterInv, WorkerInv
<1>1. UNCHANGED <<kind, batch, calls, ch, accepted, held, primed, attempt, stored, settled, log,
                  faults, worker>>
  BY DEF TimerFires, CloseFlag, Closing, CloseChannel, CloseReturns, callVars, drainVars
<1>2. /\ timer' \in {"off", "armed", "fired"} /\ closed' \in {"no", "flagged", "closing", "yes"}
      /\ \/ closed' = closed
         \/ closed \in {"no", "flagged"} /\ closed' \in {"flagged", "closing"}
         \/ closed = "closing" /\ worker = "done" /\ closed' = "yes"
  BY <1>0 DEF TimerFires, CloseFlag, Closing, CloseChannel, CloseReturns, callVars, drainVars,
              WriterTypes, TypeOK
<1>3. FilesInv'
  BY <1>0, <1>1 DEF FilesInv
<1>4. StoreIdle' /\ HeldFits' /\ SentOnce'
  BY <1>0, <1>1 DEF StoreIdle, HeldFits, SentOnce
<1>5. InOrder' /\ StoredFrom'
  BY <1>0, <1>1 DEF InOrder, Follows, StoredFrom
<1>6. WriterTypes'
  <2>1. TypeOK'
    BY <1>0, <1>1, <1>2 DEF WriterTypes, TypeOK
  <2> QED
    BY <1>0, <1>1, <2>1 DEF WriterTypes
<1>7. Ended'
  BY <1>0, <1>1, <1>2 DEF Ended
<1>8. S!Shut \/ UNCHANGED S!sinkVars
  <2>1. CASE closed = "closing" /\ worker = "done" /\ closed' = "yes"
    <3>1. settled = Len(accepted)
      <4>1. held = <<>> /\ ch = <<>> /\ settled \in Nat
        BY <1>0, <2>1, TypesMean DEF Ended
      <4> QED
        BY <1>0, <4>1 DEF InOrder
    <3> QED
      BY <1>1, <2>1, <3>1 DEF S!Shut
  <2>2. CASE closed' = closed \/ (closed \in {"no", "flagged"} /\ closed' \in {"flagged", "closing"})
    BY <1>1, <2>2 DEF S!sinkVars
  <2> QED
    BY <1>2, <2>1, <2>2
<1> QED
  BY <1>3, <1>4, <1>5, <1>6, <1>7, <1>8 DEF WriterInv, WorkerInv

\* A new writer satisfies the invariant.
LEMMA WriterStarts ==
  ASSUME Init
  PROVE  WriterInv /\ S!SinkInit
<1>1. WritersAssumption
  BY WritersAssumption
<1>2. /\ kind \in Kinds /\ (NewStore \/ NewExporter \/ NewRecorder)
      /\ calls = [r \in Records |-> "new"]
      /\ ch = <<>> /\ accepted = <<>> /\ held = <<>> /\ primed = FALSE
      /\ timer = "off" /\ attempt = 0
      /\ stored = <<>> /\ settled = 0 /\ faults = MaxFaults
      /\ log = [bw |-> "ok", written |-> 0, present |-> TRUE, active |-> <<>>, rotated |-> <<>>]
      /\ worker = "on" /\ closed = "no"
  BY DEF Init
<1>3. batch \in Nat /\ (kind = "jsonl" => batch = BufferSize) /\ (kind = "otlp" => batch > 0)
      /\ BufferSize \in Nat \ {0} /\ MaxFaults \in Nat /\ QueueSize \in Nat /\ MaxRetries \in Nat
  <2>1. /\ BufferSize \in Nat \ {0} /\ MaxFaults \in Nat /\ QueueSize \in Nat /\ MaxRetries \in Nat
        /\ Batches \subseteq Nat
    BY <1>1 DEF WritersAssumption
  <2>2. CASE NewStore
    BY <2>1, <2>2 DEF NewStore, Store
  <2>3. CASE NewExporter
    BY <2>1, <2>3 DEF NewExporter
  <2>4. CASE NewRecorder
    BY <2>1, <2>4 DEF NewRecorder
  <2> QED
    BY <1>2, <2>1, <2>2, <2>3, <2>4
<1>4. Bytes(<<>>) = 0
  BY <1>1, BytesBasic
<1>5. WriterTypes
  <2>1. log \in LogTypes
    BY <1>2 DEF LogTypes
  <2>2. TypeOK
    <3>1. calls \in [Records -> {"new", "checked", "sent", "dropped", "refused", "panicked", "unsampled"}]
      BY <1>2
    <3>2. {ch, accepted, held, stored} \subseteq Seq(Records) /\ Len(ch) <= QueueSize /\ settled \in 0..Len(accepted)
      BY <1>2, <1>3
    <3>3. attempt \in 0..MaxRetries + 1 /\ faults \in 0..MaxFaults
      BY <1>2, <1>3
    <3>4. log.bw \in {"ok", "failed", "stale"} /\ log.written \in Nat
      BY <1>2
    <3> QED
      BY <1>2, <1>3, <3>1, <3>2, <3>3, <3>4 DEF TypeOK
  <2> QED
    BY <1>1, <2>1, <2>2 DEF WriterTypes
<1>6. InOrder /\ StoredFrom /\ SentOnce /\ Ended /\ StoreIdle
  BY <1>2 DEF InOrder, StoredFrom, SentOnce, Ended, StoreIdle, Follows
<1>7. HeldFits
  BY <1>2, <1>3, <1>4 DEF HeldFits, Larger
<1>8. FilesInv
  <2>1. Newest(<<>>, Files(log))
    BY DEF Newest
  <2>2. FitsCap(<<>>)
    <3>1. Larger(MaxBytes, BufferSize) >= 0
      BY <1>1, <1>3 DEF Larger, WritersAssumption
    <3> QED
      BY <1>4, <3>1 DEF FitsCap
  <2>3. KeepFiles >= 0
    BY <1>1 DEF KeepFiles, Larger, WritersAssumption
  <2>4. FilesKept(stored, log)
    BY <1>2, <2>1, <2>3 DEF FilesKept
  <2>5. Clean(log, held)
    <3>1. log.active \o held = <<>> /\ log.active = <<>> /\ Len(log.rotated) = 0 /\ log.written = 0
          /\ log.bw = "ok" /\ log.present
      BY <1>2
    <3> QED
      BY <1>4, <2>2, <3>1 DEF Clean
  <2> QED
    BY <2>4, <2>5 DEF FilesInv
<1>9. S!SinkInit
  BY <1>2 DEF S!SinkInit
<1> QED
  BY <1>5, <1>6, <1>7, <1>8, <1>9 DEF WriterInv, WorkerInv

\* A step of a writer keeps the invariant, and is one of the abstract writer's or none.
LEMMA WriterSteps ==
  ASSUME WriterInv, [Next]_vars
  PROVE  WriterInv' /\ [S!SinkNext]_S!sinkVars
<1>1. CASE Next
  <2>1. CASE Callers
    BY <2>1, CallersKeep DEF S!SinkNext
  <2>2. CASE Work \/ Sync
    BY <2>2, WorkKeeps DEF S!SinkNext
  <2>3. CASE TimerFires \/ CloseFlag \/ Closing
    BY <2>3, ClosingKeeps DEF S!SinkNext
  <2> QED
    BY <1>1, <2>1, <2>2, <2>3 DEF Next
<1>2. CASE UNCHANGED vars
  <2>0. WorkerInv /\ FilesInv /\ WriterTypes /\ InOrder /\ StoredFrom /\ SentOnce /\ Ended
        /\ StoreIdle /\ HeldFits
    BY DEF WriterInv, WorkerInv
  <2>1. UNCHANGED <<kind, batch, calls, ch, accepted, held, primed, timer, attempt, stored, settled,
                    log, faults, worker, closed>>
    BY <1>2 DEF vars
  <2>2. FilesInv'
    BY <2>0, <2>1 DEF FilesInv
  <2>3. StoreIdle' /\ HeldFits' /\ SentOnce' /\ Ended'
    BY <2>0, <2>1 DEF StoreIdle, HeldFits, SentOnce, Ended
  <2>4. InOrder' /\ StoredFrom'
    BY <2>0, <2>1 DEF InOrder, Follows, StoredFrom
  <2>5. WriterTypes'
    <3>1. TypeOK'
      BY <2>0, <2>1 DEF WriterTypes, TypeOK
    <3> QED
      BY <2>0, <2>1, <3>1 DEF WriterTypes
  <2> QED
    BY <2>1, <2>2, <2>3, <2>4, <2>5 DEF WriterInv, WorkerInv, S!sinkVars
<1> QED
  BY <1>1, <1>2

-----------------------------------------------------------------------------
\* What two sequences put together hold.
LEMMA Joined ==
  ASSUME NEW x \in Seq(Records), NEW y \in Seq(Records)
  PROVE  /\ x \o y \in Seq(Records) /\ Len(x \o y) = Len(x) + Len(y)
         /\ \A i \in 1..Len(x) : (x \o y)[i] = x[i]
         /\ \A i \in 1..Len(y) : (x \o y)[Len(x) + i] = y[i]
OBVIOUS

\* The invariant gives the bounds.
LEMMA WriterBounds ==
  ASSUME WriterInv
  PROVE  TypeOK /\ RecordsKept
<1>0. WorkerInv /\ FilesInv /\ WriterTypes /\ InOrder /\ HeldFits
  BY DEF WriterInv, WorkerInv
<1>1. /\ ch \in Seq(Records) /\ accepted \in Seq(Records) /\ held \in Seq(Records)
      /\ stored \in Seq(Records) /\ settled \in Nat /\ log \in LogTypes /\ WritersAssumption
  BY <1>0, TypesMean
<1>2. accepted = SubSeq(accepted, 1, settled) \o held \o ch
  <2> DEFINE a == SubSeq(accepted, 1, settled)
  <2>1. Len(accepted) = settled + Len(held) + Len(ch)
    BY <1>0 DEF InOrder
  <2>2. a \in Seq(Records) /\ Len(a) = settled /\ \A i \in 1..settled : a[i] = accepted[i]
    <3>1. settled \in 0..Len(accepted)
      BY <1>1, <2>1
    <3> QED
      BY <1>1, <3>1
  <2> HIDE DEF a
  <2> DEFINE b == a \o held
  <2>3. b \in Seq(Records) /\ Len(b) = settled + Len(held)
        /\ (\A i \in 1..settled : b[i] = a[i])
        /\ \A i \in 1..Len(held) : b[settled + i] = held[i]
    <3>1. b \in Seq(Records) /\ Len(b) = Len(a) + Len(held)
          /\ (\A i \in 1..Len(a) : b[i] = a[i])
          /\ \A i \in 1..Len(held) : b[Len(a) + i] = held[i]
      BY <1>1, <2>2, Joined
    <3> QED
      BY <2>2, <3>1
  <2> HIDE DEF b
  <2> DEFINE c == b \o ch
  <2>4. c \in Seq(Records) /\ Len(c) = Len(accepted)
        /\ (\A i \in 1..Len(b) : c[i] = b[i])
        /\ \A i \in 1..Len(ch) : c[Len(b) + i] = ch[i]
    <3>1. c \in Seq(Records) /\ Len(c) = Len(b) + Len(ch)
          /\ (\A i \in 1..Len(b) : c[i] = b[i])
          /\ \A i \in 1..Len(ch) : c[Len(b) + i] = ch[i]
      BY <1>1, <2>3, Joined
    <3> QED
      BY <1>1, <2>1, <2>3, <3>1
  <2> HIDE DEF c
  <2>5. ASSUME NEW i \in 1..Len(accepted) PROVE accepted[i] = c[i]
    <3>1. CASE i \in 1..settled
      BY <1>1, <2>2, <2>3, <2>4, <3>1
    <3>2. CASE i - settled \in 1..Len(held)
      <4> DEFINE j == i - settled
      <4>1. j \in 1..Len(held) /\ settled + j = i /\ i \in 1..Len(b)
        BY <1>1, <2>1, <2>3, <3>2
      <4>2. held[j] = accepted[settled + j]
        BY <1>0, <4>1 DEF InOrder, Follows
      <4> HIDE DEF j
      <4> QED
        BY <2>3, <2>4, <4>1, <4>2
    <3>3. CASE i - (settled + Len(held)) \in 1..Len(ch)
      <4> DEFINE j == i - (settled + Len(held))
      <4>1. j \in 1..Len(ch) /\ (settled + Len(held)) + j = i /\ Len(b) + j = i
        BY <1>1, <2>1, <2>3, <3>3
      <4>2. ch[j] = accepted[(settled + Len(held)) + j]
        BY <1>0, <4>1 DEF InOrder, Follows
      <4> HIDE DEF j
      <4> QED
        BY <2>3, <2>4, <4>1, <4>2
    <3>4. Len(held) \in Nat /\ Len(ch) \in Nat /\ settled \in Nat /\ i \in Nat /\ i >= 1
          /\ i <= settled + Len(held) + Len(ch)
      BY <1>1, <2>1
    <3>5. \/ i \in 1..settled \/ i - settled \in 1..Len(held)
          \/ i - (settled + Len(held)) \in 1..Len(ch)
      BY <3>4
    <3> QED
      BY <3>1, <3>2, <3>3, <3>5
  <2>6. accepted = c
    BY <1>1, <2>4, <2>5, SeqEqual
  <2> QED
    BY <2>6 DEF a, b, c
<1>3. HeldBounded
  BY <1>0, <1>2 DEF HeldBounded, HeldFits
<1>4. FilesBounded
  <2>1. ASSUME kind = "jsonl", MaxBytes > 0, faults = MaxFaults
        PROVE  FitsCap(log.active) /\ \A i \in 1..Len(log.rotated) : FitsCap(log.rotated[i])
    <3>1. Clean(log, held)
      BY <1>0, <2>1 DEF FilesInv
    <3>2. log.active \in Seq(Records)
      BY <1>1 DEF LogTypes
    <3>3. FitsCap(log.active)
      BY <1>1, <3>1, <3>2, FitsPrefix DEF Clean
    <3> QED
      BY <3>1, <3>3 DEF Clean
  <2>2. kind = "jsonl" => Len(log.rotated) <= KeepFiles
    BY <1>0 DEF FilesInv, FilesKept
  <2> QED
    BY <2>1, <2>2 DEF FilesBounded
<1>5. NewestKept
  <2> SUFFICES ASSUME kind = "jsonl"
               PROVE  \A i \in 1..Len(stored), j \in 1..Len(stored) :
                        i < j /\ stored[i] \in Lines(log.rotated \o <<log.active>>)
                        => stored[j] \in Lines(log.rotated \o <<log.active>>)
    BY Zenon DEF NewestKept
  <2> DEFINE F == Files(log)
  <2>1. log.rotated \in Seq(Seq(Records)) /\ log.active \in Seq(Records)
    BY <1>1 DEF LogTypes
  <2>2. log.rotated \o <<log.active>> = F /\ F \in Seq(Seq(Records)) /\ 1 \in 1..Len(F)
    BY <2>1 DEF Files
  <2>3. Newest(stored, F)
    BY <1>0 DEF FilesInv, FilesKept
  <2> HIDE DEF F
  <2>4. \A x : x \in Lines(F) <=> OnLine(F, 1, x)
    BY DEF Lines, OnLine
  <2>5. \A i, j \in 1..Len(stored) : i < j /\ OnLine(F, 1, stored[i]) => OnLine(F, 1, stored[j])
    BY <2>2, <2>3 DEF Newest
  <2> QED
    BY <2>2, <2>4, <2>5
<1> QED
  BY <1>0, <1>3, <1>4, <1>5 DEF RecordsKept, WriterTypes

\* A step of the service is a step of its writer, or none.
LEMMA WriterFocus ==
  /\ MCInit => Init
  /\ [MCNext]_allVars => [Next]_vars
BY DEF MCInit, MCNext, allVars

\* The invariant holds of the metrics store, the judge store, the JSONL recorder and the
\* trace exporter: any number of records, any batch, buffer, queue and file limits, any
\* number of failures (metrics/sqlite.go, judge/sqlite.go, telemetry/jsonl.go,
\* tracing/exporter.go).
THEOREM WritersInductive == MCSpec => []WriterInv
<1>1. MCInit => WriterInv
  BY WriterFocus, WriterStarts
<1>2. WriterInv /\ [MCNext]_allVars => WriterInv'
  BY WriterFocus, WriterSteps
<1> QED
  BY <1>1, <1>2, PTL DEF MCSpec

\* The variables of the writers stay within their types.
THEOREM WritersTyped == MCSpec => []TypeOK
<1>1. WriterInv => TypeOK
  BY WriterBounds
<1> QED
  BY <1>1, WritersInductive, PTL

\* What a writer holds in memory and on disk is bounded, and rotation keeps the newest
\* lines, for any limits: HeldBounded, FilesBounded and NewestKept.
THEOREM WritersKeepRecords == MCSpec => []RecordsKept
<1>1. WriterInv => RecordsKept
  BY WriterBounds
<1> QED
  BY <1>1, WritersInductive, PTL

\* Each of the four writers implements the abstract sink: it settles what it accepted once
\* and in order, whoever races with Close, and leaves nothing when Close returns.
THEOREM WritersRefineSink == MCSpec => RefinesSink
<1>1. MCInit => S!SinkInit
  BY WriterFocus, WriterStarts
<1>2. WriterInv /\ [MCNext]_allVars => [S!SinkNext]_S!sinkVars
  BY WriterFocus, WriterSteps
<1> QED
  BY <1>1, <1>2, WritersInductive, PTL DEF MCSpec, RefinesSink, S!SinkSpec
=============================================================================
