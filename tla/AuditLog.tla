------------------------------ MODULE AuditLog ------------------------------
(***************************************************************************)
(* The hash-chained audit log (src/internal/audit/audit.go, reader.go).    *)
(* SHA-256 is modelled as injective: the hash of an entry is the sequence  *)
(* of payloads it vouches for.  A crash may take with it whatever was not  *)
(* synced, and may tear the line that was being written.                   *)
(***************************************************************************)
EXTENDS Integers, Sequences, FiniteSets

CONSTANTS
  Payloads,     \* what a request leaves in the log
  MaxEntries,   \* entries written in one behaviour
  MaxCrashes,
  MaxErrors     \* failed writes and failed fsyncs

VARIABLES
  syncMode,     \* "full" (fsync per entry) or "none"
  file,         \* the lines of the log
  torn,         \* does the file end in the middle of a line?
  synced,       \* how many lines are known to be on the disk
  tip,          \* FileAuditor.lastHash
  auditor,      \* "open", "closed", "down" (crashed) or "unopened" (Open failed)
  acked,        \* entries whose Record returned nil, by hash
  crashes, errors

auditVars == <<syncMode, file, torn, synced, tip, auditor, acked, crashes, errors>>

GenesisHash == <<>>

computeHash(prev, payload) == Append(prev, payload)

Entry(prev, payload) ==
  [payload |-> payload, prev |-> prev, hash |-> computeHash(prev, payload)]

\* lastHash: the hash of the final entry, the genesis hash of an empty file.
lastHash(f) == IF f = <<>> THEN GenesisHash ELSE f[Len(f)].hash

\* Verify: every line vouches for the one before it.
Verify(f) ==
  \A i \in 1..Len(f) :
    LET prev == IF i = 1 THEN GenesisHash ELSE f[i - 1].hash
    IN f[i].prev = prev /\ f[i].hash = computeHash(prev, f[i].payload)

\* Open of a new file.
AuditInit ==
  /\ syncMode \in {"full", "none"}
  /\ file = <<>> /\ torn = FALSE /\ synced = 0 /\ tip = GenesisHash
  /\ auditor = "open" /\ acked = {} /\ crashes = 0 /\ errors = 0

\* Record, under the mutex: it links, writes, syncs, and only then moves the tip.
Record(p) ==
  /\ auditor = "open" /\ Len(file) < MaxEntries
  /\ file' = Append(file, Entry(tip, p))
  /\ tip' = computeHash(tip, p) /\ acked' = acked \cup {tip'}
  /\ synced' = IF syncMode = "full" THEN Len(file') ELSE synced
  /\ UNCHANGED <<syncMode, torn, auditor, crashes, errors>>

\* Record with an error: the write put nothing into the file, or the fsync failed
\* after the line was written; the tip stays where it was.
RecordFails(p) ==
  /\ auditor = "open" /\ Len(file) < MaxEntries
  /\ errors < MaxErrors /\ errors' = errors + 1
  /\ \/ UNCHANGED file
     \/ syncMode = "full" /\ file' = Append(file, Entry(tip, p))
  /\ UNCHANGED <<syncMode, torn, synced, tip, auditor, acked, crashes>>

Close ==
  /\ auditor = "open" /\ auditor' = "closed"
  /\ UNCHANGED <<syncMode, file, torn, synced, tip, acked, crashes, errors>>

\* The process or the machine dies: some tail of what was not synced is gone, and
\* a line may be cut in two.
Crash ==
  /\ auditor = "open" /\ crashes < MaxCrashes /\ crashes' = crashes + 1
  /\ auditor' = "down"
  /\ \E n \in synced..Len(file) : file' = SubSeq(file, 1, n)
  /\ torn' \in BOOLEAN
  /\ UNCHANGED <<syncMode, synced, tip, acked, errors>>

\* The new process starts a chain of its own.
BugOpen ==
  /\ auditor \in {"down", "closed"}
  /\ auditor' = "open" /\ tip' = GenesisHash /\ synced' = Len(file)
  /\ UNCHANGED <<syncMode, file, torn, acked, crashes, errors>>

\* Open: continue from the last entry; a line that does not decode is an error.
Open ==
  /\ auditor \in {"down", "closed"}
  /\ IF torn THEN auditor' = "unopened" /\ UNCHANGED <<tip, synced>>
     ELSE auditor' = "open" /\ tip' = lastHash(file) /\ synced' = Len(file)
  /\ UNCHANGED <<syncMode, file, torn, acked, crashes, errors>>

AuditNext ==
  \/ \E p \in Payloads : Record(p) \/ RecordFails(p)
  \/ Close \/ Crash \/ Open

-----------------------------------------------------------------------------
AuditTypeOK ==
  /\ synced \in 0..Len(file) /\ errors \in 0..MaxErrors /\ crashes \in 0..MaxCrashes
  /\ auditor \in {"open", "closed", "down", "unopened"}
  /\ torn \in BOOLEAN /\ syncMode \in {"full", "none"}

\* "The chain is continued from the last stored hash so the file stays verifiable
\* across restarts": whatever crashes took away, the log verifies, as long as no
\* write or fsync returned an error (one that did leaves a line the tip does not
\* know of, and the next entry forks the chain).
ChainVerifies == errors = 0 => Verify(file)

\* With sync=full an entry that was acknowledged is in the file for good.
AckedDurable ==
  syncMode = "full" =>
    \A h \in acked : \E i \in 1..Len(file) : file[i].hash = h

Without(f, i) == SubSeq(f, 1, i - 1) \o SubSeq(f, i + 1, Len(f))

\* Tamper evidence: in a log that verifies, taking out any line but the last, or
\* changing the payload of any line, is found by Verify.
TamperFound ==
  Verify(file) =>
    /\ \A i \in 1..Len(file) - 1 : ~Verify(Without(file, i))
    /\ \A i \in 1..Len(file), p \in Payloads :
         p # file[i].payload => ~Verify([file EXCEPT ![i].payload = p])
=============================================================================
