---------------------------- MODULE DurableStore ---------------------------
(***************************************************************************)
(* The snapshot + journal store (src/durable_store.cpp, the POSIX branch)   *)
(* with its one writer: append, compact and open as the sequences of file   *)
(* operations they are, a process that may die between any two of them, and *)
(* operations that fail.                                                    *)
(*                                                                          *)
(* A file is a sequence of slots, one slot for the bytes of one record: a   *)
(* record, Torn (a record that was not completely written) or Hole (bytes   *)
(* nobody wrote, left by extending a file).  A payload is a number used     *)
(* once, a snapshot's payload the sequence of payloads folded into it.      *)
(* Checksums and geometry checks are what tells a record from the rest.     *)
(* A missing journal is an empty one.                                       *)
(***************************************************************************)
EXTENDS Integers, Sequences, FiniteSetsExt, Enumeration

CONSTANTS
    MaxAppends,    \* bound of the model: payloads appended
    MaxCrashes,    \* bound of the model: processes that die
    MaxFaults,     \* bound of the model: operations that fail
    FaultKinds,    \* the operations that may fail
    NoFile, Damaged, Torn, Hole

Payloads == 1 .. MaxAppends
Records == [sequence : Nat, payload : Payloads]
Images == [sequence : Nat, payload : Seq(Payloads)]

ASSUME StoreAssumption ==
    /\ MaxAppends \in Nat /\ MaxCrashes \in Nat /\ MaxFaults \in Nat
    /\ FaultKinds \subseteq {"write", "truncate", "flush_rollback", "flush_truncate",
                            "replace", "damage"}
    /\ Torn \notin Records /\ Hole \notin Records
    /\ NoFile \notin Images /\ Damaged \notin Images /\ NoFile # Damaged

VARIABLES
    \* the directory
    journal, primary, previous,
    \* DurableStore::Impl
    opened, journal_degraded, snapshot_sequence, last_sequence,
    journal_bytes,            \* in slots
    position,                 \* of the journal's file handle
    revalidation_required,    \* RecoveryReport
    \* the caller
    state,                    \* the payloads the caller has applied
    pc,                       \* the call in progress and how far it is
    next,                     \* the payload of the next append
    acked,                    \* history: acknowledged since the last open, and recovered by it
    crashes, faults

disk == <<journal, primary, previous>>
memory == <<opened, journal_degraded, snapshot_sequence, last_sequence,
            journal_bytes, position, revalidation_required>>
vars == <<disk, memory, state, pc, next, acked, crashes, faults>>

Record(sequence, payload) == [sequence |-> sequence, payload |-> payload]

Init ==
    /\ journal = << >> /\ primary = NoFile /\ previous = NoFile
    /\ opened = FALSE /\ journal_degraded = FALSE
    /\ snapshot_sequence = 0 /\ last_sequence = 0 /\ journal_bytes = 0 /\ position = 0
    /\ revalidation_required = FALSE
    /\ state = << >> /\ pc = "idle" /\ next = 1 /\ acked = << >>
    /\ crashes = 0 /\ faults = 0

Fault(kind) ==
    /\ kind \in FaultKinds /\ faults < MaxFaults
    /\ faults' = faults + 1

\* Writing one slot at the position of the handle, and cutting (or extending) a
\* file to a length.
Written(file, at, slot) ==
    [i \in 1 .. (IF at + 1 > Len(file) THEN at + 1 ELSE Len(file)) |->
        IF i = at + 1 THEN slot ELSE IF i =< Len(file) THEN file[i] ELSE Hole]
Cut(file, length) ==
    [i \in 1 .. length |-> IF i =< Len(file) THEN file[i] ELSE Hole]

----------------------------------------------------------------------------
(***************************************************************************)
(* append(): header, payload, flush, acknowledgement.                       *)
(***************************************************************************)
SameSequence == last_sequence                          \* mutant: not incremented
NextSequence == last_sequence + 1

AppendHeader ==
    /\ opened /\ ~journal_degraded /\ pc = "idle" /\ next =< MaxAppends
    /\ journal' = Written(journal, position, Torn)
    /\ pc' = "header"
    /\ UNCHANGED <<primary, previous, memory, state, next, acked, crashes, faults>>

AppendPayload ==
    /\ pc = "header"
    /\ journal' = Written(journal, position, Record(NextSequence, next))
    /\ position' = position + 1
    /\ pc' = "payload"
    /\ UNCHANGED <<primary, previous, opened, journal_degraded, snapshot_sequence,
                   last_sequence, journal_bytes, revalidation_required, state, next,
                   acked, crashes, faults>>

\* The flush succeeded: the record is acknowledged, and the caller applies it.
AppendFlush ==
    /\ pc = "payload"
    /\ last_sequence' = NextSequence
    /\ journal_bytes' = journal_bytes + 1
    /\ state' = Append(state, next)
    /\ acked' = Append(acked, next)
    /\ next' = next + 1
    /\ pc' = "idle"
    /\ UNCHANGED <<disk, opened, journal_degraded, snapshot_sequence, position,
                   revalidation_required, crashes, faults>>

\* A write or the flush failed: the file is cut back to the acknowledged length.
AppendFail ==
    /\ pc \in {"header", "payload"}
    /\ Fault("write")
    /\ journal' = Cut(journal, journal_bytes)
    /\ position' = journal_bytes
    /\ next' = next + 1
    /\ pc' = "idle"
    /\ UNCHANGED <<primary, previous, opened, journal_degraded, snapshot_sequence,
                   last_sequence, journal_bytes, revalidation_required, state, acked,
                   crashes>>

\* The cut failed as well, or its flush did: the writer is not used again before
\* the next open.
AppendDegrade ==
    /\ pc \in {"header", "payload"}
    /\ \/ Fault("truncate") /\ UNCHANGED <<journal, position>>
       \/ /\ Fault("flush_rollback")
          /\ journal' = Cut(journal, journal_bytes) /\ position' = journal_bytes
    /\ journal_degraded' = TRUE
    /\ next' = next + 1
    /\ pc' = "idle"
    /\ UNCHANGED <<primary, previous, opened, snapshot_sequence, last_sequence,
                   journal_bytes, revalidation_required, state, acked, crashes>>

----------------------------------------------------------------------------
(***************************************************************************)
(* compact(state, last_sequence): the temporary file is complete and        *)
(* flushed, the installed snapshot becomes ".prev", the temporary becomes   *)
(* the snapshot, the journal is emptied.                                    *)
(***************************************************************************)
Image == [sequence |-> last_sequence, payload |-> state]

CompactBackup ==
    /\ opened /\ pc = "idle"
    /\ IF primary = NoFile THEN UNCHANGED <<primary, previous>>
       ELSE previous' = primary /\ primary' = NoFile
    /\ pc' = "backup"
    /\ UNCHANGED <<journal, memory, state, next, acked, crashes, faults>>

CompactInstall ==
    /\ pc = "backup"
    /\ primary' = Image
    /\ pc' = "installed"
    /\ UNCHANGED <<journal, previous, memory, state, next, acked, crashes, faults>>

CompactReplaceFail ==
    /\ pc = "backup"
    /\ Fault("replace")
    /\ pc' = "idle"
    /\ UNCHANGED <<disk, memory, state, next, acked, crashes>>

CompactTruncate ==
    /\ pc = "installed"
    /\ journal' = << >> /\ position' = 0
    /\ snapshot_sequence' = last_sequence /\ journal_bytes' = 0
    /\ pc' = "idle"
    /\ UNCHANGED <<primary, previous, opened, journal_degraded, last_sequence,
                   revalidation_required, state, next, acked, crashes, faults>>

\* The journal could not be emptied, or was emptied and the flush failed: the
\* call reports the failure and leaves its members as they were.
CompactTruncateFail ==
    /\ pc = "installed"
    /\ \/ Fault("truncate") /\ UNCHANGED <<journal, position>>
       \/ Fault("flush_truncate") /\ journal' = << >> /\ position' = 0
    /\ pc' = "idle"
    /\ UNCHANGED <<primary, previous, opened, journal_degraded, snapshot_sequence,
                   last_sequence, journal_bytes, revalidation_required, state, next,
                   acked, crashes>>

----------------------------------------------------------------------------
(***************************************************************************)
(* open(): the usable snapshot, and the journal records after it.           *)
(***************************************************************************)
Readable(file) == file \notin {NoFile, Damaged}
Snapshot ==
    IF Readable(primary) THEN primary
    ELSE IF Readable(previous) THEN previous
    ELSE [sequence |-> 0, payload |-> << >>]
Understood == Readable(primary) \/ Readable(previous) \/ (primary = NoFile /\ previous = NoFile)

\* scan_journal() stops at the first record it cannot believe.
Believable(i) ==
    /\ journal[i] \notin {Torn, Hole}
    /\ (i > 1 /\ journal[i - 1] \notin {Torn, Hole})
           => journal[i].sequence >= journal[i - 1].sequence
ScannedLength == Max({n \in 0 .. Len(journal) : \A i \in 1 .. n : Believable(i)})
LastScanned == IF ScannedLength = 0 THEN 0 ELSE journal[ScannedLength].sequence

FoldedStrictly(i) == journal[i].sequence < Snapshot.sequence    \* mutant: < for <=
Folded(i) == journal[i].sequence =< Snapshot.sequence
Replayed(i) ==
    /\ ~Folded(i)
    /\ i > 1 => journal[i].sequence # journal[i - 1].sequence
ReplayedRecords ==
    LET kept == Ascending({i \in 1 .. ScannedLength : Replayed(i)})
    IN  [k \in DOMAIN kept |-> journal[kept[k]].payload]

Recovered == Snapshot.payload \o ReplayedRecords

TrustPrevious ==                                    \* mutant: .prev is as good
    \/ ~Readable(primary) /\ ~Readable(previous)
    \/ ScannedLength < Len(journal)
MustRevalidate ==
    \/ ~Readable(primary)
    \/ ScannedLength < Len(journal)

Open ==
    /\ ~opened /\ pc = "idle" /\ Understood
    /\ opened' = TRUE /\ journal_degraded' = FALSE
    /\ snapshot_sequence' = Snapshot.sequence
    /\ last_sequence' = Max({Snapshot.sequence, LastScanned})
    /\ journal_bytes' = ScannedLength /\ position' = ScannedLength
    /\ journal' = Cut(journal, ScannedLength)
    /\ revalidation_required' = MustRevalidate
    /\ state' = Recovered
    /\ acked' = Recovered
    /\ UNCHANGED <<primary, previous, pc, next, crashes, faults>>

\* The process dies: what is in memory is lost, what was written stays.
Crash ==
    /\ opened /\ crashes < MaxCrashes
    /\ crashes' = crashes + 1
    /\ opened' = FALSE /\ pc' = "idle" /\ journal_degraded' = FALSE
    /\ snapshot_sequence' = 0 /\ last_sequence' = 0 /\ journal_bytes' = 0 /\ position' = 0
    /\ revalidation_required' = FALSE
    /\ state' = << >>
    /\ next' = IF pc \in {"header", "payload"} THEN next + 1 ELSE next
    /\ UNCHANGED <<disk, acked, faults>>

\* The installed snapshot stops decoding (its checksums no longer match).
Damage ==
    /\ ~opened /\ Readable(primary)
    /\ Fault("damage")
    /\ primary' = Damaged
    /\ UNCHANGED <<journal, previous, memory, state, pc, next, acked, crashes>>

Next ==
    \/ AppendHeader \/ AppendPayload \/ AppendFlush \/ AppendFail \/ AppendDegrade
    \/ CompactBackup \/ CompactInstall \/ CompactReplaceFail
    \/ CompactTruncate \/ CompactTruncateFail
    \/ Open \/ Crash \/ Damage

Spec == Init /\ [][Next]_vars

----------------------------------------------------------------------------
Slots == Records \cup {Torn, Hole}

\* The types of the files and of the members of DurableStore::Impl.
TypeOK ==
    /\ journal \in Seq(Slots)
    /\ primary \in Images \cup {NoFile, Damaged}
    /\ previous \in Images \cup {NoFile, Damaged}
    /\ opened \in BOOLEAN /\ journal_degraded \in BOOLEAN
    /\ snapshot_sequence \in Nat /\ last_sequence \in Nat
    /\ journal_bytes \in Nat /\ position \in Nat
    /\ revalidation_required \in BOOLEAN
    /\ state \in Seq(Payloads) /\ acked \in Seq(Payloads)
    /\ pc \in {"idle", "header", "payload", "backup", "installed"}
    /\ next \in 1 .. MaxAppends + 1
    /\ crashes \in Nat /\ faults \in Nat

\* The abstract log is what the caller has applied while the store is open, and
\* what open() would recover from the directory while it is not.
Log == INSTANCE DurableLog WITH
           Values <- Payloads,
           log <- IF opened THEN state ELSE Recovered,
           up <- opened

\* append(), compact() and open() keep the promise of the store whatever the
\* point at which the process dies: acknowledged records survive in order, at
\* most one unacknowledged record appears, and compaction changes nothing.
ImplementsLog == Log!Spec

\* A store that is open can be killed at once without losing anything: the
\* directory alone yields what the caller has applied, or one record more.
DirectoryIsCurrent ==
    /\ TypeOK
    /\ opened => \/ Recovered = state
                 \/ \E v \in Payloads : Recovered = Append(state, v)

\* open() recovers what was acknowledged (and possibly one record that was not),
\* or else reports that the state must be revalidated.
LossIsReported ==
    [][~opened /\ opened' =>
        \/ state' = acked
        \/ \E v \in Payloads : state' = Append(acked, v)
        \/ revalidation_required']_vars
=============================================================================
