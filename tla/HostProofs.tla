----------------------------- MODULE HostProofs -----------------------------
(***************************************************************************)
(* Proofs about the coordinator process, for every --compact-every and any  *)
(* number of records and failures.                                          *)
(*                                                                          *)
(* LiveIsDurable speaks of the moments between calls. The invariant says    *)
(* what holds inside one: before the append the coordinator at work equals  *)
(* the directory, after it the directory is one record ahead; and the guard *)
(* is taken, so the sink is refused its snapshot and the directory is the   *)
(* journal alone.                                                           *)
(***************************************************************************)
EXTENDS Host, SequenceTheorems, FiniteSetTheorems, TLAPS

IsSequence(s) == s \in Seq({s[i] : i \in DOMAIN s})

\* The coordinator the call works on.
AtWork == IF phase = "recovering" THEN scratch ELSE state

HostInv ==
    /\ phase \in {"down", "recovering", "opening", "serving"}
    /\ step \in {"none", "persist", "compact", "apply"}
    /\ phase = "down" => step = "none"
    /\ inside = (step # "none")
    /\ snapshot = << >> /\ IsSequence(journal)
    /\ phase \in {"opening", "serving"} /\ step = "none" => state = journal
    /\ step = "persist" => AtWork = journal
    /\ step \in {"compact", "apply"} => journal = Append(AtWork, record)

\* Appending keeps a sequence a sequence, whatever is appended.
LEMMA AppendSequence ==
    ASSUME NEW s, NEW e, IsSequence(s)
    PROVE  IsSequence(Append(s, e))
<1> DEFINE S == {s[i] : i \in DOMAIN s} \cup {e}
           t == Append(s, e)
<1>1. s \in Seq(S)
  BY DEF IsSequence
<1>2. t \in Seq(S) /\ Len(t) = Len(s) + 1 /\ \A i \in 1 .. Len(t) : t[i] \in {t[j] : j \in DOMAIN t}
  BY <1>1
<1> HIDE DEF S, t
<1>3. t \in Seq({t[j] : j \in DOMAIN t})
  <2>1. DOMAIN t = 1 .. Len(t) /\ Len(t) \in Nat /\ t = [i \in 1 .. Len(t) |-> t[i]]
    BY <1>2
  <2>2. t \in [1 .. Len(t) -> {t[j] : j \in DOMAIN t}]
    BY <2>1, <1>2
  <2> QED
    BY <2>1, <2>2, SeqDef
<1> USE DEF t
<1> QED
  BY <1>3 DEF IsSequence

\* What the directory yields is its journal as long as no snapshot was taken.
LEMMA DurableIsJournal ==
    ASSUME snapshot = << >>, IsSequence(journal)
    PROVE  Durable = journal
  BY DEF Durable, IsSequence

LEMMA HostInit == Init => HostInv
<1>1. IsSequence(<< >>)
  BY DEF IsSequence
<1> QED
  BY <1>1 DEF Init, HostInv, AtWork

\* A call begins with the coordinator at work equal to the directory.
LEMMA HostEnter ==
    ASSUME HostInv, NEW r, Enter(r), phase # "down",
           phase = "recovering" => scratch' = Durable,
           phase # "recovering" => UNCHANGED scratch
    PROVE  HostInv'
<1>1. Durable = journal
  BY DurableIsJournal DEF HostInv
<1>2. AtWork' = journal
  BY <1>1 DEF HostInv, Enter, AtWork
<1> QED
  BY <1>2 DEF HostInv, Enter, IsSequence

\* Every step of the process keeps the invariant.
LEMMA HostStep == HostInv /\ [Next]_vars => HostInv'
<1> SUFFICES ASSUME HostInv, [Next]_vars PROVE HostInv'
  OBVIOUS
<1>1. CASE OpenStore
  BY <1>1, DurableIsJournal DEF HostInv, OpenStore, call, AtWork, IsSequence
<1>2. CASE Recover
  BY <1>2, HostEnter DEF Recover
<1>3. CASE OpenShuffle
  BY <1>3, HostEnter DEF OpenShuffle
<1>4. CASE Request
  BY <1>4, HostEnter DEF Request
<1>5. CASE Serve
  BY <1>5 DEF HostInv, Serve, call, AtWork, IsSequence
<1>6. CASE Persist
  <2>1. IsSequence(journal') /\ journal' = Append(AtWork', record')
    BY <1>6, AppendSequence DEF HostInv, Persist, AtWork
  <2> QED
    BY <1>6, <2>1 DEF HostInv, Persist
<1>7. CASE PersistFails
  BY <1>7 DEF HostInv, PersistFails, AtWork, IsSequence
<1>8. CASE Compact
  <2>1. ~SnapshotPayload
    BY <1>8 DEF HostInv, Compact, SnapshotPayload
  <2> QED
    BY <1>8, <2>1 DEF HostInv, Compact, Compacting, AtWork, IsSequence
<1>9. CASE Apply
  <2>1. state' = journal /\ UNCHANGED <<journal, snapshot>>
    BY <1>9 DEF HostInv, Apply, AtWork
  <2>2. phase' \in {"opening", "serving"}
    BY <1>9 DEF HostInv, Apply
  <2>3. inside' = (step' # "none") /\ step' \in {"none", "persist"}
    BY <1>9 DEF HostInv, Apply
  <2> QED
    BY <2>1, <2>2, <2>3 DEF HostInv, AtWork, IsSequence
<1>10. CASE Crash
  BY <1>10 DEF HostInv, Crash, AtWork, IsSequence
<1>11. CASE UNCHANGED vars
  BY <1>11 DEF HostInv, vars, AtWork, IsSequence
<1> QED
  BY <1>1, <1>2, <1>3, <1>4, <1>5, <1>6, <1>7, <1>8, <1>9, <1>10, <1>11 DEF Next

LEMMA HostInvariant == Spec => []HostInv
  BY HostInit, HostStep, PTL DEF Spec

\* Between calls the coordinator main() serves from is exactly what a restart would
\* rebuild, whatever failed before and however often the sink asks for snapshots.
THEOREM Live == Spec => []LiveIsDurable
<1>1. HostInv => LiveIsDurable
  BY DurableIsJournal DEF HostInv, LiveIsDurable
<1> QED
  BY <1>1, HostInvariant, PTL

\* The sink's request is refused every time it is made, so no directory this process
\* writes ever holds a snapshot: the guard that protects the half-applied state also
\* keeps the periodic snapshot of StoreSink from ever being taken.
THEOREM NeverCompacts == Spec => [](snapshot = << >>)
<1>1. HostInv => snapshot = << >>
  BY DEF HostInv
<1> QED
  BY <1>1, HostInvariant, PTL

\* The directory is append-only: a step leaves what a restart would rebuild as it is, or
\* adds the one record the call in progress makes durable.
THEOREM OnlyGrows == Spec => [][Durable' \in {Durable, Append(Durable, record)}]_vars
<1>1. HostInv /\ HostInv' /\ [Next]_vars => [Durable' \in {Durable, Append(Durable, record)}]_vars
  <2> SUFFICES ASSUME HostInv, HostInv', Next
               PROVE  Durable' \in {Durable, Append(Durable, record)}
    OBVIOUS
  <2>1. Durable = journal
    BY DurableIsJournal DEF HostInv
  <2>2. Durable' = journal'
    BY DEF HostInv, Durable, IsSequence
  <2>3. journal' \in {journal, Append(journal, record)}
    BY DEF HostInv, Next, OpenStore, Recover, OpenShuffle, Request, Enter, Serve, Persist,
           PersistFails, Compact, Compacting, SnapshotPayload, Apply, Crash
  <2> QED
    BY <2>1, <2>2, <2>3
<1> QED
  BY <1>1, HostInvariant, PTL DEF Spec

----------------------------------------------------------------------------
(***************************************************************************)
(* Epochs. A record is made durable with the epoch that follows those of    *)
(* the directory, so the epochs of the log count its epoch records. Every   *)
(* process writes at most two epoch records and the record that opens the   *)
(* shuffle, and every process but the first follows a failure.              *)
(***************************************************************************)
RecordType == [kind : {"epoch", "open", "change"}, epoch : Nat]

\* The epoch records among the first i, and the epochs of all.
EpochRecords(s, i) == {j \in 1 .. i : s[j].kind = "epoch"}
EpochSet(s) == {0} \cup {s[i].epoch : i \in {j \in DOMAIN s : s[j].kind = "epoch"}}

Numbered(s) ==
    /\ s \in Seq(RecordType)
    /\ \A i \in DOMAIN s :
           s[i].kind = "epoch" => s[i].epoch = Cardinality(EpochRecords(s, i))
    /\ Cardinality(EpochRecords(s, Len(s))) \in EpochSet(s)
    /\ \A e \in EpochSet(s) : e =< Cardinality(EpochRecords(s, Len(s)))

LEMMA EpochsAreNumbers == ASSUME NEW s, Numbered(s) PROVE EpochSet(s) \subseteq Nat
<1>1. s \in Seq(RecordType) /\ \A r \in RecordType : r.epoch \in Nat
  BY DEF Numbered, RecordType
<1>2. \A i \in DOMAIN s : s[i] \in RecordType
  BY <1>1
<1> QED
  BY <1>1, <1>2 DEF EpochSet

\* The highest epoch is the number of epoch records.
LEMMA HighestEpoch ==
    ASSUME NEW s, Numbered(s)
    PROVE  EpochOf(s) = Cardinality(EpochRecords(s, Len(s))) /\ EpochOf(s) \in Nat
<1> DEFINE E == EpochSet(s)
           c == Cardinality(EpochRecords(s, Len(s)))
<1>1. c \in E /\ \A e \in E : e =< c
  BY DEF Numbered
<1>2. E \subseteq Nat
  BY EpochsAreNumbers
<1>3. EpochOf(s) = Max(E)
  BY DEF EpochOf, EpochSet
<1> HIDE DEF E, c
<1>4. \A x \in E : (\A y \in E : x >= y) => x = c
  BY <1>1, <1>2
<1>5. c \in E /\ \A y \in E : c >= y
  BY <1>1, <1>2
<1>6. Max(E) = c
  BY <1>4, <1>5 DEF Max
<1> QED
  BY <1>1, <1>2, <1>3, <1>6 DEF c

\* Appending the next epoch, or a record that is none, keeps the numbering.
LEMMA NumberedAppend ==
    ASSUME NEW s, Numbered(s), NEW r \in RecordType, r.kind = "epoch" => r.epoch = EpochOf(s) + 1
    PROVE  /\ Numbered(Append(s, r)) /\ Len(Append(s, r)) = Len(s) + 1
           /\ EpochOf(Append(s, r)) = (IF r.kind = "epoch" THEN EpochOf(s) + 1 ELSE EpochOf(s))
           /\ r.kind = "open" => IsOpen(Append(s, r))
<1> DEFINE t == Append(s, r)
           n == Len(s)
           c == Cardinality(EpochRecords(s, n))
<1>1. s \in Seq(RecordType) /\ n \in Nat /\ EpochOf(s) = c /\ c \in Nat
  BY HighestEpoch DEF Numbered
<1>2. /\ t \in Seq(RecordType) /\ Len(t) = n + 1 /\ t[n + 1] = r
      /\ \A i \in 1 .. n : t[i] = s[i]
      /\ DOMAIN t = 1 .. n + 1 /\ DOMAIN s = 1 .. n
  BY <1>1
<1> HIDE DEF t
<1>3. \A i \in 1 .. n : EpochRecords(t, i) = EpochRecords(s, i)
  BY <1>1, <1>2 DEF EpochRecords
<1>4. EpochRecords(t, n + 1)
        = (IF r.kind = "epoch" THEN EpochRecords(s, n) \cup {n + 1} ELSE EpochRecords(s, n))
  BY <1>1, <1>2 DEF EpochRecords
<1>5. IsFiniteSet(EpochRecords(s, n)) /\ n + 1 \notin EpochRecords(s, n)
  <2>1. IsFiniteSet(1 .. n)
    BY <1>1, FS_Interval
  <2>2. EpochRecords(s, n) \subseteq 1 .. n
    BY DEF EpochRecords
  <2> QED
    BY <1>1, <2>1, <2>2, FS_Subset
<1>6. Cardinality(EpochRecords(t, n + 1)) = (IF r.kind = "epoch" THEN c + 1 ELSE c)
  BY <1>4, <1>5, FS_AddElement
<1>7. EpochSet(t) = (IF r.kind = "epoch" THEN EpochSet(s) \cup {r.epoch} ELSE EpochSet(s))
  <2>1. \A i \in 1 .. n + 1 : i \in 1 .. n \/ i = n + 1
    BY <1>1
  <2>2. \A i \in 1 .. n : i \in 1 .. n + 1
    BY <1>1
  <2>3. n + 1 \in 1 .. n + 1
    BY <1>1
  <2> QED
    BY <1>2, <2>1, <2>2, <2>3 DEF EpochSet
<1>8. Numbered(t)
  <2>1. ASSUME NEW i \in DOMAIN t, t[i].kind = "epoch"
        PROVE  t[i].epoch = Cardinality(EpochRecords(t, i))
    <3>1. CASE i \in 1 .. n
      BY <1>2, <1>3, <2>1, <3>1 DEF Numbered
    <3>2. CASE i = n + 1
      BY <1>1, <1>2, <1>6, <2>1, <3>2
    <3> QED
      BY <1>1, <1>2, <3>1, <3>2
  <2>2. c \in EpochSet(s) /\ \A e \in EpochSet(s) : e =< c /\ e \in Nat
    BY EpochsAreNumbers DEF Numbered
  <2>3. /\ Cardinality(EpochRecords(t, n + 1)) \in EpochSet(t)
        /\ \A e \in EpochSet(t) : e =< Cardinality(EpochRecords(t, n + 1))
    BY <1>1, <1>6, <1>7, <2>2
  <2> QED
    BY <1>2, <2>1, <2>3 DEF Numbered
<1>9. EpochOf(t) = Cardinality(EpochRecords(t, n + 1))
  BY <1>2, <1>8, HighestEpoch
<1>10. r.kind = "open" => IsOpen(t)
  BY <1>1, <1>2 DEF IsOpen
<1> QED
  BY <1>1, <1>2, <1>6, <1>8, <1>9, <1>10 DEF t

\* What the process running now has written: epoch records, and records that are not
\* changes.
EpochsUsed ==
    IF phase = "down" THEN 0
    ELSE IF phase = "recovering" THEN IF step \in {"compact", "apply"} THEN 1 ELSE 0
    ELSE IF phase = "opening" /\ \/ step = "none" /\ ~IsOpen(journal)
                                 \/ step = "persist" /\ record.kind = "epoch"
         THEN 1 ELSE 2
RecordsUsed ==
    IF \/ phase = "serving"
       \/ phase = "opening" /\ step = "none" /\ IsOpen(journal)
       \/ phase = "opening" /\ step \in {"compact", "apply"} /\ record.kind = "open"
    THEN EpochsUsed + 1 ELSE EpochsUsed

\* The record of a call, by what main() is doing.
CallInv ==
    /\ step # "none" =>
           /\ record \in RecordType
           /\ phase = "recovering" => record.kind = "epoch"
           /\ phase = "opening" => record.kind \in {"epoch", "open"}
           /\ phase = "serving" => record.kind = "change"
    /\ step = "persist" =>
           \/ record = Epoch(EpochOf(journal) + 1)
           \/ record = Opened
           \/ record = Change /\ Len(journal) < MaxRecords
    /\ step \in {"compact", "apply"} /\ record.kind = "open" => IsOpen(journal)

BoundInv ==
    /\ failures \in Nat /\ failures =< MaxFailures
    /\ since \in Nat /\ since =< Len(journal)
    /\ EpochOf(journal) =< 2 * failures + EpochsUsed
    /\ Len(journal) =< MaxRecords + 3 * failures + RecordsUsed

EpochInv == HostInv /\ Numbered(journal) /\ CallInv /\ BoundInv

LEMMA EpochFacts ==
    ASSUME EpochInv
    PROVE  /\ Durable = journal /\ EpochOf(journal) \in Nat /\ Len(journal) \in Nat
           /\ MaxRecords \in Nat /\ MaxFailures \in Nat /\ failures \in Nat /\ since \in Nat
  BY DurableIsJournal, HighestEpoch, HostAssumption DEF EpochInv, HostInv, Numbered, BoundInv

LEMMA UsedBound == EpochsUsed \in 0 .. 2 /\ RecordsUsed \in 0 .. 3
  BY DEF EpochsUsed, RecordsUsed

LEMMA EpochBounds ==
    ASSUME EpochInv
    PROVE  /\ EpochOf(journal) =< 2 * (failures + 1)
           /\ Len(journal) =< MaxRecords + 3 * (failures + 1)
<1>1. /\ EpochOf(journal) =< 2 * failures + EpochsUsed
      /\ Len(journal) =< MaxRecords + 3 * failures + RecordsUsed
  BY DEF EpochInv, BoundInv
<1>2. \A e, f \in Nat : \A u \in 0 .. 2 : e =< 2 * f + u => e =< 2 * (f + 1)
  OBVIOUS
<1>3. \A l, m, f \in Nat : \A u \in 0 .. 3 : l =< m + 3 * f + u => l =< m + 3 * (f + 1)
  OBVIOUS
<1>4. EpochOf(journal) =< 2 * (failures + 1)
  BY <1>1, <1>2, UsedBound, EpochFacts
<1>5. Len(journal) =< MaxRecords + 3 * (failures + 1)
  BY <1>1, <1>3, UsedBound, EpochFacts
<1> QED
  BY <1>4, <1>5

LEMMA EpochInit == Init => EpochInv
<1> SUFFICES ASSUME Init PROVE EpochInv
  OBVIOUS
<1>1. journal = << >> /\ journal \in Seq(RecordType) /\ Len(journal) = 0
  BY DEF Init
<1>2. EpochRecords(journal, 0) = {} /\ EpochSet(journal) = {0}
  BY <1>1 DEF EpochRecords, EpochSet
<1>3. Numbered(journal)
  BY <1>1, <1>2, FS_EmptySet DEF Numbered
<1>4. EpochOf(journal) = 0
  BY <1>1, <1>2, <1>3, HighestEpoch, FS_EmptySet
<1> QED
  BY <1>1, <1>3, <1>4, HostInit, HostAssumption
     DEF Init, EpochInv, CallInv, BoundInv, EpochsUsed, RecordsUsed

\* A step that leaves the journal as it is: what remains to show is arithmetic.
LEMMA EpochEnter ==
    ASSUME EpochInv, NEW r, Enter(r), phase # "down",
           \/ phase \in {"recovering", "opening"} /\ r = Epoch(EpochOf(journal) + 1)
           \/ phase = "serving" /\ r = Change /\ Len(journal) < MaxRecords,
           phase = "opening" => ~IsOpen(journal)
    PROVE  CallInv' /\ BoundInv'
<1>1. /\ step = "none" /\ step' = "persist" /\ record' = r /\ journal' = journal
      /\ phase' = phase /\ since' = since /\ failures' = failures
  BY DEF Enter
<1>2. /\ r \in RecordType
      /\ phase \in {"recovering", "opening"} => r.kind = "epoch"
      /\ phase = "serving" => r.kind = "change"
  BY EpochFacts DEF Epoch, Change, RecordType
<1>3. CallInv'
  BY <1>1, <1>2 DEF CallInv
<1>4. EpochsUsed' = EpochsUsed /\ RecordsUsed' = RecordsUsed
  BY <1>1, <1>2 DEF EpochsUsed, RecordsUsed, EpochInv, HostInv
<1> QED
  BY <1>1, <1>3, <1>4 DEF EpochInv, BoundInv

LEMMA EpochPersist == ASSUME EpochInv, Persist PROVE Numbered(journal') /\ CallInv' /\ BoundInv'
<1>1. /\ step = "persist" /\ step' = "compact" /\ journal' = Append(journal, record)
      /\ since' = since + 1 /\ phase' = phase /\ record' = record /\ failures' = failures
  BY DEF Persist
<1>2. /\ record \in RecordType /\ phase # "down"
      /\ record.kind = "epoch" => record.epoch = EpochOf(journal) + 1
  BY <1>1 DEF EpochInv, HostInv, CallInv, Epoch, Opened, Change
<1>3. /\ Numbered(journal') /\ Len(journal') = Len(journal) + 1
      /\ EpochOf(journal') = (IF record.kind = "epoch" THEN EpochOf(journal) + 1 ELSE EpochOf(journal))
      /\ record.kind = "open" => IsOpen(journal')
  BY <1>1, <1>2, NumberedAppend DEF EpochInv
<1>4. CallInv'
  BY <1>1, <1>3 DEF EpochInv, CallInv
<1>5. CASE record.kind = "change"
  <2>1. Len(journal) < MaxRecords /\ phase = "serving"
    BY <1>1, <1>2, <1>5 DEF EpochInv, HostInv, CallInv, Epoch, Opened
  <2>2. EpochsUsed' = 2 /\ EpochsUsed = 2 /\ RecordsUsed' = 3
    BY <1>1, <2>1 DEF EpochsUsed, RecordsUsed
  <2> QED
    BY <1>1, <1>3, <1>4, <1>5, <2>1, <2>2, EpochFacts DEF EpochInv, BoundInv
<1>6. CASE record.kind = "epoch"
  <2>1. phase \in {"recovering", "opening"}
    BY <1>1, <1>2, <1>6 DEF EpochInv, HostInv, CallInv
  <2>2. /\ EpochsUsed' = EpochsUsed + 1 /\ EpochsUsed \in Nat
        /\ RecordsUsed = EpochsUsed /\ RecordsUsed' = EpochsUsed'
    BY <1>1, <1>6, <2>1 DEF EpochsUsed, RecordsUsed
  <2> QED
    BY <1>1, <1>3, <1>4, <1>6, <2>2, EpochFacts DEF EpochInv, BoundInv
<1>7. CASE record.kind = "open"
  <2>1. phase = "opening"
    BY <1>1, <1>2, <1>7 DEF EpochInv, HostInv, CallInv
  <2>2. /\ EpochsUsed' = 2 /\ EpochsUsed = 2
        /\ RecordsUsed = 2 /\ RecordsUsed' = 3
    BY <1>1, <1>7, <2>1 DEF EpochsUsed, RecordsUsed
  <2> QED
    BY <1>1, <1>3, <1>4, <1>7, <2>2, EpochFacts DEF EpochInv, BoundInv
<1> QED
  BY <1>2, <1>5, <1>6, <1>7 DEF RecordType

LEMMA EpochApply == ASSUME EpochInv, Apply PROVE CallInv' /\ BoundInv'
<1>1. /\ step = "apply" /\ journal' = journal /\ since' = since /\ failures' = failures
      /\ phase # "down" /\ phase \in {"recovering", "opening", "serving"}
      /\ record \in RecordType
  BY DEF Apply, EpochInv, HostInv, CallInv
<1>2. CASE phase = "opening" /\ record.kind = "epoch"
  <2>1. step' = "persist" /\ record' = Opened /\ phase' = phase
    BY <1>2 DEF Apply
  <2>2. Opened \in RecordType /\ Opened.kind = "open"
    BY DEF Opened, RecordType
  <2>3. CallInv'
    BY <1>2, <2>1, <2>2 DEF CallInv
  <2>4. EpochsUsed' = 2 /\ EpochsUsed = 2 /\ RecordsUsed' = 2 /\ RecordsUsed = 2
    BY <1>1, <1>2, <2>1, <2>2 DEF EpochsUsed, RecordsUsed
  <2> QED
    BY <1>1, <2>3, <2>4 DEF EpochInv, BoundInv
<1>3. CASE ~(phase = "opening" /\ record.kind = "epoch")
  <2>1. step' = "none" /\ phase' = IF phase = "recovering" THEN "opening" ELSE phase
    BY <1>3 DEF Apply
  <2>2. CallInv'
    BY <2>1 DEF CallInv
  <2>3. phase = "opening" => record.kind = "open" /\ IsOpen(journal)
    BY <1>1, <1>3 DEF EpochInv, CallInv
  <2>4. EpochsUsed' \in Nat /\ EpochsUsed =< EpochsUsed' /\ EpochsUsed \in Nat
        /\ RecordsUsed \in Nat /\ RecordsUsed' \in Nat /\ RecordsUsed =< RecordsUsed'
    BY <1>1, <2>1, <2>3 DEF EpochsUsed, RecordsUsed
  <2> QED
    BY <1>1, <2>2, <2>4, EpochFacts DEF EpochInv, BoundInv
<1> QED
  BY <1>2, <1>3

LEMMA EpochStep == EpochInv /\ [Next]_vars => EpochInv'
<1> SUFFICES ASSUME EpochInv, [Next]_vars PROVE EpochInv'
  OBVIOUS
<1>1. HostInv' /\ Durable = journal
  BY HostStep, EpochFacts DEF EpochInv
<1>2. CASE OpenStore
  <2>1. /\ phase = "down" /\ journal' = journal /\ step' = step /\ step = "none" /\ since' = 0
        /\ failures' = failures /\ phase' \in {"opening", "recovering"}
    BY <1>2 DEF OpenStore, call, EpochInv, HostInv
  <2>2. EpochsUsed = 0 /\ RecordsUsed = 0 /\ EpochsUsed' \in Nat /\ RecordsUsed' \in Nat
    BY <2>1 DEF EpochsUsed, RecordsUsed
  <2>3. BoundInv'
    BY <2>1, <2>2, EpochFacts DEF EpochInv, BoundInv
  <2> QED
    BY <1>1, <2>1, <2>3 DEF EpochInv, CallInv
<1>3. CASE Recover
  <2>1. phase = "recovering" /\ Enter(Epoch(EpochOf(journal) + 1)) /\ journal' = journal
    BY <1>1, <1>3 DEF Recover, Enter
  <2> QED
    BY <1>1, <2>1, EpochEnter DEF EpochInv
<1>4. CASE OpenShuffle
  <2>1. phase = "opening" /\ state = journal
    BY <1>4 DEF OpenShuffle, Enter, EpochInv, HostInv
  <2>2. ~IsOpen(journal) /\ Enter(Epoch(EpochOf(journal) + 1)) /\ journal' = journal
    BY <1>4, <2>1 DEF OpenShuffle, Enter
  <2> QED
    BY <1>1, <2>1, <2>2, EpochEnter DEF EpochInv
<1>5. CASE Request
  <2>1. phase = "serving" /\ Len(journal) < MaxRecords /\ Enter(Change) /\ journal' = journal
    BY <1>1, <1>5 DEF Request, Enter
  <2> QED
    BY <1>1, <2>1, EpochEnter DEF EpochInv
<1>6. CASE Serve
  <2>1. /\ phase = "opening" /\ step = "none" /\ phase' = "serving" /\ step' = step
        /\ IsOpen(journal) /\ journal' = journal /\ since' = since /\ failures' = failures
    BY <1>6 DEF Serve, call, EpochInv, HostInv
  <2>2. EpochsUsed = 2 /\ RecordsUsed = 3 /\ EpochsUsed' = 2 /\ RecordsUsed' = 3
    BY <2>1 DEF EpochsUsed, RecordsUsed
  <2> QED
    BY <1>1, <2>1, <2>2 DEF EpochInv, CallInv, BoundInv
<1>7. CASE Persist
  BY <1>1, <1>7, EpochPersist DEF EpochInv
<1>8. CASE PersistFails \/ Crash
  <2>1. /\ failures < MaxFailures /\ failures' = failures + 1 /\ step' = "none"
        /\ journal' = journal /\ since' = since /\ phase' \in {phase, "down"}
        /\ phase' = phase => phase = "serving"
    BY <1>8 DEF PersistFails, Crash, EpochInv, HostInv
  <2>2. EpochsUsed' \in Nat /\ RecordsUsed' \in Nat
    BY DEF EpochsUsed, RecordsUsed
  <2>3. /\ EpochOf(journal') =< 2 * failures' /\ Len(journal') =< MaxRecords + 3 * failures'
        /\ 2 * failures' \in Nat /\ 3 * failures' \in Nat
    BY <2>1, EpochBounds, EpochFacts
  <2>4. EpochOf(journal') \in Nat /\ Len(journal') \in Nat
    BY <2>1, EpochFacts
  <2>5. BoundInv'
    BY <2>1, <2>2, <2>3, <2>4, EpochFacts DEF EpochInv, BoundInv
  <2> QED
    BY <1>1, <2>1, <2>5 DEF EpochInv, CallInv
<1>9. CASE Compact
  <2>1. ~SnapshotPayload
    BY <1>9 DEF EpochInv, HostInv, Compact, SnapshotPayload
  <2>2. /\ step = "compact" /\ step' = "apply" /\ journal' = journal /\ since' = since
        /\ phase' = phase /\ record' = record /\ failures' = failures
    BY <1>9, <2>1 DEF Compact, Compacting
  <2>3. EpochsUsed' = EpochsUsed /\ RecordsUsed' = RecordsUsed
    BY <2>2 DEF EpochsUsed, RecordsUsed
  <2> QED
    BY <1>1, <2>2, <2>3 DEF EpochInv, CallInv, BoundInv
<1>10. CASE Apply
  <2>1. journal' = journal
    BY <1>10 DEF Apply
  <2> QED
    BY <1>1, <1>10, <2>1, EpochApply DEF EpochInv
<1>11. CASE UNCHANGED vars
  BY <1>1, <1>11 DEF vars, EpochInv, CallInv, BoundInv, EpochsUsed, RecordsUsed
<1> QED
  BY <1>2, <1>3, <1>4, <1>5, <1>6, <1>7, <1>8, <1>9, <1>10, <1>11 DEF Next

LEMMA EpochInvariant == Spec => []EpochInv
  BY EpochInit, EpochStep, PTL DEF Spec

\* No two processes share an epoch: the epochs of the log are 1, 2, 3 and so on, whether
\* a process died before or after its epoch record, inside recover() or between the two
\* records of open_shuffle().
THEOREM Epochs == Spec => []EpochsRise
<1>1. EpochInv => EpochsRise
  <2> SUFFICES ASSUME EpochInv PROVE EpochsRise
    OBVIOUS
  <2>1. HostType
    <3>1. Len(journal) =< MaxRecords + 3 * (MaxFailures + 1)
      BY EpochBounds, EpochFacts DEF EpochInv, BoundInv
    <3> QED
      BY <3>1 DEF HostType, EpochInv, HostInv, BoundInv
  <2>2. Durable = journal
    BY EpochFacts
  <2> QED
    BY <2>1, <2>2 DEF EpochsRise, EpochInv, Numbered, EpochRecords
<1> QED
  BY <1>1, EpochInvariant, PTL

\* The process as a whole implements the log its store promises: every acknowledged
\* record stays, in order, through recovery, failing appends and crashes.
THEOREM KeepsLog == Spec => ProcessKeepsLog
<1>1. Init => Log!Init
  BY DEF Init, Log!Init, Durable
<1>2. EpochInv /\ EpochInv' /\ [Next]_vars => [Log!Next]_<<Durable, phase # "down">>
  <2> SUFFICES ASSUME EpochInv, EpochInv', [Next]_vars
               PROVE  [Log!Next]_<<Durable, phase # "down">>
    OBVIOUS
  <2>1. Durable = journal /\ Durable' = journal'
    BY EpochFacts DEF EpochInv, HostInv, Durable, IsSequence
  <2>2. CASE OpenStore
    <3>1. phase = "down" /\ phase' # "down" /\ journal' = journal
      BY <2>2 DEF OpenStore
    <3>2. Log!Recover
      BY <2>1, <3>1 DEF Log!Recover
    <3> QED
      BY <3>2 DEF Log!Next
  <2>3. CASE Persist
    <3>1. phase # "down" /\ phase' = phase /\ journal' = Append(journal, record)
          /\ step = "persist"
      BY <2>3 DEF Persist, EpochInv, HostInv
    <3>2. record \in {Epoch(n) : n \in 1 .. 2 * (MaxFailures + 1)} \cup {Opened, Change}
      <4>1. CASE record = Epoch(EpochOf(journal) + 1)
        <5>1. record.kind = "epoch"
          BY <4>1 DEF Epoch
        <5>2. phase \in {"recovering", "opening"}
          BY <3>1, <5>1 DEF EpochInv, HostInv, CallInv
        <5>3. EpochsUsed \in {0, 1}
          BY <3>1, <5>1, <5>2 DEF EpochsUsed
        <5>4. EpochOf(journal) + 1 \in 1 .. 2 * (MaxFailures + 1)
          <6>1. EpochOf(journal) =< 2 * failures + EpochsUsed /\ failures =< MaxFailures
            BY DEF EpochInv, BoundInv
          <6>2. \A e, f, m \in Nat : \A u \in {0, 1} :
                    e =< 2 * f + u /\ f =< m => e + 1 \in 1 .. 2 * (m + 1)
            OBVIOUS
          <6> QED
            BY <5>3, <6>1, <6>2, EpochFacts
        <5> QED
          BY <4>1, <5>4
      <4> QED
        BY <3>1, <4>1 DEF EpochInv, CallInv
    <3>3. Log!Acknowledge
      BY <2>1, <3>1, <3>2 DEF Log!Acknowledge
    <3> QED
      BY <3>3 DEF Log!Next
  <2>4. CASE PersistFails \/ Crash
    <3>1. journal' = journal /\ phase # "down" /\ phase' \in {phase, "down"}
      BY <2>4 DEF PersistFails, Crash, EpochInv, HostInv
    <3>2. phase' = "down" => Log!Crash
      BY <2>1, <3>1 DEF Log!Crash
    <3> QED
      BY <2>1, <3>1, <3>2 DEF Log!Next
  <2>5. CASE Recover \/ OpenShuffle \/ Request \/ Serve \/ Compact \/ Apply \/ UNCHANGED vars
    <3>1. journal' = journal /\ (phase' # "down") = (phase # "down")
      BY <2>5 DEF Recover, OpenShuffle, Request, Enter, Serve, Compact, Compacting,
         SnapshotPayload, Apply, vars, EpochInv, HostInv
    <3> QED
      BY <2>1, <3>1
  <2> QED
    BY <2>2, <2>3, <2>4, <2>5 DEF Next
<1> QED
  BY <1>1, <1>2, EpochInvariant, PTL DEF Spec, ProcessKeepsLog, Log!Spec
=============================================================================
