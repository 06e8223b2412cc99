------------------------- MODULE DurableStoreProofs -------------------------
(***************************************************************************)
(* Proofs about the durable store, for any number of appends, compactions,  *)
(* crashes, damaged snapshots and failing operations other than a failing   *)
(* flush of the emptied journal (DurableStoreStaleLength.cfg is about it).  *)
(*                                                                          *)
(* The journal is a run of records with consecutive sequences that ends     *)
(* with the last one acknowledged; a record that was not acknowledged, or   *)
(* is torn, may follow.  So the records of the run after the snapshot are   *)
(* what open() replays, and what the caller has applied since.              *)
(***************************************************************************)
EXTENDS DurableStore, FiniteSetTheorems, TLAPS

\* The first n slots of the file are records with consecutive sequences, the last of
\* them `last', which is not older than a snapshot of sequence `base'.
Run(file, base, n, last) ==
    /\ n =< Len(file) /\ Len(file) =< n + 1
    /\ \A i \in 1 .. n : file[i] \in Records /\ file[i].sequence = last - n + i
    /\ base =< last

\* How many records of the run have a sequence above the base, and their payloads.
Above(base, n, last) == IF last - base =< n THEN last - base ELSE n
Newer(file, base, n, last) ==
    [k \in 1 .. Above(base, n, last) |-> file[n - Above(base, n, last) + k].payload]

Clean(file, n) == Len(file) = n
TornAfter(file, n) == Len(file) = n + 1 /\ file[n + 1] = Torn
RecordAfter(file, n, last) ==
    /\ Len(file) = n + 1
    /\ file[n + 1] \in Records /\ file[n + 1].sequence = last + 1

\* While a process has the store open.
RunInv == Run(journal, Snapshot.sequence, journal_bytes, last_sequence)
StateInv == Understood =>
    state = Snapshot.payload \o Newer(journal, Snapshot.sequence, journal_bytes, last_sequence)
TailInv ==
    /\ \/ Clean(journal, journal_bytes)
       \/ TornAfter(journal, journal_bytes) /\ (pc = "header" \/ journal_degraded)
       \/ /\ RecordAfter(journal, journal_bytes, last_sequence)
          /\ pc = "payload" \/ journal_degraded
    /\ pc = "header" => TornAfter(journal, journal_bytes)
    /\ pc = "payload" => /\ RecordAfter(journal, journal_bytes, last_sequence)
                         /\ journal[journal_bytes + 1].payload = next
HandleInv ==
    /\ ~journal_degraded => position = IF pc = "payload" THEN journal_bytes + 1 ELSE journal_bytes
    /\ pc \in {"header", "payload"} => ~journal_degraded /\ next \in Payloads
CompactInv ==
    /\ pc = "backup" => primary = NoFile
    /\ pc = "installed" => primary = Image
OpenInv == RunInv /\ StateInv /\ TailInv /\ HandleInv /\ CompactInv

\* While none has.
ClosedInv ==
    /\ pc = "idle"
    /\ \E n, last \in Nat :
           /\ Run(journal, Snapshot.sequence, n, last)
           /\ Clean(journal, n) \/ TornAfter(journal, n)

StoreInv ==
    /\ TypeOK
    /\ "damage" \notin FaultKinds => primary # Damaged /\ previous # Damaged
    /\ Readable(primary) /\ Readable(previous) => previous.sequence =< primary.sequence
    /\ opened => OpenInv
    /\ ~opened => ClosedInv

----------------------------------------------------------------------------
(***************************************************************************)
(* Files, runs and snapshots.                                               *)
(***************************************************************************)
\* Writing at the end of a file, or over its last slot.
LEMMA WrittenLast ==
    ASSUME NEW file \in Seq(Slots), NEW at \in Nat, NEW slot \in Slots,
           at = Len(file) \/ at + 1 = Len(file)
    PROVE  /\ Written(file, at, slot) \in Seq(Slots) /\ Len(Written(file, at, slot)) = at + 1
           /\ Written(file, at, slot)[at + 1] = slot
           /\ \A i \in 1 .. at : Written(file, at, slot)[i] = file[i]
  <1> DEFINE w == Written(file, at, slot)
  <1>1. w = [i \in 1 .. at + 1 |-> IF i = at + 1 THEN slot ELSE file[i]]
    BY DEF Written
  <1> HIDE DEF w
  <1>2. \A i \in 1 .. at + 1 : w[i] \in Slots
    BY <1>1
  <1>3. w \in Seq(Slots)
    BY <1>1, <1>2
  <1> QED
    BY <1>1, <1>3 DEF w

LEMMA CutBack ==
    ASSUME NEW file \in Seq(Slots), NEW n \in Nat, n =< Len(file)
    PROVE  /\ Cut(file, n) \in Seq(Slots) /\ Len(Cut(file, n)) = n
           /\ \A i \in 1 .. n : Cut(file, n)[i] = file[i]
  <1> DEFINE w == Cut(file, n)
  <1>1. w = [i \in 1 .. n |-> file[i]]
    BY DEF Cut
  <1> HIDE DEF w
  <1>2. \A i \in 1 .. n : w[i] \in Slots
    BY <1>1
  <1> QED
    BY <1>1, <1>2 DEF w

\* A run and what is newer in it depend on its slots alone.
LEMMA RunFrame ==
    ASSUME NEW file \in Seq(Slots), NEW other \in Seq(Slots), NEW base \in Nat, NEW n \in Nat,
           NEW last \in Nat, Run(file, base, n, last), n =< Len(other), Len(other) =< n + 1,
           \A i \in 1 .. n : other[i] = file[i]
    PROVE  /\ Run(other, base, n, last)
           /\ Newer(other, base, n, last) = Newer(file, base, n, last)
  <1>1. Run(other, base, n, last)
    BY DEF Run
  <1> DEFINE m == Above(base, n, last)
  <1>2. m \in Nat /\ m =< n
    BY DEF Above, Run
  <1>a. /\ Newer(other, base, n, last) = [k \in 1 .. m |-> other[n - m + k].payload]
        /\ Newer(file, base, n, last) = [k \in 1 .. m |-> file[n - m + k].payload]
    BY DEF Newer
  <1> HIDE DEF m
  <1>3. ASSUME NEW k \in 1 .. m PROVE other[n - m + k] = file[n - m + k]
    <2>1. n - m + k \in 1 .. n
      BY <1>2
    <2> QED
      BY <2>1
  <1>4. [k \in 1 .. m |-> other[n - m + k].payload] = [k \in 1 .. m |-> file[n - m + k].payload]
    BY <1>3
  <1> QED
    BY Zenon, <1>1, <1>4, <1>a

\* The record after a run extends it.
LEMMA RunExtended ==
    ASSUME NEW file \in Seq(Slots), NEW base \in Nat, NEW n \in Nat, NEW last \in Nat,
           Run(file, base, n, last), RecordAfter(file, n, last)
    PROVE  /\ Run(file, base, n + 1, last + 1)
           /\ Newer(file, base, n, last) \in Seq(Payloads)
           /\ Newer(file, base, n + 1, last + 1)
                  = Append(Newer(file, base, n, last), file[n + 1].payload)
  <1>1. Run(file, base, n + 1, last + 1)
    BY DEF Run, RecordAfter
  <1> DEFINE m == Above(base, n, last)
             a == Newer(file, base, n, last)
             b == Newer(file, base, n + 1, last + 1)
             x == file[n + 1].payload
  <1>2. /\ m \in Nat /\ m =< n /\ Above(base, n + 1, last + 1) = m + 1
        /\ (n + 1) - (m + 1) = n - m /\ n - m + (m + 1) = n + 1
    BY DEF Run, Above
  <1>3. b = [k \in 1 .. m + 1 |-> file[n - m + k].payload]
    BY <1>2 DEF Newer
  <1>4. a = [k \in 1 .. m |-> file[n - m + k].payload]
    BY DEF Newer
  <1> HIDE DEF a, b, m
  <1>5. \A k \in 1 .. m : file[n - m + k].payload \in Payloads
    BY <1>2 DEF Run, Records
  <1>6. a \in Seq(Payloads) /\ Len(a) = m
    BY <1>2, <1>4, <1>5
  <1>7. x \in Payloads
    BY DEF RecordAfter, Records
  <1>8. \A k \in 1 .. m + 1 : b[k] = IF k = m + 1 THEN x ELSE a[k]
    BY <1>2, <1>3, <1>4
  <1>9. b = [k \in 1 .. m + 1 |-> b[k]]
    BY <1>3
  <1> HIDE DEF x
  <1>10. b = [k \in 1 .. m + 1 |-> IF k = m + 1 THEN x ELSE a[k]]
    BY <1>8, <1>9
  <1>11. b = Append(a, x)
    BY <1>2, <1>6, <1>7, <1>10
  <1> QED
    BY <1>1, <1>6, <1>11 DEF a, b, x

LEMMA NewerType ==
    ASSUME NEW file \in Seq(Slots), NEW base \in Nat, NEW n \in Nat, NEW last \in Nat,
           Run(file, base, n, last)
    PROVE  Newer(file, base, n, last) \in Seq(Payloads)
  <1> DEFINE m == Above(base, n, last)
  <1>1. m \in Nat /\ m =< n
    BY DEF Above, Run
  <1> HIDE DEF m
  <1>2. \A k \in 1 .. m : file[n - m + k].payload \in Payloads
    BY <1>1 DEF Run, Records
  <1> QED
    BY <1>1, <1>2 DEF Newer, m

\* The members of an interval in ascending order.
LEMMA AscendingInterval ==
    ASSUME NEW a \in Nat, NEW b \in Nat, a =< b + 1
    PROVE  Ascending(a .. b) = [i \in 1 .. (b + 1) - a |-> (a + i) - 1]
  <1>1. Cardinality(a .. b) = (b + 1) - a
    BY FS_Interval
  <1>2. ASSUME NEW i \in 1 .. (b + 1) - a PROVE Nth(a .. b, i) = (a + i) - 1
    <2>1. ASSUME NEW x \in a .. b PROVE Cardinality(Below(a .. b, x)) = x - a
      <3>1. Below(a .. b, x) = a .. x - 1
        BY DEF Below
      <3>2. x - 1 \in Int /\ a \in Int
        OBVIOUS
      <3>3. Cardinality(a .. x - 1) = IF a > x - 1 THEN 0 ELSE (x - 1) - a + 1
        BY <3>2, FS_Interval
      <3> QED
        BY <3>1, <3>3
    <2>2. (a + i) - 1 \in a .. b
      OBVIOUS
    <2>3. \A x \in a .. b : Cardinality(Below(a .. b, x)) = i - 1 <=> x = (a + i) - 1
      BY <2>1
    <2> QED
      BY <2>2, <2>3 DEF Nth
  <1> QED
    BY <1>1, <1>2 DEF Ascending

LEMMA SnapshotType ==
    ASSUME TypeOK PROVE Snapshot \in Images
  <1>1. [sequence |-> 0, payload |-> << >>] \in Images
    BY DEF Images
  <1> QED
    BY <1>1 DEF TypeOK, Snapshot, Readable

\* open() finds the run, and replays what is newer than the snapshot.
LEMMA Scanned ==
    ASSUME TypeOK, NEW n \in Nat, NEW last \in Nat,
           Run(journal, Snapshot.sequence, n, last), Clean(journal, n) \/ TornAfter(journal, n)
    PROVE  /\ ScannedLength = n /\ (n # 0 => LastScanned = last)
           /\ ReplayedRecords = Newer(journal, Snapshot.sequence, n, last)
  <1> DEFINE s == Snapshot.sequence
             m == Above(s, n, last)
             k == n - m
  <1>1. s \in Nat /\ journal \in Seq(Slots) /\ Len(journal) \in Nat
    BY SnapshotType DEF TypeOK, Images
  <1> HIDE DEF s
  <1>2. /\ \A i \in 1 .. n : journal[i] \in Records /\ journal[i].sequence = last - n + i
        /\ s =< last /\ n =< Len(journal) /\ Len(journal) =< n + 1
    BY DEF Run, s
  <1>3. \A i \in 1 .. n : Believable(i)
    BY <1>2, StoreAssumption DEF Believable
  <1>4. ScannedLength = n
    <2> DEFINE M == {q \in 0 .. Len(journal) : \A i \in 1 .. q : Believable(i)}
    <2>1. n \in M
      BY <1>1, <1>2, <1>3
    <2>2. ASSUME NEW y \in M PROVE n >= y
      <3>1. CASE Len(journal) = n
        BY <1>1, <3>1
      <3>2. CASE TornAfter(journal, n)
        <4>1. ~Believable(n + 1)
          BY <3>2 DEF TornAfter, Believable
        <4> QED
          BY <1>1, <3>2, <4>1 DEF TornAfter
      <3> QED
        BY <3>1, <3>2 DEF Clean
    <2>3. \A x \in M : (\A y \in M : x >= y) => x = n
      BY <2>1, <2>2
    <2>4. ScannedLength = Max(M)
      BY DEF ScannedLength
    <2> HIDE DEF M
    <2> QED
      BY <2>1, <2>2, <2>3, <2>4 DEF Max
  <1>5. n # 0 => LastScanned = last
    BY <1>2, <1>4 DEF LastScanned
  <1>6. /\ m \in Nat /\ k \in Nat /\ k =< n /\ n - k = m
        /\ \A i \in 1 .. n : last - n + i =< s <=> i =< k
    BY <1>1, <1>2 DEF Above
  <1>7. ASSUME NEW i \in 1 .. n PROVE Replayed(i) <=> i > k
    <2>1. journal[i].sequence = last - n + i
      BY <1>2
    <2>2. i > 1 => journal[i - 1].sequence = last - n + (i - 1)
      BY <1>2
    <2>3. i > 1 => journal[i].sequence # journal[i - 1].sequence
      BY <2>1, <2>2
    <2>4. Folded(i) <=> last - n + i =< s
      BY <2>1 DEF Folded, s
    <2>5. Replayed(i) <=> ~Folded(i)
      BY <2>3 DEF Replayed
    <2> QED
      BY <1>6, <2>4, <2>5
  <1>a. Newer(journal, s, n, last) = [j \in 1 .. m |-> journal[k + j].payload]
    BY DEF Newer
  <1> HIDE DEF k, m
  <1>8. {i \in 1 .. ScannedLength : Replayed(i)} = k + 1 .. n
    BY <1>4, <1>6, <1>7
  <1>9. Ascending(k + 1 .. n) = [j \in 1 .. m |-> k + j]
    <2>1. Ascending(k + 1 .. n) = [j \in 1 .. (n + 1) - (k + 1) |-> ((k + 1) + j) - 1]
      BY <1>6, AscendingInterval
    <2>2. (n + 1) - (k + 1) = m /\ \A j \in 1 .. m : ((k + 1) + j) - 1 = k + j
      BY <1>6
    <2> QED
      BY <2>1, <2>2
  <1>10. ReplayedRecords = [j \in 1 .. m |-> journal[k + j].payload]
    <2> DEFINE kept == Ascending(k + 1 .. n)
    <2>1. ReplayedRecords = [j \in DOMAIN kept |-> journal[kept[j]].payload]
      BY <1>8 DEF ReplayedRecords
    <2> QED
      BY <1>9, <2>1
  <1> QED
    BY <1>4, <1>5, <1>10, <1>a DEF s

LEMMA ConcatAppend ==
    ASSUME NEW p \in Seq(Payloads), NEW a \in Seq(Payloads), NEW v \in Payloads
    PROVE  p \o Append(a, v) = Append(p \o a, v)
  OBVIOUS

\* While the store is open, the directory yields the caller's state or one record more.
LEMMA OpenRecovers ==
    ASSUME StoreInv, opened, Understood
    PROVE  Recovered = state \/ \E v \in Payloads : Recovered = Append(state, v)
  <1> DEFINE n == journal_bytes
             last == last_sequence
             s == Snapshot.sequence
             p == Snapshot.payload
  <1>1. /\ TypeOK /\ n \in Nat /\ last \in Nat /\ s \in Nat /\ p \in Seq(Payloads)
        /\ journal \in Seq(Slots) /\ Run(journal, s, n, last)
        /\ state = p \o Newer(journal, s, n, last)
    BY SnapshotType DEF StoreInv, OpenInv, RunInv, StateInv, TypeOK, Images
  <1>2. CASE Clean(journal, n) \/ TornAfter(journal, n)
    BY <1>1, <1>2, Scanned DEF Recovered
  <1>3. CASE RecordAfter(journal, n, last)
    <2> DEFINE v == journal[n + 1].payload
               a == Newer(journal, s, n, last)
    <2>1. /\ Run(journal, s, n + 1, last + 1) /\ a \in Seq(Payloads)
          /\ Newer(journal, s, n + 1, last + 1) = Append(a, v)
      BY <1>1, <1>3, RunExtended
    <2>2. Clean(journal, n + 1) /\ v \in Payloads
      BY <1>3 DEF RecordAfter, Clean, Records
    <2>3. n + 1 \in Nat /\ last + 1 \in Nat
      BY <1>1
    <2>4. ReplayedRecords = Append(a, v)
      BY <1>1, <2>1, <2>2, <2>3, Scanned
    <2>5. Recovered = p \o Append(a, v)
      BY <2>4 DEF Recovered
    <2> HIDE DEF a, v, p
    <2>6. Recovered = Append(p \o a, v)
      BY <1>1, <2>1, <2>2, <2>5, ConcatAppend
    <2> QED
      BY <1>1, <2>2, <2>6 DEF a, p
  <1> QED
    BY <1>2, <1>3 DEF StoreInv, OpenInv, TailInv

----------------------------------------------------------------------------
(***************************************************************************)
(* The invariant is kept, action by action.                                 *)
(***************************************************************************)
\* No flush of the emptied journal fails.
NoStaleLength == "flush_truncate" \notin FaultKinds

LEMMA OpenFacts ==
    ASSUME StoreInv, opened
    PROVE  /\ journal \in Seq(Slots) /\ journal_bytes \in Nat /\ last_sequence \in Nat
           /\ Snapshot \in Images /\ Snapshot.sequence \in Nat
           /\ Snapshot.payload \in Seq(Payloads)
           /\ Run(journal, Snapshot.sequence, journal_bytes, last_sequence)
           /\ journal_bytes =< Len(journal) /\ Len(journal) =< journal_bytes + 1
           /\ RunInv /\ StateInv /\ TailInv /\ HandleInv /\ CompactInv
  BY SnapshotType DEF StoreInv, OpenInv, RunInv, TypeOK, Images, Run

LEMMA SnapshotFrame ==
    ASSUME primary' = primary, previous' = previous
    PROVE  Snapshot' = Snapshot /\ Understood' = Understood
  BY DEF Snapshot, Understood, Readable

LEMMA NextType ==
    ASSUME next \in Payloads
    PROVE  next + 1 \in 1 .. MaxAppends + 1
  BY StoreAssumption DEF Payloads

\* Steps that leave the slots of the run alone.
LEMMA SameRun ==
    ASSUME StoreInv, opened, journal' \in Seq(Slots), Snapshot' = Snapshot,
           Understood' = Understood,
           journal_bytes =< Len(journal'), Len(journal') =< journal_bytes + 1,
           \A i \in 1 .. journal_bytes : journal'[i] = journal[i],
           journal_bytes' = journal_bytes, last_sequence' = last_sequence, state' = state
    PROVE  RunInv' /\ StateInv'
  <1>1. /\ Run(journal', Snapshot.sequence, journal_bytes, last_sequence)
        /\ Newer(journal', Snapshot.sequence, journal_bytes, last_sequence)
             = Newer(journal, Snapshot.sequence, journal_bytes, last_sequence)
    <2>1. /\ journal \in Seq(Slots) /\ journal_bytes \in Nat /\ last_sequence \in Nat
          /\ Snapshot.sequence \in Nat
          /\ Run(journal, Snapshot.sequence, journal_bytes, last_sequence)
      BY OpenFacts
    <2> QED
      BY <2>1, RunFrame
  <1>2. StateInv
    BY OpenFacts
  <1> QED
    BY Zenon, <1>1, <1>2 DEF RunInv, StateInv

LEMMA HeaderStep == ASSUME StoreInv, AppendHeader PROVE StoreInv'
  <1>1. /\ opened /\ ~journal_degraded /\ pc = "idle" /\ next =< MaxAppends
        /\ journal' = Written(journal, position, Torn) /\ pc' = "header"
        /\ primary' = primary /\ previous' = previous /\ opened' = opened
        /\ journal_degraded' = journal_degraded /\ snapshot_sequence' = snapshot_sequence
        /\ last_sequence' = last_sequence /\ journal_bytes' = journal_bytes
        /\ position' = position /\ revalidation_required' = revalidation_required
        /\ state' = state /\ next' = next /\ acked' = acked
        /\ crashes' = crashes /\ faults' = faults
    BY DEF AppendHeader, memory
  <1>2. Snapshot' = Snapshot /\ Understood' = Understood
    BY <1>1, SnapshotFrame
  <1>3. position = journal_bytes /\ Len(journal) = journal_bytes /\ journal_bytes \in Nat
        /\ journal \in Seq(Slots)
    BY <1>1, OpenFacts DEF HandleInv, TailInv, Clean
  <1>4. /\ journal' \in Seq(Slots) /\ Len(journal') = journal_bytes + 1
        /\ journal'[journal_bytes + 1] = Torn
        /\ \A i \in 1 .. journal_bytes : journal'[i] = journal[i]
    <2>1. Torn \in Slots
      BY DEF Slots
    <2> QED
      BY <1>1, <1>3, <2>1, WrittenLast
  <1>5. TypeOK'
    BY <1>1, <1>4 DEF StoreInv, TypeOK
  <1>6. RunInv' /\ StateInv'
    BY <1>1, <1>2, <1>3, <1>4, SameRun
  <1>7. TailInv'
    BY <1>1, <1>4 DEF TailInv, TornAfter
  <1>8. HandleInv' /\ CompactInv'
    <2>1. next \in Payloads
      BY <1>1, StoreAssumption DEF StoreInv, TypeOK, Payloads
    <2> QED
      BY <1>1, <1>3, <2>1 DEF HandleInv, CompactInv
  <1> QED
    BY <1>1, <1>5, <1>6, <1>7, <1>8 DEF StoreInv, OpenInv

LEMMA PayloadStep == ASSUME StoreInv, opened, AppendPayload PROVE StoreInv'
  <1>1. /\ pc = "header" /\ pc' = "payload" /\ position' = position + 1
        /\ journal' = Written(journal, position, Record(last_sequence + 1, next))
        /\ primary' = primary /\ previous' = previous /\ opened' = opened
        /\ journal_degraded' = journal_degraded /\ snapshot_sequence' = snapshot_sequence
        /\ last_sequence' = last_sequence /\ journal_bytes' = journal_bytes
        /\ revalidation_required' = revalidation_required
        /\ state' = state /\ next' = next /\ acked' = acked
        /\ crashes' = crashes /\ faults' = faults
    BY DEF AppendPayload, NextSequence
  <1>2. Snapshot' = Snapshot /\ Understood' = Understood
    BY <1>1, SnapshotFrame
  <1>3. /\ position = journal_bytes /\ Len(journal) = journal_bytes + 1
        /\ journal_bytes \in Nat /\ last_sequence \in Nat /\ journal \in Seq(Slots)
        /\ ~journal_degraded /\ next \in Payloads
    BY <1>1, OpenFacts DEF HandleInv, TailInv, TornAfter
  <1> DEFINE r == Record(last_sequence + 1, next)
  <1>4. r \in Records /\ r.sequence = last_sequence + 1 /\ r.payload = next
    BY <1>3 DEF Record, Records
  <1> HIDE DEF r
  <1>5. /\ journal' \in Seq(Slots) /\ Len(journal') = journal_bytes + 1
        /\ journal'[journal_bytes + 1] = r
        /\ \A i \in 1 .. journal_bytes : journal'[i] = journal[i]
    <2>1. r \in Slots
      BY <1>4 DEF Slots
    <2> QED
      BY <1>1, <1>3, <2>1, WrittenLast DEF r
  <1>6. TypeOK'
    BY <1>1, <1>5 DEF StoreInv, TypeOK
  <1>7. RunInv' /\ StateInv'
    BY <1>1, <1>2, <1>3, <1>5, SameRun
  <1>8. TailInv'
    BY <1>1, <1>4, <1>5 DEF TailInv, RecordAfter
  <1>9. HandleInv' /\ CompactInv'
    BY <1>1, <1>3 DEF HandleInv, CompactInv
  <1> QED
    BY <1>1, <1>6, <1>7, <1>8, <1>9 DEF StoreInv, OpenInv

LEMMA FlushStep == ASSUME StoreInv, opened, AppendFlush PROVE StoreInv'
  <1>1. /\ pc = "payload" /\ pc' = "idle" /\ position' = position /\ journal' = journal
        /\ last_sequence' = last_sequence + 1 /\ journal_bytes' = journal_bytes + 1
        /\ state' = Append(state, next) /\ acked' = Append(acked, next) /\ next' = next + 1
        /\ primary' = primary /\ previous' = previous /\ opened' = opened
        /\ journal_degraded' = journal_degraded /\ snapshot_sequence' = snapshot_sequence
        /\ revalidation_required' = revalidation_required
        /\ crashes' = crashes /\ faults' = faults
    BY DEF AppendFlush, NextSequence, disk
  <1>2. Snapshot' = Snapshot /\ Understood' = Understood
    BY <1>1, SnapshotFrame
  <1> DEFINE n == journal_bytes
             last == last_sequence
             s == Snapshot.sequence
             p == Snapshot.payload
             a == Newer(journal, s, n, last)
  <1>3. /\ RecordAfter(journal, n, last) /\ journal[n + 1].payload = next /\ next \in Payloads
        /\ ~journal_degraded /\ position = n + 1
    BY <1>1, OpenFacts DEF TailInv, HandleInv
  <1>4. /\ Run(journal, s, n + 1, last + 1) /\ a \in Seq(Payloads)
        /\ Newer(journal, s, n + 1, last + 1) = Append(a, next)
    BY <1>3, OpenFacts, RunExtended
  <1>5. RunInv'
    BY <1>1, <1>2, <1>4 DEF RunInv
  <1>6. StateInv'
    <2>1. (Understood => state = p \o a) /\ p \in Seq(Payloads)
      BY OpenFacts DEF StateInv
    <2>2. Understood => state' = p \o Append(a, next)
      BY Zenon, <1>1, <1>3, <1>4, <2>1, ConcatAppend
    <2> QED
      BY Zenon, <1>1, <1>2, <1>4, <2>2 DEF StateInv
  <1>7. TypeOK'
    <2>1. next' \in 1 .. MaxAppends + 1
      BY <1>1, <1>3, NextType
    <2> QED
      BY <1>1, <1>3, <2>1 DEF StoreInv, TypeOK
  <1>8. TailInv' /\ HandleInv' /\ CompactInv'
    BY <1>1, <1>3 DEF TailInv, HandleInv, CompactInv, Clean, RecordAfter
  <1> QED
    BY <1>1, <1>5, <1>6, <1>7, <1>8 DEF StoreInv, OpenInv

\* The append did not succeed: the journal is cut back, or left as it is.
LEMMA FailStep == ASSUME StoreInv, opened, AppendFail \/ AppendDegrade PROVE StoreInv'
  <1>1. /\ pc \in {"header", "payload"} /\ pc' = "idle" /\ next' = next + 1
        /\ primary' = primary /\ previous' = previous /\ opened' = opened
        /\ snapshot_sequence' = snapshot_sequence
        /\ last_sequence' = last_sequence /\ journal_bytes' = journal_bytes
        /\ revalidation_required' = revalidation_required
        /\ state' = state /\ acked' = acked /\ crashes' = crashes /\ faults' = faults + 1
    BY DEF AppendFail, AppendDegrade, Fault
  <1>2. Snapshot' = Snapshot /\ Understood' = Understood
    BY <1>1, SnapshotFrame
  <1>3. /\ journal_bytes \in Nat /\ journal \in Seq(Slots) /\ journal_bytes =< Len(journal)
        /\ Len(journal) =< journal_bytes + 1 /\ ~journal_degraded /\ next \in Payloads
    BY <1>1, OpenFacts DEF HandleInv
  <1>a. next' \in 1 .. MaxAppends + 1
    BY <1>1, <1>3, NextType
  <1>4. CASE journal' = Cut(journal, journal_bytes) /\ position' = journal_bytes
             /\ journal_degraded' \in BOOLEAN
    <2>1. /\ journal' \in Seq(Slots) /\ Len(journal') = journal_bytes
          /\ \A i \in 1 .. journal_bytes : journal'[i] = journal[i]
      BY <1>3, <1>4, CutBack
    <2>2. RunInv' /\ StateInv'
      BY <1>1, <1>2, <1>3, <2>1, SameRun
    <2>3. TypeOK'
      BY <1>1, <1>a, <1>4, <2>1 DEF StoreInv, TypeOK
    <2>4. TailInv' /\ HandleInv' /\ CompactInv'
      BY <1>1, <1>4, <2>1 DEF TailInv, HandleInv, CompactInv, Clean
    <2> QED
      BY <1>1, <2>2, <2>3, <2>4 DEF StoreInv, OpenInv
  <1>5. CASE journal' = journal /\ position' = position /\ journal_degraded'
    <2>1. RunInv' /\ StateInv'
      BY <1>1, <1>2, <1>3, <1>5, SameRun
    <2>2. TypeOK'
      BY <1>1, <1>a, <1>5 DEF StoreInv, TypeOK
    <2>3. TailInv' /\ HandleInv' /\ CompactInv'
      BY <1>1, <1>5, OpenFacts DEF TailInv, HandleInv, CompactInv
    <2> QED
      BY <1>1, <2>1, <2>2, <2>3 DEF StoreInv, OpenInv
  <1>6. CASE AppendFail
    <2>1. journal' = Cut(journal, journal_bytes) /\ position' = journal_bytes
          /\ journal_degraded' = journal_degraded
      BY <1>6 DEF AppendFail
    <2> QED
      BY <1>4, <2>1 DEF StoreInv, TypeOK
  <1>7. CASE AppendDegrade
    <2>1. /\ journal_degraded' = TRUE
          /\ \/ journal' = journal /\ position' = position
             \/ journal' = Cut(journal, journal_bytes) /\ position' = journal_bytes
      BY <1>7 DEF AppendDegrade
    <2> QED
      BY <1>4, <1>5, <2>1
  <1> QED
    BY <1>6, <1>7

LEMMA BackupStep == ASSUME StoreInv, CompactBackup PROVE StoreInv'
  <1>1. /\ opened /\ pc = "idle" /\ pc' = "backup" /\ journal' = journal
        /\ opened' = opened /\ journal_degraded' = journal_degraded
        /\ snapshot_sequence' = snapshot_sequence
        /\ last_sequence' = last_sequence /\ journal_bytes' = journal_bytes
        /\ position' = position /\ revalidation_required' = revalidation_required
        /\ state' = state /\ next' = next /\ acked' = acked
        /\ crashes' = crashes /\ faults' = faults
    BY DEF CompactBackup, memory
  <1>2. /\ primary' = NoFile
        /\ previous' = (IF primary = NoFile THEN previous ELSE primary)
    BY DEF CompactBackup
  <1>3. ASSUME primary = Damaged PROVE RunInv' /\ StateInv'
    <2>1. ~Understood' /\ Snapshot'.sequence = 0
      BY <1>2, <1>3, StoreAssumption DEF Understood, Snapshot, Readable
    <2>2. Run(journal, 0, journal_bytes, last_sequence)
      BY <1>1, OpenFacts DEF Run
    <2> QED
      BY <1>1, <2>1, <2>2 DEF RunInv, StateInv
  <1>4. ASSUME primary # Damaged PROVE RunInv' /\ StateInv'
    <2>1. Snapshot' = Snapshot /\ Understood' = Understood
      BY <1>2, <1>4 DEF Snapshot, Readable, Understood
    <2> QED
      BY <1>1, <2>1, OpenFacts, SameRun
  <1>5. /\ TypeOK'
        /\ "damage" \notin FaultKinds => primary' # Damaged /\ previous' # Damaged
        /\ ~Readable(primary')
    BY <1>1, <1>2, StoreAssumption DEF StoreInv, TypeOK, Readable
  <1>6. TailInv' /\ HandleInv' /\ CompactInv'
    BY <1>1, <1>2, OpenFacts DEF TailInv, HandleInv, CompactInv
  <1> QED
    BY <1>1, <1>3, <1>4, <1>5, <1>6 DEF StoreInv, OpenInv, Readable

\* The new snapshot is the caller's state, and no record of the run is newer.
LEMMA AllFolded ==
    ASSUME NEW file, NEW n \in Nat, NEW last \in Nat, NEW p \in Seq(Payloads)
    PROVE  p = p \o Newer(file, last, n, last)
  <1>1. Above(last, n, last) = 0
    BY DEF Above
  <1>2. Newer(file, last, n, last) = << >>
    BY <1>1 DEF Newer
  <1> QED
    BY <1>2

LEMMA InstallStep == ASSUME StoreInv, opened, CompactInstall PROVE StoreInv'
  <1>1. /\ pc = "backup" /\ pc' = "installed" /\ journal' = journal
        /\ primary' = Image /\ previous' = previous
        /\ opened' = opened /\ journal_degraded' = journal_degraded
        /\ snapshot_sequence' = snapshot_sequence
        /\ last_sequence' = last_sequence /\ journal_bytes' = journal_bytes
        /\ position' = position /\ revalidation_required' = revalidation_required
        /\ state' = state /\ next' = next /\ acked' = acked
        /\ crashes' = crashes /\ faults' = faults
    BY DEF CompactInstall, memory
  <1>2. Image \in Images /\ Image.sequence = last_sequence /\ Image.payload = state
    BY DEF Image, Images, StoreInv, TypeOK
  <1>3. Snapshot' = Image
    BY <1>1, <1>2, StoreAssumption DEF Snapshot, Readable
  <1>4. RunInv'
    <2>1. Run(journal, last_sequence, journal_bytes, last_sequence)
      BY OpenFacts DEF Run
    <2> QED
      BY Zenon, <1>1, <1>2, <1>3, <2>1 DEF RunInv
  <1>5. StateInv'
    <2>1. state = state \o Newer(journal, last_sequence, journal_bytes, last_sequence)
      BY AllFolded DEF StoreInv, TypeOK
    <2> QED
      BY Zenon, <1>1, <1>2, <1>3, <2>1 DEF StateInv
  <1>6. /\ TypeOK'
        /\ "damage" \notin FaultKinds => primary' # Damaged /\ previous' # Damaged
        /\ Readable(previous) => previous.sequence =< last_sequence
    <2>1. primary = NoFile /\ Snapshot.sequence =< last_sequence
      BY <1>1, OpenFacts DEF CompactInv, Run
    <2>2. Readable(previous) => Snapshot = previous
      BY <2>1 DEF Snapshot, Readable
    <2> QED
      BY <1>1, <1>2, <2>1, <2>2, StoreAssumption DEF StoreInv, TypeOK
  <1>7. TailInv' /\ HandleInv'
    BY <1>1, OpenFacts DEF TailInv, HandleInv
  <1>8. CompactInv'
    <2>1. Image' = Image
      BY <1>1 DEF Image
    <2> QED
      BY <1>1, <2>1 DEF CompactInv
  <1> QED
    BY <1>1, <1>2, <1>4, <1>5, <1>6, <1>7, <1>8 DEF StoreInv, OpenInv, Readable

\* A compaction that stops between two of its steps and reports it.
LEMMA StoppedStep ==
    ASSUME StoreInv, opened, NoStaleLength, CompactReplaceFail \/ CompactTruncateFail
    PROVE  StoreInv'
  <1>1. /\ pc \in {"backup", "installed"} /\ pc' = "idle" /\ journal' = journal
        /\ primary' = primary /\ previous' = previous
        /\ opened' = opened /\ journal_degraded' = journal_degraded
        /\ snapshot_sequence' = snapshot_sequence
        /\ last_sequence' = last_sequence /\ journal_bytes' = journal_bytes
        /\ position' = position /\ revalidation_required' = revalidation_required
        /\ state' = state /\ next' = next /\ acked' = acked
        /\ crashes' = crashes /\ faults' = faults + 1
    BY DEF CompactReplaceFail, CompactTruncateFail, Fault, NoStaleLength, memory, disk
  <1>2. Snapshot' = Snapshot /\ Understood' = Understood
    BY <1>1, SnapshotFrame
  <1>3. RunInv' /\ StateInv'
    BY <1>1, <1>2, OpenFacts, SameRun
  <1>4. TypeOK'
    BY <1>1 DEF StoreInv, TypeOK
  <1>5. TailInv' /\ HandleInv' /\ CompactInv'
    BY <1>1, OpenFacts DEF TailInv, HandleInv, CompactInv
  <1> QED
    BY <1>1, <1>3, <1>4, <1>5 DEF StoreInv, OpenInv

LEMMA TruncateStep == ASSUME StoreInv, opened, CompactTruncate PROVE StoreInv'
  <1>1. /\ pc = "installed" /\ pc' = "idle" /\ journal' = << >> /\ position' = 0
        /\ primary' = primary /\ previous' = previous
        /\ opened' = opened /\ journal_degraded' = journal_degraded
        /\ snapshot_sequence' = last_sequence
        /\ last_sequence' = last_sequence /\ journal_bytes' = 0
        /\ revalidation_required' = revalidation_required
        /\ state' = state /\ next' = next /\ acked' = acked
        /\ crashes' = crashes /\ faults' = faults
    BY DEF CompactTruncate
  <1>2. Image \in Images /\ Image.sequence = last_sequence /\ Image.payload = state
    BY DEF Image, Images, StoreInv, TypeOK
  <1>3. Snapshot' = Image
    <2>1. primary = Image
      BY <1>1, OpenFacts DEF CompactInv
    <2> QED
      BY <1>1, <1>2, <2>1, StoreAssumption DEF Snapshot, Readable
  <1>4. RunInv'
    <2>1. Run(<< >>, last_sequence, 0, last_sequence)
      BY OpenFacts DEF Run
    <2> QED
      BY Zenon, <1>1, <1>2, <1>3, <2>1 DEF RunInv
  <1>5. StateInv'
    <2>1. state = state \o Newer(<< >>, last_sequence, 0, last_sequence)
      BY AllFolded DEF StoreInv, TypeOK
    <2> QED
      BY Zenon, <1>1, <1>2, <1>3, <2>1 DEF StateInv
  <1>6. TypeOK'
    BY <1>1 DEF StoreInv, TypeOK
  <1>7. TailInv' /\ HandleInv' /\ CompactInv'
    BY <1>1 DEF TailInv, HandleInv, CompactInv, Clean
  <1> QED
    BY <1>1, <1>4, <1>5, <1>6, <1>7 DEF StoreInv, OpenInv

LEMMA OpenStep == ASSUME StoreInv, Open PROVE StoreInv'
  <1>1. /\ ~opened /\ opened' /\ ~journal_degraded' /\ pc' = pc
        /\ primary' = primary /\ previous' = previous
        /\ next' = next /\ crashes' = crashes /\ faults' = faults
        /\ snapshot_sequence' = Snapshot.sequence
        /\ last_sequence' = Max({Snapshot.sequence, LastScanned})
        /\ journal_bytes' = ScannedLength /\ position' = ScannedLength
        /\ journal' = Cut(journal, ScannedLength)
        /\ revalidation_required' = MustRevalidate
        /\ state' = Recovered /\ acked' = Recovered
        /\ journal_degraded' = FALSE
    BY DEF Open
  <1>3. TypeOK /\ pc = "idle"
    BY <1>1 DEF StoreInv, ClosedInv
  <1> DEFINE s == Snapshot.sequence
             p == Snapshot.payload
  <1>4. s \in Nat /\ p \in Seq(Payloads) /\ journal \in Seq(Slots) /\ Snapshot' = Snapshot
        /\ Understood' = Understood
    BY <1>1, <1>3, SnapshotType, SnapshotFrame DEF TypeOK, Images
  <1>2. PICK n \in Nat, last \in Nat :
            /\ Run(journal, s, n, last) /\ (n = 0 => last = s)
            /\ Clean(journal, n) \/ TornAfter(journal, n)
    <2>1. PICK n \in Nat, last \in Nat :
              /\ Run(journal, s, n, last)
              /\ Clean(journal, n) \/ TornAfter(journal, n)
      BY <1>1 DEF StoreInv, ClosedInv
    <2>2. CASE n = 0
      <3>1. Run(journal, s, n, s)
        BY <1>4, <2>1, <2>2 DEF Run
      <3> QED
        BY <1>4, <2>1, <3>1
    <2> QED
      BY <2>1, <2>2
  <1>5. /\ ScannedLength = n /\ (n # 0 => LastScanned = last)
        /\ ReplayedRecords = Newer(journal, s, n, last)
    BY <1>2, <1>3, Scanned
  <1>6. last_sequence' = last
    <2>1. s =< last /\ (n = 0 => s = last /\ LastScanned = 0)
      BY <1>2, <1>4, <1>5 DEF Run, LastScanned
    <2>2. Max({s, LastScanned}) = last
      BY <1>4, <1>5, <2>1 DEF Max
    <2> QED
      BY <1>1, <2>2
  <1>7. n =< Len(journal) /\ Len(journal) =< n + 1
    BY <1>2 DEF Run
  <1>8. /\ journal' \in Seq(Slots) /\ Len(journal') = n
        /\ \A i \in 1 .. n : journal'[i] = journal[i]
    BY <1>1, <1>4, <1>5, <1>7, CutBack
  <1>9. /\ Run(journal', s, n, last)
        /\ Newer(journal', s, n, last) = Newer(journal, s, n, last)
    BY <1>2, <1>4, <1>8, RunFrame
  <1>10. RunInv'
    BY <1>1, <1>4, <1>5, <1>6, <1>9 DEF RunInv
  <1>11. state' = p \o Newer(journal, s, n, last)
    BY <1>1, <1>5 DEF Recovered
  <1>12. StateInv'
    BY Zenon, <1>1, <1>4, <1>5, <1>6, <1>9, <1>11 DEF StateInv
  <1>13. Newer(journal, s, n, last) \in Seq(Payloads)
    BY <1>2, <1>4, NewerType
  <1>14. TypeOK'
    <2>1. state' \in Seq(Payloads) /\ acked' = state'
      BY <1>1, <1>4, <1>11, <1>13
    <2>2. MustRevalidate \in BOOLEAN
      BY DEF MustRevalidate
    <2> QED
      BY <1>1, <1>3, <1>4, <1>5, <1>6, <1>8, <2>1, <2>2 DEF TypeOK
  <1>15. TailInv' /\ HandleInv' /\ CompactInv'
    BY <1>1, <1>3, <1>5, <1>8 DEF TailInv, HandleInv, CompactInv, Clean
  <1> QED
    BY <1>1, <1>3, <1>10, <1>12, <1>14, <1>15 DEF StoreInv, OpenInv

LEMMA CrashStep == ASSUME StoreInv, Crash PROVE StoreInv'
  <1>1. /\ opened /\ opened' = FALSE /\ pc' = "idle" /\ journal_degraded' = FALSE
        /\ snapshot_sequence' = 0 /\ last_sequence' = 0 /\ journal_bytes' = 0
        /\ position' = 0 /\ revalidation_required' = FALSE /\ state' = << >>
        /\ next' = (IF pc \in {"header", "payload"} THEN next + 1 ELSE next)
        /\ journal' = journal /\ primary' = primary /\ previous' = previous
        /\ acked' = acked /\ faults' = faults /\ crashes' = crashes + 1
    BY DEF Crash, disk
  <1>2. Snapshot' = Snapshot /\ Understood' = Understood
    BY <1>1, SnapshotFrame
  <1>3. TypeOK'
    <2>1. next' \in 1 .. MaxAppends + 1
      <3>1. pc \in {"header", "payload"} => next \in Payloads
        BY <1>1, OpenFacts DEF HandleInv
      <3>2. next \in 1 .. MaxAppends + 1
        BY DEF StoreInv, TypeOK
      <3> QED
        BY <1>1, <3>1, <3>2, NextType
    <2>2. state' \in Seq(Payloads) /\ crashes' \in Nat
      BY <1>1 DEF StoreInv, TypeOK
    <2> QED
      BY <1>1, <2>1, <2>2 DEF StoreInv, TypeOK
  <1>4. \E n, last \in Nat :
           /\ Run(journal, Snapshot.sequence, n, last)
           /\ Clean(journal, n) \/ TornAfter(journal, n)
    <2>1. CASE Clean(journal, journal_bytes) \/ TornAfter(journal, journal_bytes)
      BY <1>1, <2>1, OpenFacts
    <2>2. CASE RecordAfter(journal, journal_bytes, last_sequence)
      <3>1. Run(journal, Snapshot.sequence, journal_bytes + 1, last_sequence + 1)
        BY <1>1, <2>2, OpenFacts, RunExtended
      <3>2. Clean(journal, journal_bytes + 1)
        BY <2>2 DEF RecordAfter, Clean
      <3>3. journal_bytes + 1 \in Nat /\ last_sequence + 1 \in Nat
        BY OpenFacts, <1>1
      <3> QED
        BY <3>1, <3>2, <3>3
    <2> QED
      BY <1>1, <2>1, <2>2, OpenFacts DEF TailInv
  <1>5. ClosedInv'
    BY <1>1, <1>2, <1>4 DEF ClosedInv
  <1> QED
    BY <1>1, <1>3, <1>5 DEF StoreInv

LEMMA DamageStep == ASSUME StoreInv, Damage PROVE StoreInv'
  <1>1. /\ ~opened /\ Readable(primary) /\ "damage" \in FaultKinds /\ primary' = Damaged
        /\ journal' = journal /\ previous' = previous
        /\ opened' = opened /\ journal_degraded' = journal_degraded
        /\ snapshot_sequence' = snapshot_sequence
        /\ last_sequence' = last_sequence /\ journal_bytes' = journal_bytes
        /\ position' = position /\ revalidation_required' = revalidation_required
        /\ state' = state /\ next' = next /\ acked' = acked /\ pc' = pc
        /\ crashes' = crashes /\ faults' = faults + 1
    BY DEF Damage, Fault, memory
  <1>2. PICK n \in Nat, last \in Nat :
            /\ Run(journal, Snapshot.sequence, n, last)
            /\ Clean(journal, n) \/ TornAfter(journal, n)
    BY <1>1 DEF StoreInv, ClosedInv
  <1>3. TypeOK'
    BY <1>1 DEF StoreInv, TypeOK
  <1>4. Run(journal, Snapshot'.sequence, n, last)
    <2>1. Snapshot'.sequence \in Nat /\ Snapshot'.sequence =< Snapshot.sequence
      <3>1. Snapshot = primary /\ primary \in Images
        BY <1>1 DEF Snapshot, Readable, StoreInv, TypeOK
      <3>2. CASE Readable(previous)
        <4>1. Snapshot' = previous /\ previous \in Images
          BY <1>1, <3>2 DEF Snapshot, Readable, StoreInv, TypeOK
        <4> QED
          BY <1>1, <3>1, <3>2, <4>1 DEF StoreInv, Images
      <3>3. CASE ~Readable(previous)
        <4>1. Snapshot'.sequence = 0
          BY <1>1, <3>3 DEF Snapshot, Readable
        <4> QED
          BY <3>1, <4>1 DEF Images
      <3> QED
        BY <3>2, <3>3
    <2>2. Snapshot.sequence \in Nat
      BY SnapshotType DEF StoreInv, Images
    <2> QED
      BY <1>2, <2>1, <2>2 DEF Run
  <1>5. ClosedInv'
    BY <1>1, <1>2, <1>4 DEF ClosedInv, StoreInv
  <1> QED
    BY <1>1, <1>3, <1>5 DEF StoreInv, Readable

LEMMA StoreInvInit == Init => StoreInv
  <1> SUFFICES ASSUME Init PROVE StoreInv
    OBVIOUS
  <1>1. Snapshot = [sequence |-> 0, payload |-> << >>]
    BY DEF Init, Snapshot, Readable
  <1>2. Run(journal, Snapshot.sequence, 0, 0) /\ Clean(journal, 0)
    BY <1>1 DEF Init, Run, Clean
  <1>3. TypeOK
    <2>1. 1 \in 1 .. MaxAppends + 1
      BY StoreAssumption
    <2>2. << >> \in Seq(Slots) /\ << >> \in Seq(Payloads)
      OBVIOUS
    <2> QED
      BY <2>1, <2>2 DEF Init, TypeOK
  <1> QED
    BY <1>2, <1>3, StoreAssumption DEF Init, StoreInv, ClosedInv, Readable

LEMMA StoreInvNext == NoStaleLength /\ StoreInv /\ [Next]_vars => StoreInv'
  <1> SUFFICES ASSUME NoStaleLength, StoreInv, [Next]_vars PROVE StoreInv'
    OBVIOUS
  <1>1. pc # "idle" => opened
    BY DEF StoreInv, ClosedInv
  <1>2. CASE AppendHeader
    BY <1>2, HeaderStep
  <1>3. CASE AppendPayload
    <2>1. pc = "header"
      BY <1>3 DEF AppendPayload
    <2> QED
      BY <1>1, <1>3, <2>1, PayloadStep
  <1>4. CASE AppendFlush
    <2>1. pc = "payload"
      BY <1>4 DEF AppendFlush
    <2> QED
      BY <1>1, <1>4, <2>1, FlushStep
  <1>5. CASE AppendFail \/ AppendDegrade
    <2>1. pc \in {"header", "payload"}
      BY <1>5 DEF AppendFail, AppendDegrade
    <2> QED
      BY <1>1, <1>5, <2>1, FailStep
  <1>6. CASE CompactBackup
    BY <1>6, BackupStep
  <1>7. CASE CompactInstall
    <2>1. pc = "backup"
      BY <1>7 DEF CompactInstall
    <2> QED
      BY <1>1, <1>7, <2>1, InstallStep
  <1>8. CASE CompactReplaceFail \/ CompactTruncateFail
    <2>1. pc \in {"backup", "installed"}
      BY <1>8 DEF CompactReplaceFail, CompactTruncateFail
    <2> QED
      BY <1>1, <1>8, <2>1, StoppedStep
  <1>9. CASE CompactTruncate
    <2>1. pc = "installed"
      BY <1>9 DEF CompactTruncate
    <2> QED
      BY <1>1, <1>9, <2>1, TruncateStep
  <1>10. CASE Open
    BY <1>10, OpenStep
  <1>11. CASE Crash
    BY <1>11, CrashStep
  <1>12. CASE Damage
    BY <1>12, DamageStep
  <1>13. CASE UNCHANGED vars
    <2>1. Snapshot' = Snapshot /\ Understood' = Understood
      BY <1>13, SnapshotFrame DEF vars, disk
    <2>2. RunInv' = RunInv /\ StateInv' = StateInv /\ ClosedInv' = ClosedInv
      BY <1>13, <2>1 DEF vars, disk, memory, RunInv, StateInv, ClosedInv
    <2>3. TailInv' = TailInv /\ HandleInv' = HandleInv /\ CompactInv' = CompactInv
      BY <1>13 DEF vars, disk, memory, TailInv, HandleInv, CompactInv, Image
    <2>4. TypeOK' = TypeOK
      BY <1>13 DEF vars, disk, memory, TypeOK
    <2> QED
      BY <1>13, <2>2, <2>3, <2>4 DEF vars, disk, memory, StoreInv, OpenInv, Readable
  <1> QED
    BY <1>2, <1>3, <1>4, <1>5, <1>6, <1>7, <1>8, <1>9, <1>10, <1>11, <1>12, <1>13 DEF Next

----------------------------------------------------------------------------
(***************************************************************************)
(* Theorems.                                                                *)
(***************************************************************************)
\* The journal always is a run that continues the snapshot, whatever append(),
\* compact() or open() was doing when it failed or the process died.
THEOREM StoreInvariant == NoStaleLength => (Spec => []StoreInv)
  <1> SUFFICES ASSUME NoStaleLength PROVE Spec => []StoreInv
    OBVIOUS
  <1>1. StoreInv /\ [Next]_vars => StoreInv'
    BY StoreInvNext
  <1> QED
    BY StoreInvInit, <1>1, PTL DEF Spec

\* No snapshot is damaged either.
SoundFaults == NoStaleLength /\ "damage" \notin FaultKinds

LEMMA AlwaysUnderstood == ASSUME SoundFaults, StoreInv PROVE Understood
  BY DEF SoundFaults, StoreInv, Understood, Readable

\* A store that is open can be killed at once without losing anything: open() would
\* find the caller's state in the directory, or one record more.
THEOREM KilledLosesNothing == SoundFaults => (Spec => []DirectoryIsCurrent)
  <1> SUFFICES ASSUME SoundFaults PROVE Spec => []DirectoryIsCurrent
    OBVIOUS
  <1>1. StoreInv => DirectoryIsCurrent
    <2>1. StoreInv => TypeOK
      BY DEF StoreInv
    <2> QED
      BY <2>1, OpenRecovers, AlwaysUnderstood DEF DirectoryIsCurrent
  <1>2. Spec => []StoreInv
    BY StoreInvariant DEF SoundFaults
  <1> QED
    BY <1>1, <1>2, PTL

\* What the directory yields does not change when the directory does not.
LEMMA RecoveredFrame ==
    ASSUME journal' = journal, primary' = primary, previous' = previous
    PROVE  Recovered' = Recovered
  BY SnapshotFrame DEF Recovered, ReplayedRecords, ScannedLength, Believable, Replayed, Folded

LEMMA LogInit == Init => Log!Init
  <1> SUFFICES ASSUME Init PROVE Log!Init
    OBVIOUS
  <1>1. StoreInv /\ ~opened /\ TypeOK
    BY StoreInvInit DEF Init, StoreInv
  <1>2. Snapshot = [sequence |-> 0, payload |-> << >>]
    BY DEF Init, Snapshot, Readable
  <1>3. Run(journal, Snapshot.sequence, 0, 0) /\ Clean(journal, 0)
    BY <1>2 DEF Init, Run, Clean
  <1>4. ReplayedRecords = Newer(journal, 0, 0, 0)
    BY <1>1, <1>2, <1>3, Scanned
  <1>5. Recovered = << >> \o Newer(journal, 0, 0, 0)
    BY <1>2, <1>4 DEF Recovered
  <1>6. << >> = << >> \o Newer(journal, 0, 0, 0)
    <2>1. << >> \in Seq(Payloads) /\ 0 \in Nat
      OBVIOUS
    <2> QED
      BY <2>1, AllFolded
  <1> QED
    BY <1>1, <1>5, <1>6 DEF Log!Init, Init

LEMMA LogNext ==
    SoundFaults /\ StoreInv /\ [Next]_vars
        => [Log!Next]_<<IF opened THEN state ELSE Recovered, opened>>
  <1> SUFFICES ASSUME SoundFaults, StoreInv, [Next]_vars
               PROVE  [Log!Next]_<<IF opened THEN state ELSE Recovered, opened>>
    OBVIOUS
  <1>1. pc # "idle" => opened
    BY DEF StoreInv, ClosedInv
  <1>2. CASE /\ AppendHeader \/ AppendPayload \/ AppendFail \/ AppendDegrade
                \/ CompactBackup \/ CompactInstall \/ CompactReplaceFail
                \/ CompactTruncate \/ CompactTruncateFail
    <2>1. opened /\ opened' = opened /\ state' = state
      BY <1>1, <1>2 DEF AppendHeader, AppendPayload, AppendFail, AppendDegrade, CompactBackup,
         CompactInstall, CompactReplaceFail, CompactTruncate, CompactTruncateFail, memory
    <2> QED
      BY <2>1
  <1>3. CASE AppendFlush
    <2>1. pc = "payload" /\ state' = Append(state, next) /\ opened' = opened
      BY <1>3 DEF AppendFlush
    <2>2. opened /\ next \in Payloads
      BY <1>1, <2>1, OpenFacts DEF HandleInv
    <2>3. Log!Acknowledge
      BY <2>1, <2>2 DEF Log!Acknowledge
    <2> QED
      BY <2>3 DEF Log!Next
  <1>4. CASE Open
    <2>1. ~opened /\ opened' = TRUE /\ state' = Recovered
      BY <1>4 DEF Open
    <2>2. Log!Recover
      BY <2>1 DEF Log!Recover
    <2> QED
      BY <2>2 DEF Log!Next
  <1>5. CASE Crash
    <2>1. /\ opened /\ opened' = FALSE
          /\ journal' = journal /\ primary' = primary /\ previous' = previous
      BY <1>5 DEF Crash, disk
    <2>2. Recovered' = Recovered
      BY <2>1, RecoveredFrame
    <2>3. Recovered = state \/ \E v \in Payloads : Recovered = Append(state, v)
      BY <2>1, OpenRecovers, AlwaysUnderstood
    <2>4. Log!Crash
      BY <2>1, <2>2, <2>3 DEF Log!Crash
    <2> QED
      BY <2>4 DEF Log!Next
  <1>6. CASE Damage
    BY <1>6 DEF Damage, Fault, SoundFaults
  <1>7. CASE UNCHANGED vars
    <2>1. /\ opened' = opened /\ state' = state
          /\ journal' = journal /\ primary' = primary /\ previous' = previous
      BY <1>7 DEF vars, memory, disk
    <2>2. Recovered' = Recovered
      BY <2>1, RecoveredFrame
    <2> QED
      BY <2>1, <2>2
  <1> QED
    BY <1>2, <1>3, <1>4, <1>5, <1>6, <1>7 DEF Next

\* append(), compact(), open() and the death of the process implement the abstract
\* log: acknowledged records survive in order, at most one record that was not
\* acknowledged appears, and compaction changes nothing.
THEOREM StoreImplementsLog == SoundFaults => (Spec => ImplementsLog)
  <1> SUFFICES ASSUME SoundFaults PROVE Spec => ImplementsLog
    OBVIOUS
  <1>1. StoreInv /\ [Next]_vars => [Log!Next]_<<IF opened THEN state ELSE Recovered, opened>>
    BY LogNext
  <1>2. Spec => []StoreInv
    BY StoreInvariant DEF SoundFaults
  <1> QED
    BY LogInit, <1>1, <1>2, PTL DEF Spec, ImplementsLog, Log!Spec

----------------------------------------------------------------------------
\* While the store is open the caller has what was acknowledged; while it is not, an
\* installed snapshot that decodes leads back to it.
AckedInv ==
    /\ opened => state = acked
    /\ ~opened /\ Readable(primary) =>
           Recovered = acked \/ \E v \in Payloads : Recovered = Append(acked, v)

LEMMA AckedInit == Init => AckedInv
  BY DEF Init, AckedInv, Readable

LEMMA AckedNext == StoreInv /\ AckedInv /\ [Next]_vars => AckedInv'
  <1> SUFFICES ASSUME StoreInv, AckedInv, [Next]_vars PROVE AckedInv'
    OBVIOUS
  <1>1. pc # "idle" => opened
    BY DEF StoreInv, ClosedInv
  <1>2. CASE /\ AppendHeader \/ AppendPayload \/ AppendFail \/ AppendDegrade
                \/ CompactBackup \/ CompactInstall \/ CompactReplaceFail
                \/ CompactTruncate \/ CompactTruncateFail
    <2>1. opened /\ opened' = opened /\ state' = state /\ acked' = acked
      BY <1>1, <1>2 DEF AppendHeader, AppendPayload, AppendFail, AppendDegrade, CompactBackup,
         CompactInstall, CompactReplaceFail, CompactTruncate, CompactTruncateFail, memory
    <2> QED
      BY <2>1 DEF AckedInv
  <1>3. CASE AppendFlush
    <2>1. pc = "payload" /\ opened' = opened
          /\ state' = Append(state, next) /\ acked' = Append(acked, next)
      BY <1>3 DEF AppendFlush
    <2> QED
      BY <1>1, <2>1 DEF AckedInv
  <1>4. CASE Open
    <2>1. opened' /\ state' = Recovered /\ acked' = Recovered
      BY <1>4 DEF Open
    <2> QED
      BY <2>1 DEF AckedInv
  <1>5. CASE Crash
    <2>1. /\ opened /\ opened' = FALSE /\ acked' = acked
          /\ journal' = journal /\ primary' = primary /\ previous' = previous
      BY <1>5 DEF Crash, disk
    <2>2. Recovered' = Recovered
      BY <2>1, RecoveredFrame
    <2>3. ASSUME Readable(primary)
          PROVE  Recovered = state \/ \E v \in Payloads : Recovered = Append(state, v)
      <3>1. Understood
        BY <2>3 DEF Understood
      <3> QED
        BY <2>1, <3>1, OpenRecovers
    <2> QED
      BY <2>1, <2>2, <2>3 DEF AckedInv, Readable
  <1>6. CASE Damage
    <2>1. ~opened /\ opened' = opened /\ primary' = Damaged
      BY <1>6 DEF Damage, memory
    <2> QED
      BY <2>1 DEF AckedInv, Readable
  <1>7. CASE UNCHANGED vars
    <2>1. /\ opened' = opened /\ state' = state /\ acked' = acked
          /\ journal' = journal /\ primary' = primary /\ previous' = previous
      BY <1>7 DEF vars, memory, disk
    <2>2. Recovered' = Recovered
      BY <2>1, RecoveredFrame
    <2> QED
      BY <2>1, <2>2 DEF AckedInv, Readable
  <1> QED
    BY <1>2, <1>3, <1>4, <1>5, <1>6, <1>7 DEF Next

\* open() recovers what was acknowledged, and possibly one record that was not, or
\* reports that the state must be revalidated: also when snapshots stop decoding, any
\* number of times and between any two processes.
THEOREM LossIsAlwaysReported == NoStaleLength => (Spec => LossIsReported)
  <1> SUFFICES ASSUME NoStaleLength PROVE Spec => LossIsReported
    OBVIOUS
  <1> DEFINE Reported ==
          ~opened /\ opened' =>
              \/ state' = acked
              \/ \E v \in Payloads : state' = Append(acked, v)
              \/ revalidation_required'
  <1>1. StoreInv /\ AckedInv /\ [Next]_vars => [Reported]_vars
    <2> SUFFICES ASSUME StoreInv, AckedInv, [Next]_vars, ~opened, opened'
                 PROVE  \/ state' = acked
                        \/ \E v \in Payloads : state' = Append(acked, v)
                        \/ revalidation_required'
      OBVIOUS
    <2>1. Open
      <3>1. pc = "idle"
        BY DEF StoreInv, ClosedInv
      <3> QED
        BY <3>1 DEF Next, AppendHeader, AppendPayload, AppendFlush, AppendFail, AppendDegrade,
           CompactBackup, CompactInstall, CompactReplaceFail, CompactTruncate,
           CompactTruncateFail, Crash, Damage, vars, memory
    <2>2. state' = Recovered /\ revalidation_required' = MustRevalidate
      BY <2>1 DEF Open
    <2> QED
      BY <2>2 DEF AckedInv, MustRevalidate
  <1>2. Spec => []StoreInv
    BY StoreInvariant
  <1>3. Spec => []AckedInv
    BY AckedInit, AckedNext, <1>2, PTL DEF Spec
  <1> QED
    BY <1>1, <1>2, <1>3, PTL DEF Spec, LossIsReported

=============================================================================
