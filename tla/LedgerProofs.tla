---------------------------- MODULE LedgerProofs ----------------------------
(***************************************************************************)
(* Proofs about the completion ledger, for all partitions, generations,     *)
(* consumers, claims and limits.                                            *)
(***************************************************************************)
EXTENDS Ledger, FiniteSetTheorems, SequenceTheorems, TLAPS

(***************************************************************************)
(* Arithmetic and finiteness.                                               *)
(***************************************************************************)

\* The consumers listed by a commit record are finitely many, fewer than 2^64.
LEMMA ConsumerSets ==
    ASSUME NEW S \in SUBSET Consumers
    PROVE  /\ IsFiniteSet(S)
           /\ Cardinality(S) \in Nat
           /\ Cardinality(S) < Word
  <1>1. IsFiniteSet(S) /\ Cardinality(S) =< Cardinality(Consumers)
    BY FS_Subset, LedgerAssumption
  <1>2. Cardinality(S) \in Nat /\ Cardinality(Consumers) \in Nat
    BY <1>1, FS_CardinalityType, LedgerAssumption
  <1> QED
    BY <1>1, <1>2, LedgerAssumption

\* Unsigned counters stay natural numbers.
LEMMA Unsigned ==
    ASSUME NEW a \in Nat, NEW b \in Nat
    PROVE  /\ Plus(a, b) \in Nat
           /\ b < Word => Minus(a, b) \in Nat
           /\ Saturating(a, b) \in Nat
  BY LedgerAssumption DEF Plus, Minus, Saturating

\* Arithmetic modulo 2^64 on a counter and what is to be added back to it.
LEMMA TakeOff ==
    ASSUME NEW a \in Nat, NEW o \in Nat, NEW d \in Nat, a < Word, o < Word,
           d =< Plus(a, o)
    PROVE  Minus(a, d) < Word /\ Plus(Minus(a, d), o) = Plus(a, o) - d
  BY LedgerAssumption DEF Plus, Minus

LEMMA AddOne ==
    ASSUME NEW a \in Nat, NEW o \in Nat, a < Word, o < Word, Plus(a, o) + 1 < Word
    PROVE  Plus(a, 1) < Word /\ Plus(Plus(a, 1), o) = Plus(a, o) + 1
  BY LedgerAssumption DEF Plus

LEMMA Overdraw ==
    ASSUME NEW a \in Nat, NEW o \in Nat, NEW d \in Nat, a < Word, o < Word, d < Word
    PROVE  /\ Minus(a, d) < Word /\ Plus(o, d) < Word
           /\ Plus(Minus(a, d), Plus(o, d)) = Plus(a, o)
  BY LedgerAssumption DEF Plus, Minus

\* The edges of a shuffle, and every set of them, are finite.
LEMMA EdgesFinite == IsFiniteSet(Edges)
  <1>1. IsFiniteSet(Generations \X Consumers)
    BY FS_Product, LedgerAssumption
  <1>2. IsFiniteSet(Partitions \X (Generations \X Consumers))
    BY <1>1, FS_Product, LedgerAssumption
  <1> DEFINE f == [k \in Partitions \X (Generations \X Consumers) |->
                      <<k[1], k[2][1], k[2][2]>>]
  <1>3. f \in Surjection(Partitions \X (Generations \X Consumers), Edges)
    <2>1. f \in [Partitions \X (Generations \X Consumers) -> Edges]
      BY DEF Edges
    <2>2. ASSUME NEW e \in Edges
          PROVE  \E k \in Partitions \X (Generations \X Consumers) : f[k] = e
      <3>1. <<e[1], <<e[2], e[3]>>>> \in Partitions \X (Generations \X Consumers)
        BY DEF Edges
      <3>2. f[<<e[1], <<e[2], e[3]>>>>] = e
        BY <3>1 DEF Edges
      <3> QED
        BY <3>1, <3>2
    <2> QED
      BY Zenon, <2>1, <2>2 DEF Surjection
  <1> QED
    BY <1>2, <1>3, FS_Surjection

\* Where the record of a partition generation is kept.
LEMMA KeyOfPair ==
    \A p \in Partitions, g \in Generations : partition_key(p, g) \in Keys
  BY DEF Keys

\* The numbers a step takes off a counter of completed edges.
LEMMA RemovedEdges ==
    ASSUME TypeOK, NEW p \in Partitions
    PROVE  /\ RetiredEdges(p) \in Nat /\ RetiredEdges(p) < Word
           /\ PurgedEdges(p) \in Nat /\ PurgedEdges(p) < Word
           /\ RetiredRecords(p) \in {0, 1}
           /\ committed_partitions - RetiredRecords(p) \in Nat
  <1>1. ASSUME NEW g, HasRecord(p, g)
        PROVE  Consumed(p, g) \in SUBSET Consumers
    BY <1>1, KeyOfPair DEF TypeOK, HasRecord, Consumed
  <1>2. RetiredEdges(p) \in Nat /\ RetiredEdges(p) < Word
    BY <1>1, ConsumerSets, LedgerAssumption DEF RetiredEdges
  <1>3. PurgedEdges(p) \in Nat /\ PurgedEdges(p) < Word
    BY <1>1, ConsumerSets, LedgerAssumption DEF PurgedEdges
  <1> QED
    BY <1>2, <1>3 DEF RetiredRecords, TypeOK

----------------------------------------------------------------------------
(***************************************************************************)
(* Type correctness.                                                        *)
(***************************************************************************)
LEMMA TypeInit == Init => TypeOK
  <1> SUFFICES ASSUME Init PROVE TypeOK
    OBVIOUS
  <1>1. << >> \in Seq(Generations)
    OBVIOUS
  <1>2. /\ partitions \in [Keys -> CommitRecords \cup {NoRecord}]
        /\ completed_consumers \in [Keys -> SUBSET Consumers]
        /\ retained_keys \in [Partitions -> Seq(Generations)]
    BY <1>1 DEF Init
  <1>3. failures \in [Edges -> Outcomes \cup {"none"}]
    BY DEF Init
  <1> QED
    BY Zenon, <1>2, <1>3 DEF Init, TypeOK

\* RetireFailures is shared by commit and retire_generation.
LEMMA TypeRetireFailures ==
    ASSUME TypeOK, NEW p \in Partitions, RetireFailures(p)
    PROVE  /\ permanent_failures' \in Nat
           /\ current_permanent_failures' \in [Partitions -> Nat]
           /\ failed_partitions' \subseteq Partitions
           /\ failures' = failures /\ failure_records' = failure_records
           /\ retriable_failures' = retriable_failures
           /\ authority_refusals' = authority_refusals
  <1>1. Saturating(permanent_failures, current_permanent_failures[p]) \in Nat
    BY Zenon, Unsigned DEF TypeOK
  <1> QED
    BY <1>1 DEF TypeOK, RetireFailures, FailuresReset

LEMMA TypeCommitFirst ==
    ASSUME TypeOK, NEW p \in Partitions, NEW g \in Generations, NEW c \in Consumers,
           NEW claim \in Claims, CommitFirst(p, g, c, claim)
    PROVE  TypeOK'
  <1>1. completed_edges' \in Nat
    <2> DEFINE edges == IF g > latest_generation[p]
                        THEN Minus(completed_edges, RetiredEdges(p)) ELSE completed_edges
    <2>1. edges \in Nat
      BY Zenon, RemovedEdges, Unsigned DEF TypeOK
    <2> HIDE DEF edges
    <2>2. Plus(edges, 1) \in Nat
      BY <2>1, Unsigned
    <2>3. Minus(Plus(edges, 1), PurgedEdges(p)) \in Nat
      BY <2>2, RemovedEdges, Unsigned
    <2> QED
      BY <2>3 DEF CommitFirst, edges
  <1>2. committed_partitions' \in Nat
    <2> DEFINE n == committed_partitions - RetiredRecords(p)
    <2>1. n \in Nat
      BY RemovedEdges
    <2> HIDE DEF n
    <2>2. committed_partitions' = (IF g > latest_generation[p] THEN n
                                   ELSE committed_partitions) + 1
      BY DEF CommitFirst, n
    <2> QED
      BY <2>1, <2>2 DEF TypeOK
  <1>3. bytes_committed' \in Nat
    <2>1. bytes_committed' = bytes_committed + BytesOf[claim]
      BY Zenon DEF CommitFirst
    <2> QED
      BY <2>1, LedgerAssumption DEF TypeOK
  <1>4. retained_keys' \in [Partitions -> Seq(Generations)]
    <2> retained_keys[p] \in Seq(Generations)
      BY DEF TypeOK
    <2>1. /\ Append(retained_keys[p], g) \in Seq(Generations)
          /\ Append(retained_keys[p], g) # << >>
      BY AppendProperties, ZenonT(20)
    <2>2. Tail(Append(retained_keys[p], g)) \in Seq(Generations)
      BY <2>1, HeadTailProperties
    <2> QED
      BY Zenon, <2>1, <2>2 DEF CommitFirst, TypeOK
  <1>5. /\ partitions' \in [Keys -> CommitRecords \cup {NoRecord}]
        /\ completed_consumers' \in [Keys -> SUBSET Consumers]
    <2>1. /\ WithoutOldest(partitions, p, NoRecord) \in [Keys -> CommitRecords \cup {NoRecord}]
          /\ WithoutOldest(completed_consumers, p, {}) \in [Keys -> SUBSET Consumers]
      BY Zenon DEF WithoutOldest, TypeOK
    <2>2. [anchor |-> <<p, g>>, claim |-> claim] \in CommitRecords
      BY DEF CommitRecords
    <2>3. /\ partitions' = [WithoutOldest(partitions, p, NoRecord) EXCEPT
                 ![partition_key(p, g)] = [anchor |-> <<p, g>>, claim |-> claim]]
          /\ completed_consumers' = [WithoutOldest(completed_consumers, p, {}) EXCEPT
                 ![partition_key(p, g)] = {c}]
      BY Zenon DEF CommitFirst
    <2> HIDE DEF CommitRecords
    <2> QED
      BY Zenon, <2>1, <2>2, <2>3
  <1>6. /\ permanent_failures' \in Nat
        /\ current_permanent_failures' \in [Partitions -> Nat]
        /\ failed_partitions' \subseteq Partitions
        /\ failures' = failures /\ failure_records' = failure_records
        /\ retriable_failures' = retriable_failures
        /\ authority_refusals' = authority_refusals
    BY Zenon, TypeRetireFailures DEF CommitFirst, TypeOK
  <1>7. /\ latest_generation' \in [Partitions -> Generations \cup {0}]
        /\ accounted' \subseteq Partitions \X Generations \X Claims
        /\ restarts' \in Nat /\ duplicate_commits' \in Nat
    BY SMTT(30) DEF CommitFirst, TypeOK
  <1>8. overdrawn' \in Nat
    BY Zenon, RemovedEdges, Unsigned DEF CommitFirst, TypeOK
  <1> QED
    BY Zenon, <1>1, <1>2, <1>3, <1>4, <1>5, <1>6, <1>7, <1>8 DEF TypeOK

LEMMA TypeRecordFailure ==
    ASSUME TypeOK, NEW e \in Edges, NEW outcome \in Outcomes, RecordFailure(e, outcome)
    PROVE  TypeOK'
  <1>1. e[1] \in Partitions
    BY DEF Edges
  <1>2. Saturating(retriable_failures, 1) \in Nat
    BY Unsigned DEF TypeOK
  <1> QED
    BY <1>1, <1>2 DEF RecordFailure, TypeOK, commitVars, historyVars

LEMMA TypeReload ==
    ASSUME TypeOK, Reload
    PROVE  TypeOK'
  <1>1. ASSUME NEW S \in SUBSET Edges
        PROVE  Cardinality(S) \in Nat
    BY EdgesFinite, FS_Subset, FS_CardinalityType
  <1>2. Cardinality(CurrentEdges) \in Nat
    <2>1. IsFiniteSet(Partitions \X Consumers)
      BY FS_Product, LedgerAssumption
    <2> QED
      BY <2>1, FS_Subset, FS_CardinalityType DEF CurrentEdges
  <1>3. Cardinality(CurrentRecords) \in Nat
    BY FS_Subset, FS_CardinalityType, LedgerAssumption DEF CurrentRecords
  <1>4. /\ Cardinality(CurrentPermanent) \in Nat
        /\ \A p \in Partitions : Cardinality(PermanentOf(p)) \in Nat
        /\ Cardinality({e \in Edges : failures[e] # "none"}) \in Nat
    BY <1>1 DEF CurrentPermanent, PermanentOf
  <1>5. retained_keys' \in [Partitions -> Seq(Generations)]
    <2>1. << >> \in Seq(Generations)
      OBVIOUS
    <2> QED
      BY <2>1 DEF Reload
  <1>6. current_permanent_failures' \in [Partitions -> Nat]
    BY <1>4 DEF Reload
  <1>7. failed_partitions' \subseteq Partitions
    BY DEF Reload, UnservedPartitions
  <1>8. /\ completed_edges' \in Nat /\ committed_partitions' \in Nat
        /\ permanent_failures' \in Nat /\ failure_records' \in Nat
    BY <1>2, <1>3, <1>4 DEF Reload
  <1>9. restarts' \in Nat
    BY DEF Reload, TypeOK
  <1>10. /\ overdrawn' \in Nat
         /\ UNCHANGED <<latest_generation, partitions, completed_consumers, bytes_committed,
                        duplicate_commits, failures, retriable_failures,
                        authority_refusals, accounted>>
    BY Zenon DEF Reload
  <1> QED
    BY <1>5, <1>6, <1>7, <1>8, <1>9, <1>10 DEF TypeOK

LEMMA TypeNext ==
    ASSUME TypeOK, [Next]_vars
    PROVE  TypeOK'
  <1>1. ASSUME NEW p \in Partitions, NEW g \in Generations, NEW c \in Consumers,
               NEW claim \in Claims, CommitNext(p, g, c, claim)
        PROVE  TypeOK'
    <2>1. Plus(completed_edges, 1) \in Nat
      BY Zenon, Unsigned DEF TypeOK
    <2> QED
      BY <1>1, <2>1, KeyOfPair DEF CommitNext, WithConsumer, TypeOK, failureVars, historyVars
  <1>2. ASSUME NEW p \in Partitions, NEW g \in Generations, NEW c \in Consumers,
               NEW claim \in Claims, CommitDuplicate(p, g, c, claim)
        PROVE  TypeOK'
    BY <1>2 DEF CommitDuplicate, TypeOK, failureVars, historyVars
  <1>3. ASSUME NEW p \in Partitions, NEW g \in Generations, RetireGeneration(p, g)
        PROVE  TypeOK'
    <2>1. RetireFailures(p)
      BY <1>3 DEF RetireGeneration
    <2>2. committed_partitions' \in Nat
      BY <1>3, RemovedEdges DEF RetireGeneration
    <2>3. completed_edges' \in Nat
      BY Zenon, <1>3, RemovedEdges, Unsigned DEF RetireGeneration, TypeOK
    <2> QED
      BY Zenon, <1>3, <2>1, <2>2, <2>3, TypeRetireFailures DEF RetireGeneration, TypeOK, historyVars
  <1>4. CASE UNCHANGED vars
    BY <1>4 DEF TypeOK, vars, commitVars, failureVars, historyVars
  <1> QED
    BY <1>1, <1>2, <1>3, <1>4, TypeCommitFirst, TypeRecordFailure, TypeReload DEF Next

\* The members of CompletionLedger keep their types under every call.
THEOREM TypeCorrect == Spec => []TypeOK
  BY TypeInit, TypeNext, PTL DEF Spec

----------------------------------------------------------------------------
(***************************************************************************)
(* Records, retention and the watermark.  What follows rests on keys that   *)
(* tell the partition generations apart.                                    *)
(***************************************************************************)
KeysDistinct ==
    \A p, q \in Partitions, g, h \in Generations :
        partition_key(p, g) = partition_key(q, h) => p = q /\ g = h

\* Generations below 2^16 leave the partition bits of the key alone.
LEMMA SmallKeys == SmallGenerations => KeysDistinct
  <1> SUFFICES ASSUME SmallGenerations, NEW p \in Partitions, NEW q \in Partitions,
                      NEW g \in Generations, NEW h \in Generations,
                      partition_key(p, g) = partition_key(q, h)
               PROVE  p = q /\ g = h
    BY DEF KeysDistinct
  <1>1. /\ p \in Nat /\ q \in Nat /\ g \in Nat /\ h \in Nat /\ KeySpan \in Nat \ {0}
        /\ g < KeySpan /\ h < KeySpan
    BY LedgerAssumption DEF SmallGenerations
  <1>2. \A n \in Nat : n < KeySpan => n \div KeySpan = 0 /\ n % KeySpan = n
    BY <1>1
  <1>3. p * KeySpan + g = q * KeySpan + h
    BY <1>1, <1>2 DEF partition_key, Xor
  <1>4. \A i, j \in Nat : i < j => i * KeySpan + KeySpan =< j * KeySpan
    <2> SUFFICES ASSUME NEW i \in Nat, NEW j \in Nat, i < j
                 PROVE  i * KeySpan + KeySpan =< j * KeySpan
      OBVIOUS
    <2>1. PICK d \in Nat : j = i + 1 + d
      <3>1. j - i - 1 \in Nat /\ j = i + 1 + (j - i - 1)
        OBVIOUS
      <3> QED
        BY <3>1
    <2>2. j * KeySpan = i * KeySpan + KeySpan + d * KeySpan
      BY <1>1, <2>1
    <2>3. d * KeySpan \in Nat /\ i * KeySpan \in Nat
      BY <1>1
    <2> QED
      BY <1>1, <2>2, <2>3
  <1>5. p = q
    BY <1>1, <1>3, <1>4
  <1> QED
    BY <1>1, <1>3, <1>5

\* Generations are numbers, so that the watermark orders them.
LEMMA NaturalGenerations ==
    ASSUME TypeOK
    PROVE  /\ \A g \in Generations : g \in Nat
           /\ \A q \in Partitions : latest_generation[q] \in Nat
  <1>1. \A g \in Generations : g \in Nat
    BY LedgerAssumption
  <1>2. \A q \in Partitions : latest_generation[q] \in Generations \cup {0}
    BY DEF TypeOK
  <1> QED
    BY <1>1, <1>2

\* commit() of a first completion leaves the watermark at the generation of the
\* completion.
LEMMA CommitFirstWatermark ==
    ASSUME TypeOK, NEW p \in Partitions, NEW g \in Generations, NEW c \in Consumers,
           NEW claim \in Claims, CommitFirst(p, g, c, claim)
    PROVE  /\ latest_generation' = [latest_generation EXCEPT ![p] = g]
           /\ g >= latest_generation[p]
           /\ \A q \in Partitions :
                  /\ latest_generation'[q] = IF q = p THEN g ELSE latest_generation[q]
                  /\ latest_generation'[q] \in Nat
                  /\ latest_generation'[q] >= latest_generation[q]
  <1>1. ~(g < latest_generation[p])
    BY DEF CommitFirst, Superseded
  <1>2. latest_generation' = [latest_generation EXCEPT
            ![p] = IF g > latest_generation[p] THEN g ELSE latest_generation[p]]
    BY Zenon DEF CommitFirst
  <1>3. g \in Nat /\ \A q \in Partitions : latest_generation[q] \in Nat
    BY NaturalGenerations
  <1>4. latest_generation \in [Partitions -> Generations \cup {0}]
    BY DEF TypeOK
  <1>5. g >= latest_generation[p]
        /\ (IF g > latest_generation[p] THEN g ELSE latest_generation[p]) = g
    BY <1>1, <1>3
  <1>6. latest_generation' = [latest_generation EXCEPT ![p] = g]
    BY Zenon, <1>2, <1>5
  <1>7. \A q \in Partitions : latest_generation'[q] =
            IF q = p THEN g ELSE latest_generation[q]
    BY <1>4, <1>6
  <1> QED
    BY <1>3, <1>5, <1>6, <1>7

\* commit() leaves the records of the other partitions alone, for no key of theirs
\* is a key of this partition.
LEMMA CommitFirstElsewhere ==
    ASSUME KeysDistinct, TypeOK, NEW p \in Partitions, NEW g \in Generations,
           NEW c \in Consumers, NEW claim \in Claims, CommitFirst(p, g, c, claim)
    PROVE  /\ ~HasRecord(p, g)
           /\ \A q \in Partitions : q # p =>
                  /\ \A h \in Generations :
                         /\ partitions'[partition_key(q, h)] = partitions[partition_key(q, h)]
                         /\ Consumed(q, h)' = Consumed(q, h)
                  /\ retained_keys'[q] = retained_keys[q]
  <1>1. /\ ~HasRecord(p, g)
        /\ partitions' = [WithoutOldest(partitions, p, NoRecord) EXCEPT
               ![partition_key(p, g)] = [anchor |-> <<p, g>>, claim |-> claim]]
        /\ completed_consumers' = [WithoutOldest(completed_consumers, p, {}) EXCEPT
               ![partition_key(p, g)] = {c}]
        /\ retained_keys' = [retained_keys EXCEPT
               ![p] = IF AtRetention(p) THEN Tail(Append(retained_keys[p], g))
                                        ELSE Append(retained_keys[p], g)]
    BY Zenon DEF CommitFirst
  <1>2. AtRetention(p) => Head(retained_keys[p]) \in Generations
    <2>1. retained_keys[p] \in Seq(Generations)
      BY DEF TypeOK
    <2> QED
      BY <2>1, LedgerAssumption DEF AtRetention
  <1>3. ASSUME NEW q \in Partitions, q # p, NEW h \in Generations
        PROVE  /\ partitions'[partition_key(q, h)] = partitions[partition_key(q, h)]
               /\ Consumed(q, h)' = Consumed(q, h)
    <2>1. /\ partition_key(q, h) \in Keys
          /\ partition_key(q, h) # partition_key(p, g)
          /\ AtRetention(p) => partition_key(q, h) # partition_key(p, Head(retained_keys[p]))
      BY <1>2, <1>3, KeyOfPair DEF KeysDistinct
    <2>2. /\ WithoutOldest(partitions, p, NoRecord)[partition_key(q, h)] =
                 partitions[partition_key(q, h)]
          /\ WithoutOldest(completed_consumers, p, {})[partition_key(q, h)] =
                 completed_consumers[partition_key(q, h)]
          /\ DOMAIN WithoutOldest(partitions, p, NoRecord) = Keys
          /\ DOMAIN WithoutOldest(completed_consumers, p, {}) = Keys
      BY <2>1 DEF WithoutOldest, TypeOK
    <2> QED
      BY <1>1, <2>1, <2>2 DEF Consumed
  <1> QED
    BY Zenon, <1>1, <1>3 DEF TypeOK

\* The record that retention removes is another one than the record that
\* commit() inserts.
LEMMA PurgesAnother ==
    ASSUME TypeOK, AccountedIsCovered, NEW p \in Partitions, NEW g \in Generations,
           ~HasRecord(p, g), AtRetention(p)
    PROVE  /\ retained_keys[p] \in Seq(Generations)
           /\ retained_keys[p] # << >>
           /\ Len(retained_keys[p]) \in Nat \ {0}
           /\ Head(retained_keys[p]) = retained_keys[p][1]
           /\ Head(retained_keys[p]) \in Generations
           /\ HasRecord(p, Head(retained_keys[p]))
           /\ Head(retained_keys[p]) # g
  <1>1. retained_keys[p] \in Seq(Generations)
    BY DEF TypeOK
  <1>2. Len(retained_keys[p]) \in Nat \ {0}
    BY <1>1, LedgerAssumption DEF AtRetention
  <1>3. retained_keys[p] # << >>
    BY <1>2
  <1>4. Head(retained_keys[p]) = retained_keys[p][1]
    BY <1>1, <1>3
  <1>5. HasRecord(p, retained_keys[p][1])
    BY <1>2 DEF AccountedIsCovered
  <1>6. Head(retained_keys[p]) \in Generations
    BY <1>4, <1>5 DEF HasRecord
  <1> QED
    BY <1>1, <1>2, <1>3, <1>4, <1>5, <1>6

\* The records after commit() of a first completion: the purged record is gone,
\* the new one lists its consumer, and the others are as they were.
HoldsAfter(p, g) ==
    \A q \in Partitions, h \in Generations :
        HasRecord(q, h)' <=>
            \/ q = p /\ h = g
            \/ /\ HasRecord(q, h)
               /\ ~(q = p /\ AtRetention(p) /\ h = Head(retained_keys[p]))
KeptAfter(p, g, c) ==
    \A q \in Partitions, h \in Generations :
        /\ HasRecord(q, h) /\ HasRecord(q, h)' =>
               /\ partitions'[partition_key(q, h)] = partitions[partition_key(q, h)]
               /\ Consumed(q, h)' = Consumed(q, h)
        /\ Consumed(q, h)' \subseteq
               Consumed(q, h) \cup (IF q = p /\ h = g THEN {c} ELSE {})

LEMMA CommitFirstRecords ==
    ASSUME KeysDistinct, TypeOK, AccountedIsCovered, NEW p \in Partitions,
           NEW g \in Generations, NEW c \in Consumers, NEW claim \in Claims,
           CommitFirst(p, g, c, claim)
    PROVE  /\ partitions'[partition_key(p, g)] = [anchor |-> <<p, g>>, claim |-> claim]
           /\ Consumed(p, g)' = {c}
           /\ HoldsAfter(p, g)
           /\ KeptAfter(p, g, c)
  <1> DEFINE over == AtRetention(p)
             oldest == Head(retained_keys[p])
             new == [anchor |-> <<p, g>>, claim |-> claim]
  <1>1. ~HasRecord(p, g)
    BY DEF CommitFirst
  <1>2. over => oldest \in Generations /\ oldest # g
    BY <1>1, PurgesAnother
  <1>3. \A q \in Partitions, h \in Generations : q # p =>
            /\ partitions'[partition_key(q, h)] = partitions[partition_key(q, h)]
            /\ Consumed(q, h)' = Consumed(q, h)
    BY CommitFirstElsewhere
  <1>4. /\ partitions' = [WithoutOldest(partitions, p, NoRecord) EXCEPT
               ![partition_key(p, g)] = new]
        /\ completed_consumers' = [WithoutOldest(completed_consumers, p, {}) EXCEPT
               ![partition_key(p, g)] = {c}]
    BY Zenon DEF CommitFirst
  <1>5. new # NoRecord
    <2>1. new \in [anchor : Partitions \X Generations, claim : Claims]
      OBVIOUS
    <2> QED
      BY <2>1, NoRecordAssumption
  <1> HIDE DEF new
  <1>6. ASSUME NEW h \in Generations
        PROVE  /\ partitions'[partition_key(p, h)] =
                      IF h = g THEN new ELSE IF over /\ h = oldest THEN NoRecord
                      ELSE partitions[partition_key(p, h)]
               /\ Consumed(p, h)' =
                      IF h = g THEN {c} ELSE IF over /\ h = oldest THEN {}
                      ELSE Consumed(p, h)
    <2>1. /\ partition_key(p, h) \in Keys
          /\ partition_key(p, h) = partition_key(p, g) <=> h = g
          /\ over => (partition_key(p, h) = partition_key(p, oldest) <=> h = oldest)
      BY <1>2, KeyOfPair DEF KeysDistinct
    <2>2. /\ DOMAIN WithoutOldest(partitions, p, NoRecord) = Keys
          /\ DOMAIN WithoutOldest(completed_consumers, p, {}) = Keys
          /\ WithoutOldest(partitions, p, NoRecord)[partition_key(p, h)] =
                 IF over /\ h = oldest THEN NoRecord ELSE partitions[partition_key(p, h)]
          /\ WithoutOldest(completed_consumers, p, {})[partition_key(p, h)] =
                 IF over /\ h = oldest THEN {} ELSE completed_consumers[partition_key(p, h)]
      BY <2>1 DEF WithoutOldest, TypeOK
    <2> QED
      BY <1>4, <2>1, <2>2 DEF Consumed
  <1> HIDE DEF over, oldest
  <1>7. \A h \in Generations : HasRecord(p, h)' <=>
            h = g \/ (HasRecord(p, h) /\ ~(over /\ h = oldest))
    BY <1>5, <1>6 DEF HasRecord
  <1>8. \A q \in Partitions, h \in Generations : q # p => (HasRecord(q, h)' <=> HasRecord(q, h))
    BY <1>3 DEF HasRecord
  <1>9. \A h \in Generations : HasRecord(p, h) /\ HasRecord(p, h)' =>
            /\ partitions'[partition_key(p, h)] = partitions[partition_key(p, h)]
            /\ Consumed(p, h)' = Consumed(p, h)
    BY <1>1, <1>6, <1>7
  <1>10. ASSUME NEW q \in Partitions, NEW h \in Generations
         PROVE  Consumed(q, h)' \subseteq
                    Consumed(q, h) \cup (IF q = p /\ h = g THEN {c} ELSE {})
    BY <1>3, <1>6
  <1>11. ASSUME NEW q \in Partitions, NEW h \in Generations
         PROVE  /\ HasRecord(q, h)' <=>
                      \/ q = p /\ h = g
                      \/ HasRecord(q, h) /\ ~(q = p /\ over /\ h = oldest)
                /\ HasRecord(q, h) /\ HasRecord(q, h)' =>
                      /\ partitions'[partition_key(q, h)] = partitions[partition_key(q, h)]
                      /\ Consumed(q, h)' = Consumed(q, h)
    BY <1>3, <1>7, <1>8, <1>9
  <1>12. partitions'[partition_key(p, g)] = new /\ Consumed(p, g)' = {c}
    BY <1>6
  <1> QED
    BY Zenon, <1>10, <1>11, <1>12 DEF over, oldest, new, HoldsAfter, KeptAfter

\* The retention list after commit() of a first completion.
LEMMA CommitFirstRetains ==
    ASSUME KeysDistinct, TypeOK, AccountedIsCovered, NEW p \in Partitions, NEW g \in Generations,
           NEW c \in Consumers, NEW claim \in Claims, CommitFirst(p, g, c, claim)
    PROVE  \A i \in 1 .. Len(retained_keys'[p]) :
               /\ retained_keys'[p][i] \in Generations
               /\ partitions'[partition_key(p, retained_keys'[p][i])] # NoRecord
               /\ \A j \in 1 .. Len(retained_keys'[p]) :
                      retained_keys'[p][i] = retained_keys'[p][j] => i = j
  <1> DEFINE old == retained_keys[p]
             n == Len(old)
             new == retained_keys'[p]
             Recorded(h) == h \in Generations /\ partitions'[partition_key(p, h)] # NoRecord
  <1>1. old \in Seq(Generations) /\ n \in Nat
    BY DEF TypeOK
  <1>2. /\ Append(old, g) \in Seq(Generations)
        /\ Append(old, g) # << >>
        /\ Len(Append(old, g)) = n + 1
        /\ \A i \in 1 .. n : Append(old, g)[i] = old[i]
        /\ Append(old, g)[n + 1] = g
    BY <1>1, AppendProperties, ZenonT(20)
  <1>3. \A i \in 1 .. n :
            /\ old[i] \in Generations /\ old[i] # g
            /\ HasRecord(p, old[i])
            /\ \A j \in 1 .. n : old[i] = old[j] => i = j
    <2>1. ~HasRecord(p, g)
      BY Zenon DEF CommitFirst
    <2>2. \A i \in 1 .. n : /\ HasRecord(p, old[i])
                            /\ \A j \in 1 .. n : old[i] = old[j] => i = j
      BY Zenon DEF AccountedIsCovered
    <2>3. \A i \in 1 .. n : old[i] \in Generations
      BY Zenon, <2>2 DEF HasRecord
    <2> QED
      BY Zenon, <2>1, <2>2, <2>3
  <1>record. \A h \in Generations : HasRecord(p, h)' => Recorded(h)
    BY Zenon DEF HasRecord
  <1>first. Recorded(g)
    BY Zenon, <1>record, CommitFirstRecords DEF HoldsAfter
  <1>kept. \A h \in Generations :
            HasRecord(p, h) /\ ~(AtRetention(p) /\ h = Head(old)) => Recorded(h)
    BY Zenon, <1>record, CommitFirstRecords DEF HoldsAfter
  <1> HIDE DEF Recorded
  <1>4. CASE AtRetention(p)
    <2>1. n \in Nat \ {0} /\ Head(old) = old[1]
      BY Zenon, <1>4, PurgesAnother DEF CommitFirst
    <2>2. new = Tail(Append(old, g))
      BY Zenon, <1>4 DEF CommitFirst, TypeOK
    <2>3. Len(new) = n /\ \A i \in 1 .. n : new[i] = Append(old, g)[i + 1]
      <3> DEFINE longer == Append(old, g)
      <3>1. longer \in Seq(Generations) /\ longer # << >> /\ Len(longer) = n + 1
        BY <1>2
      <3> HIDE DEF longer
      <3>2. /\ Len(Tail(longer)) = Len(longer) - 1
            /\ \A i \in 1 .. Len(longer) - 1 : Tail(longer)[i] = longer[i + 1]
        BY <3>1, HeadTailProperties
      <3>3. Len(longer) - 1 = n
        BY <1>1, <3>1
      <3> QED
        BY Zenon, <2>2, <3>2, <3>3 DEF longer
    <2>4. \A i \in 1 .. n : new[i] = IF i = n THEN g ELSE old[i + 1]
      BY <1>1, <1>2, <2>3
    <2>5. \A i \in 1 .. n : Recorded(new[i])
      <3> SUFFICES ASSUME NEW i \in 1 .. n PROVE Recorded(new[i])
        OBVIOUS
      <3>1. CASE i = n
        BY <2>4, <3>1, <1>first
      <3>2. CASE i # n
        <4>1. i + 1 \in 1 .. n /\ 1 \in 1 .. n /\ i + 1 # 1
          BY <1>1, <3>2
        <4>2. /\ old[i + 1] \in Generations
              /\ HasRecord(p, old[i + 1])
              /\ old[i + 1] # Head(old)
          BY <1>3, <2>1, <4>1
        <4>3. Recorded(old[i + 1])
          BY <4>2, <1>kept
        <4> QED
          BY <2>4, <3>2, <4>3
      <3> QED
        BY <3>1, <3>2
    <2>6. \A i, j \in 1 .. n : new[i] = new[j] => i = j
      <3> SUFFICES ASSUME NEW i \in 1 .. n, NEW j \in 1 .. n, new[i] = new[j] PROVE i = j
        OBVIOUS
      <3> HIDE DEF old, new, n
      <3>1. \A k \in 1 .. n : k # n => k + 1 \in 1 .. n
        BY <1>1
      <3>2. (i = n) <=> (j = n)
        BY <1>3, <2>4, <3>1
      <3>3. i # n /\ j # n => i + 1 = j + 1
        BY <1>3, <2>4, <3>1
      <3> QED
        BY <3>2, <3>3, <1>1
    <2> QED
      BY SMTT(30), <2>3, <2>5, <2>6 DEF Recorded
  <1>5. CASE ~AtRetention(p)
    <2>1. new = Append(old, g)
      BY Zenon, <1>5 DEF CommitFirst, TypeOK
    <2>2. Len(new) = n + 1 /\ new[n + 1] = g /\ \A i \in 1 .. n : new[i] = old[i]
      BY <1>2, <2>1
    <2>3. \A i \in 1 .. n : Recorded(old[i])
      BY <1>3, <1>5, <1>kept
    <2> HIDE DEF old, new, n
    <2>5. \A i \in 1 .. n + 1 : i = n + 1 \/ i \in 1 .. n
      BY <1>1
    <2>6. \A i \in 1 .. n + 1 : Recorded(new[i])
      BY <1>first, <2>2, <2>3, <2>5
    <2>7. \A i, j \in 1 .. n + 1 : new[i] = new[j] => i = j
      BY SMTT(30), <1>3, <2>2, <2>5
    <2> QED
      BY <2>2, <2>6, <2>7 DEF new, Recorded
  <1> QED
    BY <1>4, <1>5

LEMMA CoveredCommitFirst ==
    ASSUME KeysDistinct, TypeOK, AccountedIsCovered, NEW p \in Partitions, NEW g \in Generations,
           NEW c \in Consumers, NEW claim \in Claims, CommitFirst(p, g, c, claim)
    PROVE  AccountedIsCovered'
  <1> USE NaturalGenerations
  <1>1. /\ g >= latest_generation[p] /\ ~HasRecord(p, g)
        /\ accounted' = accounted \cup {<<p, g, claim>>}
    <2>1. accounted' = accounted \cup {<<p, g, claim>>}
      BY Zenon DEF CommitFirst
    <2> QED
      BY <2>1, CommitFirstWatermark, CommitFirstElsewhere
  <1>2. \A q \in Partitions : latest_generation'[q] =
            IF q = p THEN g ELSE latest_generation[q]
    BY CommitFirstWatermark
  <1>3. \A q \in Partitions, h \in Generations :
            HasRecord(q, h)' => h =< latest_generation'[q]
    <2> SUFFICES ASSUME NEW q \in Partitions, NEW h \in Generations, HasRecord(q, h)'
                 PROVE  h =< latest_generation'[q]
      OBVIOUS
    <2>1. (q = p /\ h = g) \/ HasRecord(q, h)
      BY Zenon, CommitFirstRecords DEF HoldsAfter
    <2>2. HasRecord(q, h) => h =< latest_generation[q]
      BY Zenon DEF AccountedIsCovered
    <2> QED
      BY <1>1, <1>2, <2>1, <2>2
  <1>4. ASSUME NEW q \in Partitions, NEW i \in 1 .. Len(retained_keys'[q])
        PROVE  /\ retained_keys'[q][i] \in Generations
               /\ partitions'[partition_key(q, retained_keys'[q][i])] # NoRecord
               /\ \A j \in 1 .. Len(retained_keys'[q]) :
                      retained_keys'[q][i] = retained_keys'[q][j] => i = j
    <2>1. CASE q = p
      BY <2>1, CommitFirstRetains
    <2>2. CASE q # p
      <3>1. /\ retained_keys'[q] = retained_keys[q]
            /\ \A h \in Generations :
                   partitions'[partition_key(q, h)] = partitions[partition_key(q, h)]
        BY <2>2, CommitFirstElsewhere
      <3> QED
        BY <3>1 DEF AccountedIsCovered, HasRecord
    <2> QED
      BY <2>1, <2>2
  <1>5. ASSUME NEW q \in Partitions, NEW h \in Generations, NEW x \in Claims,
               <<q, h, x>> \in accounted'
        PROVE  /\ h =< latest_generation'[q]
               /\ h = latest_generation'[q] => HasRecord(q, h)'
    <2>1. CASE q = p /\ h = g
      <3>1. HasRecord(q, h)'
        BY Zenon, <2>1, CommitFirstRecords DEF HoldsAfter
      <3> QED
        BY <1>2, <2>1, <3>1
    <2>2. CASE ~(q = p /\ h = g)
      <3>1. /\ h =< latest_generation[q]
            /\ h = latest_generation[q] => HasRecord(q, h)
        BY <1>1, <1>5, <2>2 DEF AccountedIsCovered
      <3>2. CASE q = p
        BY SMTT(30), <1>1, <1>2, <2>2, <3>1, <3>2
      <3>3. CASE q # p
        BY Zenon, <1>2, <3>1, <3>3, CommitFirstRecords DEF HoldsAfter
      <3> QED
        BY <3>2, <3>3
    <2> QED
      BY <2>1, <2>2
  <1> QED
    BY SMTT(30), <1>3, <1>4, <1>5 DEF AccountedIsCovered, HasRecord

LEMMA CoveredNext ==
    ASSUME KeysDistinct, TypeOK, AccountedIsCovered, [Next]_vars
    PROVE  AccountedIsCovered'
  <1>1. ASSUME NEW p \in Partitions, NEW g \in Generations, RetireGeneration(p, g)
        PROVE  AccountedIsCovered'
    <2>1. /\ partitions' = partitions /\ retained_keys' = retained_keys
          /\ accounted' = accounted
          /\ \A q \in Partitions : latest_generation'[q] =
                 IF q = p THEN g ELSE latest_generation[q]
          /\ g > latest_generation[p]
      BY <1>1 DEF RetireGeneration, TypeOK, historyVars
    <2>2. \A q \in Partitions, h \in Generations :
              /\ h =< latest_generation[q] => h =< latest_generation'[q]
              /\ h =< latest_generation[q] /\ h = latest_generation'[q]
                     => h = latest_generation[q]
      BY <2>1, NaturalGenerations
    <2> QED
      BY <2>1, <2>2 DEF AccountedIsCovered, HasRecord
  <1>2. CASE Reload
    <2>1. UNCHANGED <<latest_generation, partitions, accounted>>
      BY <1>2 DEF Reload
    <2>2. \A p \in Partitions : Len(retained_keys'[p]) = 0
      BY <1>2 DEF Reload
    <2>3. \A p \in Partitions : 1 .. Len(retained_keys'[p]) = {}
      BY <2>2
    <2> QED
      BY <2>1, <2>3 DEF AccountedIsCovered, HasRecord
  <1>3. ASSUME UNCHANGED <<latest_generation, partitions, retained_keys, accounted>>
        PROVE  AccountedIsCovered'
    BY <1>3 DEF AccountedIsCovered, HasRecord
  <1>4. ASSUME NEW p \in Partitions, NEW g \in Generations, NEW c \in Consumers,
               NEW claim \in Claims,
               CommitNext(p, g, c, claim) \/ CommitDuplicate(p, g, c, claim)
        PROVE  AccountedIsCovered'
    BY <1>3, <1>4 DEF CommitNext, CommitDuplicate, historyVars
  <1>5. ASSUME NEW e \in Edges, NEW outcome \in Outcomes, RecordFailure(e, outcome)
        PROVE  AccountedIsCovered'
    BY <1>3, <1>5 DEF RecordFailure, commitVars, historyVars
  <1>6. CASE UNCHANGED vars
    BY <1>3, <1>6 DEF vars, commitVars, historyVars
  <1> QED
    BY <1>1, <1>2, <1>4, <1>5, <1>6, CoveredCommitFirst DEF Next

LEMMA CoveredInit == Init => AccountedIsCovered
  <1> SUFFICES ASSUME Init PROVE AccountedIsCovered
    OBVIOUS
  <1>1. \A p \in Partitions : Len(retained_keys[p]) = 0
    BY DEF Init
  <1>2. \A p \in Partitions : 1 .. Len(retained_keys[p]) = {}
    BY <1>1
  <1>3. \A p \in Partitions, g \in Generations : ~HasRecord(p, g)
    BY KeyOfPair DEF Init, HasRecord
  <1>4. accounted = {}
    BY DEF Init
  <1> QED
    BY <1>2, <1>3, <1>4 DEF AccountedIsCovered

\* A generation whose bytes were counted keeps its record while it is current
\* and stays below the watermark afterwards, as long as the generations are
\* below 2^16.
THEOREM Covered == SmallGenerations => (Spec => []AccountedIsCovered)
  <1> SUFFICES ASSUME SmallGenerations PROVE Spec => []AccountedIsCovered
    OBVIOUS
  <1>keys. KeysDistinct
    BY SmallKeys
  <1> QED
    BY <1>keys, CoveredInit, TypeCorrect, CoveredNext, PTL DEF Spec

\* Bytes are counted at most once for a partition generation, as long as the
\* generations are below 2^16.
THEOREM ExactlyOnce == SmallGenerations => (Spec => BytesCountedOnce)
  <1> SUFFICES ASSUME SmallGenerations PROVE Spec => BytesCountedOnce
    OBVIOUS
  <1>keys. KeysDistinct
    BY SmallKeys
  <1> DEFINE Once == bytes_committed' # bytes_committed =>
                 \E p \in Partitions, g \in Generations, claim \in Claims :
                     /\ \A x \in Claims : <<p, g, x>> \notin accounted
                     /\ accounted' = accounted \cup {<<p, g, claim>>}
                     /\ bytes_committed' = bytes_committed + BytesOf[claim]
  <1>1. ASSUME TypeOK, AccountedIsCovered, [Next]_vars
        PROVE  [Once]_vars
    <2>1. ASSUME NEW p \in Partitions, NEW g \in Generations, NEW c \in Consumers,
                 NEW claim \in Claims, CommitFirst(p, g, c, claim)
          PROVE  Once
      <3>1. /\ g >= latest_generation[p] /\ ~HasRecord(p, g)
            /\ accounted' = accounted \cup {<<p, g, claim>>}
            /\ bytes_committed' = bytes_committed + BytesOf[claim]
        <4>1. /\ accounted' = accounted \cup {<<p, g, claim>>}
              /\ bytes_committed' = bytes_committed + BytesOf[claim]
          BY Zenon, <2>1 DEF CommitFirst
        <4> QED
          BY <1>keys, <1>1, <2>1, <4>1, CommitFirstWatermark, CommitFirstElsewhere
      <3>2. g \in Nat /\ latest_generation[p] \in Nat
        BY <1>1, NaturalGenerations
      <3>3. \A x \in Claims : <<p, g, x>> \notin accounted
        BY <1>1, <3>1, <3>2 DEF AccountedIsCovered
      <3> QED
        BY <3>1, <3>3
    <2>2. ASSUME bytes_committed' = bytes_committed PROVE Once
      BY <2>2
    <2> HIDE DEF Once
    <2>3. CASE UNCHANGED vars
      BY <2>3
    <2>4. ASSUME NEW p \in Partitions, NEW g \in Generations, NEW c \in Consumers,
                 NEW claim \in Claims, CommitNext(p, g, c, claim) \/ CommitDuplicate(p, g, c, claim)
          PROVE  bytes_committed' = bytes_committed
      BY Zenon, <2>4 DEF CommitNext, CommitDuplicate
    <2>5. ASSUME NEW p \in Partitions, NEW g \in Generations, RetireGeneration(p, g)
          PROVE  bytes_committed' = bytes_committed
      BY Zenon, <2>5 DEF RetireGeneration, commitVars
    <2>6. ASSUME NEW e \in Edges, NEW outcome \in Outcomes, RecordFailure(e, outcome)
          PROVE  bytes_committed' = bytes_committed
      BY Zenon, <2>6 DEF RecordFailure, commitVars
    <2>7. ASSUME Reload PROVE bytes_committed' = bytes_committed
      BY Zenon, <2>7 DEF Reload, commitVars
    <2> QED
      BY Zenon, <1>1, <2>1, <2>2, <2>3, <2>4, <2>5, <2>6, <2>7 DEF Next
  <1> QED
    BY <1>1, TypeCorrect, Covered, PTL DEF Spec, BytesCountedOnce

\* Completions of the current generation are never taken back, as long as the
\* generations are below 2^16.
THEOREM Stand == SmallGenerations => (Spec => CompletionsStand)
  <1> SUFFICES ASSUME SmallGenerations PROVE Spec => CompletionsStand
    OBVIOUS
  <1>keys. KeysDistinct
    BY SmallKeys
  <1> DEFINE Kept == \A p \in Partitions :
                 /\ latest_generation'[p] >= latest_generation[p]
                 /\ \A g \in Generations :
                     (HasRecord(p, g) /\ latest_generation'[p] = g) =>
                         /\ partitions'[partition_key(p, g)] = partitions[partition_key(p, g)]
                         /\ Consumed(p, g) \subseteq Consumed(p, g)'
  <1>1. ASSUME TypeOK, AccountedIsCovered, [Next]_vars
        PROVE  Kept
    <2>0. /\ \A g \in Generations : g \in Nat
          /\ \A q \in Partitions : latest_generation[q] \in Nat
      BY <1>1, NaturalGenerations
    <2>1. ASSUME NEW p \in Partitions, NEW g \in Generations, NEW c \in Consumers,
                 NEW claim \in Claims, CommitFirst(p, g, c, claim)
          PROVE  Kept
      <3>1. /\ g >= latest_generation[p] /\ ~HasRecord(p, g)
            /\ \A q \in Partitions : latest_generation'[q] =
                   IF q = p THEN g ELSE latest_generation[q]
        BY <1>keys, <1>1, <2>1, CommitFirstWatermark, CommitFirstElsewhere
      <3>2. \A q \in Partitions, h \in Generations : q # p =>
                /\ partitions'[partition_key(q, h)] = partitions[partition_key(q, h)]
                /\ Consumed(q, h)' = Consumed(q, h)
        BY <1>keys, <1>1, <2>1, CommitFirstElsewhere
      <3> QED
        BY <2>0, <3>1, <3>2
    <2>2. ASSUME NEW p \in Partitions, NEW g \in Generations, NEW c \in Consumers,
                 NEW claim \in Claims, CommitNext(p, g, c, claim)
          PROVE  Kept
      <3>1. /\ UNCHANGED <<latest_generation, partitions>>
            /\ \A q \in Partitions, h \in Generations :
                   Consumed(q, h) \subseteq Consumed(q, h)'
        BY <1>1, <2>2, KeyOfPair DEF CommitNext, WithConsumer, Consumed, TypeOK
      <3> QED
        BY <2>0, <3>1
    <2>3. ASSUME NEW p \in Partitions, NEW g \in Generations, RetireGeneration(p, g)
          PROVE  Kept
      <3>1. /\ UNCHANGED <<partitions, completed_consumers>>
            /\ \A q \in Partitions : latest_generation'[q] >= latest_generation[q]
        BY <1>1, <2>0, <2>3 DEF RetireGeneration, TypeOK
      <3> QED
        BY <3>1 DEF Consumed
    <2>4. ASSUME UNCHANGED <<latest_generation, partitions, completed_consumers>>
          PROVE  Kept
      BY <2>0, <2>4 DEF Consumed
    <2> HIDE DEF Kept
    <2>5. CASE UNCHANGED vars
      BY <2>4, <2>5 DEF vars, commitVars
    <2> QED
      BY Zenon, <1>1, <2>1, <2>2, <2>3, <2>4, <2>5 DEF Next, CommitDuplicate, RecordFailure,
         Reload, commitVars
  <1> QED
    BY <1>1, TypeCorrect, Covered, PTL DEF Spec, CompletionsStand

----------------------------------------------------------------------------
(***************************************************************************)
(* The counters of the current edge set.                                    *)
(***************************************************************************)

\* The edges that are complete when each partition q is complete for done[q].
EdgesDone(done) == {k \in Partitions \X Consumers : k[2] \in done[k[1]]}

\* Recounting one partition changes the number of complete edges by the
\* difference of that partition alone, and no count reaches 2^64.
LEMMA Recount ==
    ASSUME NEW done \in [Partitions -> SUBSET Consumers], NEW p \in Partitions,
           NEW S \in SUBSET Consumers
    PROVE  /\ Cardinality(EdgesDone(done)) \in Nat
           /\ Cardinality(EdgesDone(done)) < Word
           /\ Cardinality(done[p]) =< Cardinality(EdgesDone(done))
           /\ Cardinality(EdgesDone([done EXCEPT ![p] = S])) =
                  Cardinality(EdgesDone(done)) - Cardinality(done[p]) + Cardinality(S)
  <1> DEFINE all == Partitions \X Consumers
             rest == {k \in EdgesDone(done) : k[1] # p}
             here(T) == {p} \X T
  <1>1. /\ IsFiniteSet(all)
        /\ Cardinality(all) = Cardinality(Partitions) * Cardinality(Consumers)
    BY FS_Product, LedgerAssumption
  <1>2. ASSUME NEW T \in SUBSET all
        PROVE  /\ IsFiniteSet(T) /\ Cardinality(T) \in Nat
               /\ Cardinality(T) < Word
    <2>1. IsFiniteSet(T) /\ Cardinality(T) =< Cardinality(all)
      BY <1>1, FS_Subset
    <2>2. Cardinality(T) \in Nat /\ Cardinality(all) \in Nat
      BY <1>1, <2>1, FS_CardinalityType
    <2> HIDE DEF all
    <2> QED
      BY <1>1, <2>1, <2>2, LedgerAssumption, EdgeCountAssumption
  <1>3. ASSUME NEW T \in SUBSET Consumers
        PROVE  /\ IsFiniteSet(here(T))
               /\ Cardinality(here(T)) = Cardinality(T)
    <2>1. IsFiniteSet(T) /\ Cardinality(T) \in Nat
      BY ConsumerSets
    <2>2. IsFiniteSet({p}) /\ Cardinality({p}) = 1
      BY Zenon, FS_Singleton
    <2>3. IsFiniteSet(here(T)) /\ Cardinality(here(T)) = 1 * Cardinality(T)
      BY <2>1, <2>2, FS_Product
    <2> QED
      BY <2>1, <2>3
  <1>4. ASSUME NEW other \in [Partitions -> SUBSET Consumers],
               \A q \in Partitions : q # p => other[q] = done[q]
        PROVE  Cardinality(EdgesDone(other)) = Cardinality(rest) + Cardinality(other[p])
    <2>1. EdgesDone(other) = rest \cup here(other[p])
      BY <1>4 DEF EdgesDone
    <2>2. rest \cap here(other[p]) = {}
      OBVIOUS
    <2>3. IsFiniteSet(rest) /\ Cardinality(rest) \in Nat
      BY <1>2 DEF EdgesDone
    <2>4. other[p] \in SUBSET Consumers
      OBVIOUS
    <2>5. IsFiniteSet(here(other[p])) /\ Cardinality(here(other[p])) = Cardinality(other[p])
      BY <1>3, <2>4
    <2>6. Cardinality(other[p]) \in Nat
      BY <2>4, ConsumerSets
    <2> HIDE DEF rest, here
    <2>7. Cardinality(rest \cup here(other[p])) =
              Cardinality(rest) + Cardinality(here(other[p])) - Cardinality({})
      BY <2>2, <2>3, <2>5, FS_Union
    <2> QED
      BY <2>1, <2>3, <2>5, <2>6, <2>7, FS_EmptySet
  <1>5. Cardinality(EdgesDone(done)) = Cardinality(rest) + Cardinality(done[p])
    BY <1>4
  <1>6. Cardinality(EdgesDone([done EXCEPT ![p] = S])) = Cardinality(rest) + Cardinality(S)
    <2> DEFINE other == [done EXCEPT ![p] = S]
    <2>1. /\ other \in [Partitions -> SUBSET Consumers]
          /\ \A q \in Partitions : q # p => other[q] = done[q]
          /\ other[p] = S
      OBVIOUS
    <2> HIDE DEF other
    <2>2. Cardinality(EdgesDone(other)) = Cardinality(rest) + Cardinality(other[p])
      BY <1>4, <2>1
    <2> QED
      BY <2>1, <2>2 DEF other
  <1>7. /\ Cardinality(rest) \in Nat
        /\ Cardinality(EdgesDone(done)) \in Nat /\ Cardinality(EdgesDone(done)) < Word
    BY <1>2 DEF EdgesDone
  <1>8. Cardinality(S) \in Nat /\ Cardinality(done[p]) \in Nat
    BY ConsumerSets
  <1> QED
    BY <1>5, <1>6, <1>7, <1>8

\* What the ledger counts as complete, partition by partition.
Completed == [p \in Partitions |-> CompletedIn(p)]

LEMMA CurrentEdgesDone ==
    /\ TypeOK => Completed \in [Partitions -> SUBSET Consumers]
    /\ CurrentEdges = EdgesDone(Completed)
  <1>1. CurrentEdges = EdgesDone(Completed)
    BY DEF CurrentEdges, EdgesDone, Completed
  <1>2. TypeOK => Completed \in [Partitions -> SUBSET Consumers]
    <2> SUFFICES ASSUME TypeOK, NEW q \in Partitions
                 PROVE  CompletedIn(q) \in SUBSET Consumers
      BY Zenon DEF Completed
    <2>1. Current(q) => partition_key(q, latest_generation[q]) \in Keys
      BY Zenon, KeyOfPair DEF Current, HasRecord
    <2> QED
      BY <2>1 DEF CompletedIn, Consumed, TypeOK
  <1> QED
    BY <1>1, <1>2

\* Why completions and failures are counted apart: a failure is recorded only for
\* a generation that was produced, and an edge that failed permanently is not
\* among the completed ones.
FailuresApart ==
    \A e \in Edges :
        /\ failures[e] # "none" => e[2] =< latest_generation[e[1]]
        /\ failures[e] \in Permanent => e[3] \notin Consumed(e[1], e[2])

\* commit() by another consumer changes one record.
LEMMA NextConsumer ==
    ASSUME KeysDistinct, TypeOK, NEW p \in Partitions, NEW g \in Generations,
           NEW c \in Consumers, NEW claim \in Claims, CommitNext(p, g, c, claim)
    PROVE  \A q \in Partitions, h \in Generations : Consumed(q, h)' =
               Consumed(q, h) \cup (IF q = p /\ h = g THEN {c} ELSE {})
  <1> SUFFICES ASSUME NEW q \in Partitions, NEW h \in Generations
               PROVE  Consumed(q, h)' =
                          Consumed(q, h) \cup (IF q = p /\ h = g THEN {c} ELSE {})
    OBVIOUS
  <1>1. /\ partition_key(q, h) \in Keys
        /\ partition_key(q, h) = partition_key(p, g) <=> q = p /\ h = g
    BY KeyOfPair DEF KeysDistinct
  <1>2. completed_consumers' = [completed_consumers EXCEPT
            ![partition_key(p, g)] = completed_consumers[partition_key(p, g)] \cup {c}]
    BY Zenon DEF CommitNext, WithConsumer
  <1>3. DOMAIN completed_consumers = Keys
    BY DEF TypeOK
  <1> QED
    BY <1>1, <1>2, <1>3 DEF Consumed

LEMMA ApartNext ==
    ASSUME KeysDistinct, TypeOK, AccountedIsCovered, FailuresApart, [Next]_vars
    PROVE  FailuresApart'
  <1> USE NaturalGenerations
  <1>0. \A e \in Edges : /\ e[1] \in Partitions /\ e[2] \in Generations /\ e[3] \in Consumers
                         /\ e = <<e[1], e[2], e[3]>>
    BY DEF Edges
  <1>1. ASSUME NEW p \in Partitions, NEW g \in Generations, NEW c \in Consumers,
               NEW claim \in Claims, CommitFirst(p, g, c, claim)
        PROVE  FailuresApart'
    <2>1. failures' = failures
      <3>1. CASE g > latest_generation[p]
        BY Zenon, <1>1, <3>1 DEF CommitFirst, RetireFailures
      <3>2. CASE ~(g > latest_generation[p])
        BY Zenon, <1>1, <3>2 DEF CommitFirst
      <3> QED
        BY <3>1, <3>2
    <2>2. \A q \in Partitions : latest_generation'[q] >= latest_generation[q]
      BY <1>1, CommitFirstWatermark
    <2>3. \A q \in Partitions, h \in Generations :
              Consumed(q, h)' \subseteq
                  Consumed(q, h) \cup (IF q = p /\ h = g THEN {c} ELSE {})
      BY Zenon, <1>1, CommitFirstRecords DEF KeptAfter
    <2>4. failures[<<p, g, c>>] \notin Permanent
      BY Zenon, <1>1 DEF CommitFirst, Unresolved
    <2>5. \A e \in Edges : latest_generation'[e[1]] \in Nat
      BY <1>0, <1>1, CommitFirstWatermark
    <2> QED
      BY <1>0, <2>1, <2>2, <2>3, <2>4, <2>5 DEF FailuresApart
  <1>2. ASSUME NEW p \in Partitions, NEW g \in Generations, NEW c \in Consumers,
               NEW claim \in Claims, CommitNext(p, g, c, claim)
        PROVE  FailuresApart'
    <2>1. /\ UNCHANGED <<failures, latest_generation>>
          /\ failures[<<p, g, c>>] \notin Permanent
      BY <1>2 DEF CommitNext, failureVars, Unresolved
    <2>2. \A q \in Partitions, h \in Generations : Consumed(q, h)' =
              Consumed(q, h) \cup (IF q = p /\ h = g THEN {c} ELSE {})
      BY <1>2, NextConsumer
    <2> QED
      BY <1>0, <2>1, <2>2 DEF FailuresApart
  <1>3. ASSUME NEW p \in Partitions, NEW g \in Generations, RetireGeneration(p, g)
        PROVE  FailuresApart'
    <2>1. failures' = failures /\ \A q, h : Consumed(q, h)' = Consumed(q, h)
      BY <1>3 DEF RetireGeneration, RetireFailures, Consumed
    <2>2. \A q \in Partitions : /\ latest_generation'[q] \in Nat
                                /\ latest_generation[q] =< latest_generation'[q]
      BY <1>3 DEF RetireGeneration, TypeOK
    <2> QED
      BY <1>0, <2>1, <2>2 DEF FailuresApart
  <1>4. ASSUME NEW e \in Edges, NEW outcome \in Outcomes, RecordFailure(e, outcome)
        PROVE  FailuresApart'
    <2>1. /\ latest_generation' = latest_generation
          /\ \A q, h : Consumed(q, h)' = Consumed(q, h)
          /\ \A d \in Edges : failures'[d] = IF d = e THEN outcome ELSE failures[d]
          /\ e[2] =< latest_generation[e[1]]
          /\ e[3] \notin Consumed(e[1], e[2])
      BY <1>4 DEF RecordFailure, Consumed, commitVars, TypeOK
    <2> QED
      BY <2>1 DEF FailuresApart
  <1>5. ASSUME UNCHANGED <<failures, latest_generation, completed_consumers>>
        PROVE  FailuresApart'
    BY <1>5 DEF FailuresApart, Consumed
  <1>6. ASSUME NEW p \in Partitions, NEW g \in Generations, NEW c \in Consumers,
               NEW claim \in Claims, CommitDuplicate(p, g, c, claim)
        PROVE  FailuresApart'
    BY Zenon, <1>5, <1>6 DEF CommitDuplicate, failureVars
  <1>7. CASE Reload
    BY <1>5, <1>7 DEF Reload
  <1>8. CASE UNCHANGED vars
    BY <1>5, <1>8 DEF vars, commitVars, failureVars
  <1> QED
    BY <1>1, <1>2, <1>3, <1>4, <1>6, <1>7, <1>8 DEF Next

\* A partition that moves to a newer generation leaves its permanent failures
\* behind, all of them and no others.
LEMMA FailuresRetired ==
    ASSUME TypeOK, FailuresApart, CountersExact, NEW p \in Partitions,
           NEW g \in Generations, g > latest_generation[p], RetireFailures(p),
           latest_generation' = [latest_generation EXCEPT ![p] = g]
    PROVE  /\ \A q \in Partitions :
                  PermanentOf(q)' = IF q = p THEN {} ELSE PermanentOf(q)
           /\ permanent_failures' = Cardinality(CurrentPermanent')
           /\ \A q \in Partitions :
                  current_permanent_failures'[q] = Cardinality(PermanentOf(q)')
           /\ failure_records' = Cardinality({e \in Edges : failures'[e] # "none"})
  <1> USE NaturalGenerations
  <1>0. \A e \in Edges : e[1] \in Partitions /\ e[2] \in Generations
    BY DEF Edges
  <1>1. \A q \in Partitions : latest_generation'[q] = IF q = p THEN g ELSE latest_generation[q]
    BY DEF TypeOK
  <1>2. failures' = failures /\ failure_records' = failure_records
    BY DEF RetireFailures
  <1>3. \A e \in Edges : failures[e] \in Permanent => failures[e] # "none"
    BY DEF Permanent
  <1>4. CurrentPermanent' = CurrentPermanent \ PermanentOf(p)
    BY <1>0, <1>1, <1>2, <1>3 DEF CurrentPermanent, PermanentOf, FailuresApart
  <1>5. \A q \in Partitions : PermanentOf(q)' = IF q = p THEN {} ELSE PermanentOf(q)
    BY <1>4 DEF PermanentOf
  <1>6. IsFiniteSet(CurrentPermanent) /\ IsFiniteSet(PermanentOf(p))
    BY EdgesFinite, FS_Subset DEF CurrentPermanent, PermanentOf
  <1>7. /\ Cardinality(CurrentPermanent') =
               Cardinality(CurrentPermanent) - Cardinality(PermanentOf(p))
        /\ Cardinality(PermanentOf(p)) =< Cardinality(CurrentPermanent)
    <2>1. CurrentPermanent \cap PermanentOf(p) = PermanentOf(p)
      BY DEF PermanentOf
    <2>2. Cardinality(CurrentPermanent \ PermanentOf(p)) =
              Cardinality(CurrentPermanent) - Cardinality(CurrentPermanent \cap PermanentOf(p))
      BY Zenon, <1>6, FS_Difference
    <2>3. PermanentOf(p) \in SUBSET CurrentPermanent
      BY DEF PermanentOf
    <2> QED
      BY Zenon, <1>4, <1>6, <2>1, <2>2, <2>3, FS_Subset
  <1>8. /\ permanent_failures \in Nat /\ permanent_failures = Cardinality(CurrentPermanent)
        /\ \A q \in Partitions : /\ current_permanent_failures[q] \in Nat
                                 /\ current_permanent_failures[q] = Cardinality(PermanentOf(q))
        /\ current_permanent_failures \in [Partitions -> Nat]
        /\ failure_records = Cardinality({e \in Edges : failures[e] # "none"})
    BY DEF TypeOK, CountersExact
  <1>9. latest_generation[p] = 0 => PermanentOf(p) = {}
    <2> SUFFICES ASSUME latest_generation[p] = 0, NEW e \in PermanentOf(p) PROVE FALSE
      OBVIOUS
    <2>1. e \in Edges /\ e[1] = p /\ failures[e] # "none"
      BY <1>3 DEF PermanentOf, CurrentPermanent
    <2>2. e[2] =< 0 /\ e[2] \in Generations
      BY <1>0, <2>1 DEF FailuresApart
    <2>3. e[2] \in Nat \ {0}
      BY <2>2, LedgerAssumption, Zenon
    <2> QED
      BY <2>2, <2>3
  <1>10. /\ permanent_failures' = Cardinality(CurrentPermanent')
         /\ \A q \in Partitions :
                current_permanent_failures'[q] = Cardinality(PermanentOf(q)')
    <2>1. CASE latest_generation[p] = 0
      <3>1. UNCHANGED <<permanent_failures, current_permanent_failures>>
        BY <2>1 DEF RetireFailures
      <3>2. CurrentPermanent' = CurrentPermanent
            /\ \A q \in Partitions : PermanentOf(q)' = PermanentOf(q)
        BY <1>4, <1>5, <1>9, <2>1
      <3> QED
        BY <3>1, <3>2, <1>8
    <2>2. CASE latest_generation[p] # 0
      <3>1. /\ permanent_failures' =
                   Saturating(permanent_failures, current_permanent_failures[p])
            /\ current_permanent_failures' = [current_permanent_failures EXCEPT ![p] = 0]
        BY <2>2 DEF RetireFailures, FailuresReset
      <3>2. permanent_failures' = Cardinality(CurrentPermanent')
        BY <1>7, <1>8, <3>1 DEF Saturating
      <3>3. ASSUME NEW q \in Partitions
            PROVE  current_permanent_failures'[q] = Cardinality(PermanentOf(q)')
        <4>1. CASE q = p
          BY Zenon, <1>5, <1>8, <3>1, <4>1, FS_EmptySet
        <4>2. CASE q # p
          BY <1>5, <1>8, <3>1, <4>2
        <4> QED
          BY <4>1, <4>2
      <3> QED
        BY <3>2, <3>3
    <2> QED
      BY <2>1, <2>2
  <1> QED
    BY <1>2, <1>5, <1>8, <1>10

\* The counters that completions change, after the completions of partition p
\* have become the set S: what is needed of the step is that it adjusts the two
\* counters by the difference.
LEMMA CompletionsCounted ==
    ASSUME TypeOK, NEW p \in Partitions, NEW S \in SUBSET Consumers,
           Completed' = [Completed EXCEPT ![p] = S]
    PROVE  /\ Cardinality(Completed[p]) \in Nat /\ Cardinality(S) \in Nat
           /\ Cardinality(CurrentEdges) \in Nat /\ Cardinality(CurrentEdges') \in Nat
           /\ Cardinality(CurrentEdges') < Word
           /\ Cardinality(Completed[p]) =< Cardinality(CurrentEdges)
           /\ Cardinality(CurrentEdges') =
                  Cardinality(CurrentEdges) - Cardinality(Completed[p]) + Cardinality(S)
  <1>1. Completed \in [Partitions -> SUBSET Consumers] /\ CurrentEdges = EdgesDone(Completed)
    BY CurrentEdgesDone
  <1>2. CurrentEdges' = EdgesDone(Completed')
    BY DEF CurrentEdges, EdgesDone, Completed
  <1>3. Completed' \in [Partitions -> SUBSET Consumers]
    BY <1>1
  <1>4. Cardinality(EdgesDone(Completed')) \in Nat /\ Cardinality(EdgesDone(Completed')) < Word
    BY Zenon, <1>3, Recount
  <1>5. Completed[p] \in SUBSET Consumers
    BY <1>1
  <1>6. Cardinality(Completed[p]) \in Nat /\ Cardinality(S) \in Nat
    BY <1>5, ConsumerSets
  <1> QED
    BY Zenon, <1>1, <1>2, <1>4, <1>6, Recount

\* The record found for a partition generation is its own, which is what decode()
\* looks at, and the counters are 64-bit numbers.
OwnRecords ==
    /\ \A p \in Partitions, g \in Generations :
           HasRecord(p, g) => partitions[partition_key(p, g)].anchor = <<p, g>>
    /\ completed_edges < Word /\ overdrawn < Word

LEMMA OwnNext ==
    ASSUME KeysDistinct, TypeOK, AccountedIsCovered, OwnRecords, [Next]_vars
    PROVE  OwnRecords'
  <1>1. ASSUME UNCHANGED partitions, completed_edges' < Word, overdrawn' < Word
        PROVE  OwnRecords'
    BY <1>1 DEF OwnRecords, HasRecord
  <1>2. ASSUME NEW p \in Partitions, NEW g \in Generations, NEW c \in Consumers,
               NEW claim \in Claims, CommitFirst(p, g, c, claim)
        PROVE  OwnRecords'
    <2>1. ASSUME NEW q \in Partitions, NEW h \in Generations, HasRecord(q, h)'
          PROVE  partitions'[partition_key(q, h)].anchor = <<q, h>>
      <3>1. CASE q = p /\ h = g
        <4>1. partitions'[partition_key(p, g)] = [anchor |-> <<p, g>>, claim |-> claim]
          BY Zenon, <1>2, CommitFirstRecords
        <4> QED
          BY <3>1, <4>1
      <3>2. CASE ~(q = p /\ h = g)
        <4>1. HasRecord(q, h)
          BY Zenon, <1>2, <2>1, <3>2, CommitFirstRecords DEF HoldsAfter
        <4>2. partitions'[partition_key(q, h)] = partitions[partition_key(q, h)]
          BY Zenon, <1>2, <2>1, <4>1, CommitFirstRecords DEF KeptAfter
        <4> QED
          BY Zenon, <4>1, <4>2 DEF OwnRecords
      <3> QED
        BY <3>1, <3>2
    <2>2. completed_edges' < Word /\ overdrawn' < Word
      <3> DEFINE edges == IF g > latest_generation[p]
                          THEN Minus(completed_edges, RetiredEdges(p)) ELSE completed_edges
      <3>1. /\ completed_edges' = Minus(Plus(edges, 1), PurgedEdges(p))
            /\ overdrawn' = Plus(overdrawn, PurgedEdges(p))
        BY Zenon, <1>2 DEF CommitFirst
      <3>2. /\ completed_edges \in Nat /\ overdrawn \in Nat
            /\ completed_edges < Word /\ overdrawn < Word
        BY DEF TypeOK, OwnRecords
      <3>3. /\ RetiredEdges(p) \in Nat /\ RetiredEdges(p) < Word
            /\ PurgedEdges(p) \in Nat /\ PurgedEdges(p) < Word
        BY Zenon, RemovedEdges
      <3>4. edges \in Nat /\ edges < Word
        BY <3>2, <3>3, LedgerAssumption DEF Minus
      <3> HIDE DEF edges
      <3>5. Plus(edges, 1) \in Nat /\ Plus(edges, 1) < Word
        BY <3>4, LedgerAssumption DEF Plus
      <3> QED
        BY <3>1, <3>2, <3>3, <3>5, LedgerAssumption DEF Plus, Minus
    <2> QED
      BY <2>1, <2>2 DEF OwnRecords
  <1>3. ASSUME NEW p \in Partitions, NEW g \in Generations, NEW c \in Consumers,
               NEW claim \in Claims, CommitNext(p, g, c, claim)
        PROVE  OwnRecords'
    <2>1. /\ UNCHANGED <<partitions, overdrawn>>
          /\ completed_edges' = Plus(completed_edges, 1)
      BY <1>3 DEF CommitNext, historyVars
    <2>2. completed_edges' < Word /\ overdrawn' < Word
      BY <2>1, LedgerAssumption DEF Plus, TypeOK, OwnRecords
    <2> QED
      BY <1>1, <2>1, <2>2
  <1>4. ASSUME NEW p \in Partitions, NEW g \in Generations, RetireGeneration(p, g)
        PROVE  OwnRecords'
    <2>1. /\ UNCHANGED <<partitions, overdrawn>>
          /\ completed_edges' = Minus(completed_edges, RetiredEdges(p))
      BY <1>4 DEF RetireGeneration, historyVars
    <2>2. RetiredEdges(p) \in Nat /\ RetiredEdges(p) < Word
      BY <1>4, RemovedEdges
    <2>3. completed_edges' < Word /\ overdrawn' < Word
      BY <2>1, <2>2, LedgerAssumption DEF Minus, TypeOK, OwnRecords
    <2> QED
      BY <1>1, <2>1, <2>3
  <1>5. CASE Reload
    <2>1. /\ UNCHANGED partitions
          /\ completed_edges' = Cardinality(CurrentEdges) /\ overdrawn' = 0
      BY <1>5 DEF Reload
    <2>2. \/ Partitions = {} /\ CurrentEdges = {}
          \/ Cardinality(CurrentEdges) < Word
      <3>1. CASE Partitions = {}
        BY <3>1 DEF CurrentEdges
      <3>2. CASE Partitions # {}
        BY <3>2, Recount, CurrentEdgesDone
      <3> QED
        BY <3>1, <3>2
    <2>3. 0 < Word /\ Cardinality({}) = 0
      BY ConsumerSets, FS_EmptySet, LedgerAssumption
    <2> QED
      BY <1>1, <2>1, <2>2, <2>3
  <1>6. ASSUME UNCHANGED <<partitions, completed_edges, overdrawn>> PROVE OwnRecords'
    BY <1>1, <1>6 DEF OwnRecords
  <1>7. ASSUME NEW e \in Edges, NEW outcome \in Outcomes, RecordFailure(e, outcome)
        PROVE  OwnRecords'
    BY <1>6, <1>7 DEF RecordFailure, commitVars, historyVars
  <1>8. ASSUME NEW p \in Partitions, NEW g \in Generations, NEW c \in Consumers,
               NEW claim \in Claims, CommitDuplicate(p, g, c, claim)
        PROVE  OwnRecords'
    BY <1>6, <1>8 DEF CommitDuplicate, historyVars
  <1>9. CASE UNCHANGED vars
    BY <1>6, <1>9 DEF vars, commitVars, historyVars
  <1> QED
    BY <1>2, <1>3, <1>4, <1>5, <1>7, <1>8, <1>9 DEF Next

\* So the record that is found for the current generation is the one decode()
\* counts.
LEMMA FoundIsCurrent ==
    /\ OwnRecords => \A q \in Partitions :
           /\ Current(q) <=> HasRecord(q, latest_generation[q])
           /\ CompletedIn(q) = IF HasRecord(q, latest_generation[q])
                               THEN Consumed(q, latest_generation[q]) ELSE {}
    /\ OwnRecords' => \A q \in Partitions :
           /\ Current(q)' <=> HasRecord(q, latest_generation[q])'
           /\ CompletedIn(q)' = IF HasRecord(q, latest_generation[q])'
                                THEN Consumed(q, latest_generation[q])' ELSE {}
  <1>1. OwnRecords => \A q \in Partitions : Current(q) <=> HasRecord(q, latest_generation[q])
    BY Zenon DEF OwnRecords, Current, HasRecord
  <1>2. OwnRecords' => \A q \in Partitions :
            Current(q)' <=> HasRecord(q, latest_generation[q])'
    BY Zenon DEF OwnRecords, Current, HasRecord
  <1> QED
    BY Zenon, <1>1, <1>2 DEF CompletedIn

LEMMA RecordsFinite ==
    /\ IsFiniteSet(CurrentRecords)
    /\ Cardinality(CurrentRecords) \in Nat
  BY SMTT(30), FS_Subset, FS_CardinalityType, LedgerAssumption DEF CurrentRecords

LEMMA ExactRetire ==
    ASSUME KeysDistinct, TypeOK, AccountedIsCovered, FailuresApart,
           OwnRecords, OwnRecords', CountersExact,
           NEW p \in Partitions, NEW g \in Generations, RetireGeneration(p, g)
    PROVE  CountersExact'
  <1> USE NaturalGenerations
  <1>1. /\ g > latest_generation[p]
        /\ latest_generation' = [latest_generation EXCEPT ![p] = g]
        /\ RetireFailures(p)
        /\ UNCHANGED <<partitions, completed_consumers, overdrawn>>
    BY DEF RetireGeneration, historyVars
  <1>2. \A q \in Partitions : latest_generation'[q] = IF q = p THEN g ELSE latest_generation[q]
    BY SMTT(30), <1>1 DEF TypeOK
  <1>3. /\ ~HasRecord(p, g)
        /\ \A q \in Partitions : \A h : /\ HasRecord(q, h)' <=> HasRecord(q, h)
                                       /\ Consumed(q, h)' = Consumed(q, h)
    <2>1. HasRecord(p, g) => g =< latest_generation[p]
      BY Zenon DEF AccountedIsCovered
    <2>2. ~HasRecord(p, g)
      BY <1>1, <2>1
    <2> QED
      BY Zenon, <1>1, <2>2 DEF HasRecord, Consumed
  <1>now. \A q \in Partitions :
            /\ HasRecord(q, latest_generation[q])' <=> q # p /\ HasRecord(q, latest_generation[q])
            /\ q # p => Consumed(q, latest_generation[q])' = Consumed(q, latest_generation[q])
    BY Zenon, <1>1, <1>2, <1>3 DEF HasRecord, Consumed
  <1>4. Completed' = [Completed EXCEPT ![p] = {}]
    <2>1. \A q \in Partitions : CompletedIn(q)' = IF q = p THEN {} ELSE CompletedIn(q)
      BY Zenon, <1>now, FoundIsCurrent
    <2> QED
      BY ZenonT(30), <2>1 DEF Completed
  <1>5. Plus(completed_edges', overdrawn') = Cardinality(CurrentEdges')
    <2>1. /\ Plus(completed_edges, overdrawn) = Cardinality(CurrentEdges)
          /\ completed_edges \in Nat /\ overdrawn \in Nat
          /\ completed_edges < Word /\ overdrawn < Word
      BY DEF CountersExact, TypeOK, OwnRecords
    <2>2. RetiredEdges(p) = Cardinality(Completed[p])
      BY Zenon, FS_EmptySet, FoundIsCurrent DEF RetiredEdges, Completed
    <2>3. completed_edges' = Minus(completed_edges, RetiredEdges(p)) /\ overdrawn' = overdrawn
      BY <1>1 DEF RetireGeneration
    <2>4. {} \in SUBSET Consumers /\ Cardinality({}) = 0
      BY FS_EmptySet
    <2>5. /\ Cardinality(Completed[p]) \in Nat /\ Cardinality(CurrentEdges) \in Nat
          /\ Cardinality(Completed[p]) =< Cardinality(CurrentEdges)
          /\ Cardinality(CurrentEdges') =
                 Cardinality(CurrentEdges) - Cardinality(Completed[p]) + Cardinality({})
      BY Zenon, <1>4, <2>4, CompletionsCounted
    <2> QED
      BY <2>1, <2>2, <2>3, <2>4, <2>5, TakeOff
  <1>6. committed_partitions' = Cardinality(CurrentRecords')
    <2>1. CurrentRecords' = CurrentRecords \ {p}
      BY <1>now, FoundIsCurrent DEF CurrentRecords
    <2>2. /\ committed_partitions = Cardinality(CurrentRecords)
          /\ committed_partitions' = committed_partitions - RetiredRecords(p)
      BY DEF CountersExact, RetireGeneration
    <2>3. Cardinality(CurrentRecords \ {p}) =
              IF p \in CurrentRecords THEN Cardinality(CurrentRecords) - 1
                                      ELSE Cardinality(CurrentRecords)
      BY Zenon, RecordsFinite, FS_RemoveElement
    <2>4. p \in CurrentRecords => Cardinality(CurrentRecords) # 0
      BY RecordsFinite, FS_EmptySet
    <2>5. p \in CurrentRecords <=> HasRecord(p, latest_generation[p])
      BY FoundIsCurrent DEF CurrentRecords
    <2> QED
      BY <2>1, <2>2, <2>3, <2>4, <2>5, RecordsFinite DEF RetiredRecords
  <1>7. /\ \A q \in Partitions : PermanentOf(q)' = IF q = p THEN {} ELSE PermanentOf(q)
        /\ permanent_failures' = Cardinality(CurrentPermanent')
        /\ \A q \in Partitions :
               current_permanent_failures'[q] = Cardinality(PermanentOf(q)')
        /\ failure_records' = Cardinality({e \in Edges : failures'[e] # "none"})
    BY Zenon, <1>1, FailuresRetired
  <1>8. failed_partitions' = UnservedPartitions'
    <2>1. failed_partitions' = failed_partitions \ {p} /\ failed_partitions = UnservedPartitions
      BY <1>1 DEF RetireFailures, CountersExact
    <2> QED
      BY <1>3, <1>7, <2>1 DEF UnservedPartitions
  <1> QED
    BY Zenon, <1>5, <1>6, <1>7, <1>8 DEF CountersExact

LEMMA ExactCommitFirst ==
    ASSUME KeysDistinct, TypeOK, AccountedIsCovered, FailuresApart,
           OwnRecords, OwnRecords', CountersExact,
           NEW p \in Partitions, NEW g \in Generations, NEW c \in Consumers,
           NEW claim \in Claims, CommitFirst(p, g, c, claim)
    PROVE  CountersExact'
  <1> USE NaturalGenerations
  <1> DEFINE newer == g > latest_generation[p]
  <1>1. /\ latest_generation' = [latest_generation EXCEPT ![p] = g]
        /\ g >= latest_generation[p]
    BY CommitFirstWatermark
  <1>2. \A q \in Partitions : latest_generation'[q] = IF q = p THEN g ELSE latest_generation[q]
    BY CommitFirstWatermark
  <1>3. ~HasRecord(p, g) /\ HasRecord(p, g)'
    BY Zenon, CommitFirstRecords DEF CommitFirst, HoldsAfter
  <1>4. ~newer => g = latest_generation[p] /\ latest_generation' = latest_generation
    BY <1>1 DEF TypeOK
  <1>5. /\ Consumed(p, g)' = {c}
        /\ \A q \in Partitions, h \in Generations : q # p =>
               /\ partitions'[partition_key(q, h)] = partitions[partition_key(q, h)]
               /\ Consumed(q, h)' = Consumed(q, h)
    BY Zenon, CommitFirstRecords, CommitFirstElsewhere
  <1>6. \A q \in Partitions : q # p => \A h : HasRecord(q, h)' <=> HasRecord(q, h)
    BY Zenon, <1>5 DEF HasRecord
  <1>now. \A q \in Partitions :
            /\ q = p => /\ HasRecord(q, latest_generation[q])'
                        /\ Consumed(q, latest_generation[q])' = {c}
            /\ q # p => /\ HasRecord(q, latest_generation[q])' <=>
                               HasRecord(q, latest_generation[q])
                        /\ HasRecord(q, latest_generation[q]) =>
                               Consumed(q, latest_generation[q])' =
                                   Consumed(q, latest_generation[q])
    <2>1. ASSUME NEW q \in Partitions, q # p
          PROVE  /\ HasRecord(q, latest_generation[q])' <=>
                        HasRecord(q, latest_generation[q])
                 /\ HasRecord(q, latest_generation[q]) =>
                        Consumed(q, latest_generation[q])' =
                            Consumed(q, latest_generation[q])
      <3>1. latest_generation'[q] = latest_generation[q]
        BY <1>2, <2>1
      <3>2. \A h \in Generations :
                /\ partitions'[partition_key(q, h)] = partitions[partition_key(q, h)]
                /\ completed_consumers'[partition_key(q, h)] =
                       completed_consumers[partition_key(q, h)]
        BY Zenon, <1>5, <2>1 DEF Consumed
      <3> QED
        BY Zenon, <3>1, <3>2 DEF HasRecord, Consumed
    <2>2. HasRecord(p, latest_generation[p])' /\ Consumed(p, latest_generation[p])' = {c}
      <3>1. latest_generation'[p] = g
        BY <1>2
      <3> QED
        BY Zenon, <1>3, <1>5, <3>1 DEF HasRecord, Consumed
    <2> QED
      BY Zenon, <2>1, <2>2
  <1>7. Completed' = [Completed EXCEPT ![p] = {c}]
    <2>1. \A q \in Partitions : CompletedIn(q)' = IF q = p THEN {c} ELSE CompletedIn(q)
      BY Zenon, <1>now, FoundIsCurrent
    <2> QED
      BY Zenon, <2>1 DEF Completed
  <1>8. Plus(completed_edges', overdrawn') = Cardinality(CurrentEdges')
    <2> DEFINE edges == IF newer THEN Minus(completed_edges, RetiredEdges(p))
                                 ELSE completed_edges
    <2>1. /\ Plus(completed_edges, overdrawn) = Cardinality(CurrentEdges)
          /\ completed_edges \in Nat /\ overdrawn \in Nat
          /\ completed_edges < Word /\ overdrawn < Word
      BY DEF CountersExact, TypeOK, OwnRecords
    <2>2. RetiredEdges(p) = Cardinality(Completed[p])
      BY Zenon, FS_EmptySet, FoundIsCurrent DEF RetiredEdges, Completed
    <2>3. ~newer => Cardinality(Completed[p]) = 0
      BY SMTT(30), <1>3, <1>4, FS_EmptySet, FoundIsCurrent DEF Completed
    <2>4. /\ PurgedEdges(p) \in Nat /\ PurgedEdges(p) < Word
          /\ RetiredEdges(p) \in Nat /\ RetiredEdges(p) < Word
      BY Zenon, RemovedEdges
    <2>5. /\ completed_edges' = Minus(Plus(edges, 1), PurgedEdges(p))
          /\ overdrawn' = Plus(overdrawn, PurgedEdges(p))
      BY Zenon DEF CommitFirst
    <2>6. {c} \in SUBSET Consumers /\ Cardinality({c}) = 1
      BY Zenon, FS_Singleton
    <2>7. /\ Cardinality(Completed[p]) \in Nat /\ Cardinality(CurrentEdges) \in Nat
          /\ Cardinality(Completed[p]) =< Cardinality(CurrentEdges)
          /\ Cardinality(CurrentEdges') < Word
          /\ Cardinality(CurrentEdges') =
                 Cardinality(CurrentEdges) - Cardinality(Completed[p]) + Cardinality({c})
      BY Zenon, <1>7, <2>6, CompletionsCounted
    <2>8. /\ edges \in Nat /\ edges < Word
          /\ Plus(edges, overdrawn) = Cardinality(CurrentEdges) - Cardinality(Completed[p])
      <3>1. CASE newer
        <4>1. RetiredEdges(p) =< Plus(completed_edges, overdrawn)
          BY Zenon, <2>1, <2>2, <2>7
        <4>2. /\ Minus(completed_edges, RetiredEdges(p)) < Word
              /\ Plus(Minus(completed_edges, RetiredEdges(p)), overdrawn) =
                     Plus(completed_edges, overdrawn) - RetiredEdges(p)
          BY Zenon, <2>1, <2>4, <4>1, TakeOff
        <4>3. Minus(completed_edges, RetiredEdges(p)) \in Nat
          BY Zenon, <2>1, <2>4, Unsigned
        <4>4. edges = Minus(completed_edges, RetiredEdges(p))
          BY Zenon, <3>1
        <4> QED
          BY Zenon, <2>1, <2>2, <4>2, <4>3, <4>4
      <3>2. CASE ~newer
        <4>1. edges = completed_edges /\ Cardinality(Completed[p]) = 0
          BY Zenon, <2>3, <3>2
        <4>2. \A n \in Nat : n - 0 = n
          OBVIOUS
        <4> QED
          BY Zenon, <2>1, <2>7, <4>1, <4>2
      <3> QED
        BY Zenon, <3>1, <3>2
    <2> HIDE DEF edges
    <2>9. Plus(edges, overdrawn) + 1 = Cardinality(CurrentEdges')
      BY Zenon, <2>6, <2>7, <2>8
    <2>10. /\ Plus(edges, 1) < Word
           /\ Plus(Plus(edges, 1), overdrawn) = Cardinality(CurrentEdges')
      BY <2>1, <2>7, <2>8, <2>9, AddOne
    <2>11. Plus(edges, 1) \in Nat
      BY Zenon, <2>8, Unsigned
    <2>12. Plus(Minus(Plus(edges, 1), PurgedEdges(p)), Plus(overdrawn, PurgedEdges(p))) =
               Plus(Plus(edges, 1), overdrawn)
      BY <2>1, <2>4, <2>10, <2>11, Overdraw
    <2> QED
      BY Zenon, <2>5, <2>10, <2>12
  <1>9. committed_partitions' = Cardinality(CurrentRecords')
    <2>1. CurrentRecords' = CurrentRecords \cup {p}
      BY Zenon, <1>now, FoundIsCurrent DEF CurrentRecords
    <2>2. /\ committed_partitions = Cardinality(CurrentRecords)
          /\ committed_partitions' =
                 (IF newer THEN committed_partitions - RetiredRecords(p)
                           ELSE committed_partitions) + 1
      BY Zenon DEF CountersExact, CommitFirst
    <2>3. Cardinality(CurrentRecords \cup {p}) =
              IF p \in CurrentRecords THEN Cardinality(CurrentRecords)
                                      ELSE Cardinality(CurrentRecords) + 1
      BY Zenon, RecordsFinite, FS_AddElement
    <2>4. p \in CurrentRecords => Cardinality(CurrentRecords) # 0
      BY RecordsFinite, FS_EmptySet
    <2>5. p \in CurrentRecords <=> HasRecord(p, latest_generation[p])
      BY Zenon, FoundIsCurrent DEF CurrentRecords
    <2>6. ~newer => p \notin CurrentRecords
      BY SMTT(30), <1>3, <1>4, <2>5
    <2> QED
      BY <2>1, <2>2, <2>3, <2>4, <2>5, <2>6, RecordsFinite DEF RetiredRecords
  <1>10. CASE newer
    <2>1. RetireFailures(p)
      BY Zenon, <1>10 DEF CommitFirst
    <2>2. /\ \A q \in Partitions : PermanentOf(q)' = IF q = p THEN {} ELSE PermanentOf(q)
          /\ permanent_failures' = Cardinality(CurrentPermanent')
          /\ \A q \in Partitions :
                 current_permanent_failures'[q] = Cardinality(PermanentOf(q)')
          /\ failure_records' = Cardinality({e \in Edges : failures'[e] # "none"})
      BY ZenonT(30), <1>1, <1>10, <2>1, FailuresRetired
    <2>3. failed_partitions' = failed_partitions \ {p} /\ failed_partitions = UnservedPartitions
      BY <2>1 DEF RetireFailures, CountersExact
    <2>4. failed_partitions' = UnservedPartitions'
      BY Zenon, <1>6, <2>2, <2>3 DEF UnservedPartitions
    <2> QED
      BY Zenon, <1>8, <1>9, <2>2, <2>4 DEF CountersExact
  <1>11. CASE ~newer
    <2>1. /\ failed_partitions' = failed_partitions \ {p}
          /\ UNCHANGED <<failures, failure_records, permanent_failures,
                         current_permanent_failures>>
      BY Zenon, <1>11 DEF CommitFirst
    <2>2. CurrentPermanent' = CurrentPermanent
          /\ \A q \in Partitions : PermanentOf(q)' = PermanentOf(q)
      BY Zenon, <1>4, <1>11, <2>1 DEF CurrentPermanent, PermanentOf
    <2>3. \A e \in PermanentOf(p) : e[2] = g
      <3> SUFFICES ASSUME NEW e \in PermanentOf(p) PROVE e[2] = g
        OBVIOUS
      <3>1. /\ e \in Edges /\ e[1] = p /\ failures[e] # "none"
            /\ e[2] >= latest_generation[p]
        BY DEF PermanentOf, CurrentPermanent, Permanent
      <3>2. e[2] =< latest_generation[p] /\ e[2] \in Generations
        BY <3>1 DEF FailuresApart, Edges
      <3> QED
        BY <1>4, <1>11, <3>1, <3>2
    <2>4. failed_partitions = UnservedPartitions
      BY Zenon DEF CountersExact
    <2>5. p \notin UnservedPartitions'
      BY <1>3, <2>2, <2>3 DEF UnservedPartitions
    <2>6. \A q \in Partitions : q # p => (q \in UnservedPartitions' <=> q \in UnservedPartitions)
      BY <1>6, <2>2 DEF UnservedPartitions
    <2>7. failed_partitions' = UnservedPartitions'
      <3>1. UnservedPartitions \subseteq Partitions /\ UnservedPartitions' \subseteq Partitions
        BY DEF UnservedPartitions
      <3> QED
        BY <2>1, <2>4, <2>5, <2>6, <3>1
    <2> QED
      BY ZenonT(30), <1>8, <1>9, <2>1, <2>2, <2>7 DEF CountersExact
  <1> QED
    BY <1>10, <1>11

LEMMA ExactCommitNext ==
    ASSUME KeysDistinct, TypeOK, AccountedIsCovered,
           OwnRecords, OwnRecords', CountersExact,
           NEW p \in Partitions, NEW g \in Generations, NEW c \in Consumers,
           NEW claim \in Claims, CommitNext(p, g, c, claim)
    PROVE  CountersExact'
  <1> USE NaturalGenerations
  <1>1. /\ UNCHANGED <<latest_generation, partitions, committed_partitions, overdrawn,
                       failures, failure_records, permanent_failures,
                       current_permanent_failures, failed_partitions>>
        /\ c \notin Consumed(p, g)
        /\ completed_edges' = Plus(completed_edges, 1)
        /\ completed_consumers' = WithConsumer(p, g, c)
    BY DEF CommitNext, failureVars, historyVars
  <1>2. HasRecord(p, g)
    BY Zenon DEF CommitNext, Agrees
  <1>3. g = latest_generation[p]
    <2>1. ~(g < latest_generation[p])
      BY Zenon DEF CommitNext, Superseded
    <2>2. g =< latest_generation[p]
      BY Zenon, <1>2 DEF AccountedIsCovered
    <2> QED
      BY <2>1, <2>2
  <1>4. \A q \in Partitions : \A h : HasRecord(q, h)' <=> HasRecord(q, h)
    BY Zenon, <1>1 DEF HasRecord
  <1>now. \A q \in Partitions :
            /\ HasRecord(q, latest_generation[q])' <=> HasRecord(q, latest_generation[q])
            /\ HasRecord(q, latest_generation[q]) =>
                   Consumed(q, latest_generation[q])' =
                       Consumed(q, latest_generation[q]) \cup (IF q = p THEN {c} ELSE {})
    <2> SUFFICES ASSUME NEW q \in Partitions
                 PROVE  /\ HasRecord(q, latest_generation[q])' <=>
                               HasRecord(q, latest_generation[q])
                        /\ HasRecord(q, latest_generation[q]) =>
                               Consumed(q, latest_generation[q])' =
                                   Consumed(q, latest_generation[q])
                                       \cup (IF q = p THEN {c} ELSE {})
      BY Zenon
    <2>1. /\ HasRecord(q, latest_generation[q])' <=> HasRecord(q, latest_generation[q])
          /\ HasRecord(q, latest_generation[q]) => latest_generation[q] \in Generations
          /\ latest_generation' = latest_generation
      BY Zenon, <1>1 DEF HasRecord
    <2>2. \A h \in Generations : Consumed(q, h)' =
              Consumed(q, h) \cup (IF q = p /\ h = g THEN {c} ELSE {})
      BY NextConsumer
    <2>3. Consumed(q, latest_generation[q])' =
              completed_consumers'[partition_key(q, latest_generation[q])]
      BY Zenon, <2>1 DEF Consumed
    <2>4. HasRecord(q, latest_generation[q]) =>
              Consumed(q, latest_generation[q])' =
                  Consumed(q, latest_generation[q])
                      \cup (IF q = p /\ latest_generation[q] = g THEN {c} ELSE {})
      BY Zenon, <2>1, <2>2, <2>3 DEF Consumed
    <2> QED
      BY Zenon, <1>3, <2>1, <2>4
  <1>5. Completed' = [Completed EXCEPT ![p] = Completed[p] \cup {c}] /\ c \notin Completed[p]
    <2>1. \A q \in Partitions : CompletedIn(q)' =
              IF q = p THEN CompletedIn(p) \cup {c} ELSE CompletedIn(q)
      <3>1. HasRecord(p, latest_generation[p])
        BY <1>2, <1>3
      <3> QED
        BY Zenon, <1>now, <3>1, FoundIsCurrent
    <2>2. c \notin CompletedIn(p)
      BY <1>1, <1>3, FoundIsCurrent
    <2> QED
      BY Zenon, <2>1, <2>2 DEF Completed
  <1>6. Plus(completed_edges', overdrawn') = Cardinality(CurrentEdges')
    <2> DEFINE S == Completed[p] \cup {c}
    <2>1. /\ Plus(completed_edges, overdrawn) = Cardinality(CurrentEdges)
          /\ completed_edges \in Nat /\ overdrawn \in Nat
          /\ completed_edges < Word /\ overdrawn < Word
      BY Zenon DEF CountersExact, TypeOK, OwnRecords
    <2>2. Completed[p] \in SUBSET Consumers
      BY CurrentEdgesDone
    <2>3. S \in SUBSET Consumers /\ Cardinality(S) = Cardinality(Completed[p]) + 1
      BY <1>5, <2>2, ConsumerSets, FS_AddElement
    <2> HIDE DEF S
    <2>4. Completed' = [Completed EXCEPT ![p] = S]
      BY <1>5 DEF S
    <2>5. /\ Cardinality(Completed[p]) \in Nat /\ Cardinality(CurrentEdges) \in Nat
          /\ Cardinality(CurrentEdges') < Word
          /\ Cardinality(CurrentEdges') =
                 Cardinality(CurrentEdges) - Cardinality(Completed[p]) + Cardinality(S)
      BY Zenon, <2>3, <2>4, CompletionsCounted
    <2>6. Plus(completed_edges, overdrawn) + 1 = Cardinality(CurrentEdges')
      BY <2>1, <2>3, <2>5
    <2>7. Plus(Plus(completed_edges, 1), overdrawn) = Cardinality(CurrentEdges')
      BY <2>1, <2>5, <2>6, AddOne
    <2> QED
      BY Zenon, <1>1, <2>7
  <1>7. /\ CurrentRecords' = CurrentRecords
        /\ CurrentPermanent' = CurrentPermanent
        /\ \A q \in Partitions : PermanentOf(q)' = PermanentOf(q)
    BY Zenon, <1>1, <1>4 DEF CurrentRecords, Current, CurrentPermanent, PermanentOf
  <1>8. UnservedPartitions' = UnservedPartitions
    BY <1>4, <1>7 DEF UnservedPartitions
  <1> QED
    BY ZenonT(30), <1>1, <1>6, <1>7, <1>8 DEF CountersExact

LEMMA ExactRecordFailure ==
    ASSUME TypeOK, FailuresApart, CountersExact,
           NEW e \in Edges, NEW outcome \in Outcomes, RecordFailure(e, outcome)
    PROVE  CountersExact'
  <1> USE NaturalGenerations
  <1> DEFINE p == e[1]
             counted == e[2] >= latest_generation[p] /\ outcome \in Permanent
             recorded == {d \in Edges : failures[d] # "none"}
  <1>0. p \in Partitions /\ e[2] \in Generations
    BY DEF Edges
  <1>1. /\ UNCHANGED <<latest_generation, partitions, completed_consumers, completed_edges,
                       committed_partitions, overdrawn>>
        /\ failures[e] \notin Permanent
        /\ failures' = [failures EXCEPT ![e] = outcome]
        /\ permanent_failures' = IF counted THEN permanent_failures + 1 ELSE permanent_failures
        /\ current_permanent_failures' =
               IF counted THEN [current_permanent_failures EXCEPT
                                   ![p] = current_permanent_failures[p] + 1]
                          ELSE current_permanent_failures
        /\ failed_partitions' = IF counted /\ ~HasRecord(p, e[2])
                                THEN failed_partitions \cup {p} ELSE failed_partitions
        /\ failure_records' = IF failures[e] # "none" THEN failure_records
                                                      ELSE failure_records + 1
    BY DEF RecordFailure, commitVars, historyVars, Unresolved
  <1>2. \A q \in Partitions : \A h : HasRecord(q, h)' <=> HasRecord(q, h)
    BY Zenon, <1>1 DEF HasRecord
  <1>3. CurrentEdges' = CurrentEdges /\ CurrentRecords' = CurrentRecords
    BY Zenon, <1>1, <1>2 DEF CurrentEdges, CurrentRecords, CompletedIn, Current, Consumed
  <1>4. \A d \in Edges : failures'[d] = IF d = e THEN outcome ELSE failures[d]
    BY <1>1 DEF TypeOK
  <1>5. /\ CurrentPermanent' = IF counted THEN CurrentPermanent \cup {e} ELSE CurrentPermanent
        /\ e \notin CurrentPermanent
    BY <1>1, <1>4 DEF CurrentPermanent
  <1>6. \A q \in Partitions : PermanentOf(q)' =
            IF counted /\ q = p THEN PermanentOf(q) \cup {e} ELSE PermanentOf(q)
    BY <1>5 DEF PermanentOf
  <1>7. /\ IsFiniteSet(CurrentPermanent)
        /\ \A q \in Partitions : IsFiniteSet(PermanentOf(q))
        /\ IsFiniteSet(recorded)
    BY EdgesFinite, FS_Subset DEF CurrentPermanent, PermanentOf
  <1>8. /\ permanent_failures = Cardinality(CurrentPermanent)
        /\ \A q \in Partitions : current_permanent_failures[q] = Cardinality(PermanentOf(q))
        /\ current_permanent_failures \in [Partitions -> Nat]
        /\ failed_partitions = UnservedPartitions
        /\ failure_records = Cardinality(recorded)
        /\ Plus(completed_edges, overdrawn) = Cardinality(CurrentEdges)
        /\ committed_partitions = Cardinality(CurrentRecords)
    BY DEF CountersExact, TypeOK
  <1>9. failure_records' = Cardinality({d \in Edges : failures'[d] # "none"})
    <2>1. {d \in Edges : failures'[d] # "none"} = recorded \cup {e}
      BY <1>4, LedgerAssumption
    <2>2. Cardinality(recorded \cup {e}) =
              IF e \in recorded THEN Cardinality(recorded) ELSE Cardinality(recorded) + 1
      BY Zenon, <1>7, FS_AddElement
    <2>3. e \in recorded <=> failures[e] # "none"
      OBVIOUS
    <2> HIDE DEF recorded
    <2> QED
      BY ZenonT(30), <1>1, <1>8, <2>1, <2>2, <2>3
  <1> HIDE DEF counted, p, recorded
  <1>10. permanent_failures' = Cardinality(CurrentPermanent')
    <2>1. Cardinality(CurrentPermanent \cup {e}) = Cardinality(CurrentPermanent) + 1
      BY Zenon, <1>5, <1>7, FS_AddElement
    <2> QED
      BY <1>1, <1>5, <1>8, <2>1
  <1>11. ASSUME NEW q \in Partitions
         PROVE  current_permanent_failures'[q] = Cardinality(PermanentOf(q)')
    <2>1. e \notin PermanentOf(q)
      BY <1>5 DEF PermanentOf
    <2>2. Cardinality(PermanentOf(q) \cup {e}) = Cardinality(PermanentOf(q)) + 1
      BY Zenon, <1>7, <2>1, FS_AddElement
    <2> QED
      BY Zenon, <1>0, <1>1, <1>6, <1>8, <2>2
  <1>12. failed_partitions' = UnservedPartitions'
    <2>1. ASSUME NEW q \in Partitions
          PROVE  q \in UnservedPartitions' <=>
                     q \in UnservedPartitions \/ (counted /\ q = p /\ ~HasRecord(p, e[2]))
      BY <1>2, <1>6 DEF UnservedPartitions
    <2>2. UnservedPartitions \subseteq Partitions /\ UnservedPartitions' \subseteq Partitions
      BY DEF UnservedPartitions
    <2> QED
      BY <1>0, <1>1, <1>8, <2>1, <2>2
  <1> QED
    BY Zenon, <1>1, <1>3, <1>8, <1>9, <1>10, <1>11, <1>12 DEF CountersExact

LEMMA ExactReload ==
    ASSUME TypeOK, OwnRecords', CountersExact, Reload
    PROVE  CountersExact'
  <1>1. UNCHANGED <<latest_generation, partitions, completed_consumers, failures>>
    BY DEF Reload
  <1>2. \A q \in Partitions : \A h : HasRecord(q, h)' <=> HasRecord(q, h)
    BY <1>1 DEF HasRecord
  <1>3. /\ CurrentEdges' = CurrentEdges /\ CurrentRecords' = CurrentRecords
        /\ CurrentPermanent' = CurrentPermanent
        /\ \A q \in Partitions : PermanentOf(q)' = PermanentOf(q)
    BY Zenon, <1>1, <1>2 DEF CurrentEdges, CurrentRecords, CompletedIn, Current,
       Consumed, CurrentPermanent, PermanentOf
  <1>4. UnservedPartitions' = UnservedPartitions
    BY <1>2, <1>3 DEF UnservedPartitions
  <1>5. Plus(completed_edges', overdrawn') = completed_edges'
    <2>1. completed_edges' \in Nat /\ completed_edges' < Word /\ overdrawn' = 0
      <3>1. TypeOK'
        BY TypeReload
      <3>2. completed_edges' \in Nat
        BY <3>1 DEF TypeOK
      <3>3. completed_edges' < Word /\ overdrawn' = 0
        BY Zenon DEF OwnRecords, Reload
      <3> QED
        BY <3>2, <3>3
    <2>2. \A n \in Nat : n < Word => Plus(n, 0) = n
      BY LedgerAssumption DEF Plus
    <2> QED
      BY Zenon, <2>1, <2>2
  <1> QED
    BY <1>1, <1>3, <1>4, <1>5 DEF CountersExact, Reload

LEMMA ExactNext ==
    ASSUME KeysDistinct, TypeOK, AccountedIsCovered, FailuresApart, OwnRecords,
           OwnRecords', CountersExact, [Next]_vars
    PROVE  CountersExact'
  <1>1. ASSUME UNCHANGED <<latest_generation, partitions, completed_consumers,
                   completed_edges, committed_partitions, overdrawn, failureVars>>
        PROVE  CountersExact'
    <2>1. \A q \in Partitions : \A h : HasRecord(q, h)' <=> HasRecord(q, h)
      BY <1>1 DEF HasRecord
    <2>2. failures' = failures
      BY <1>1 DEF failureVars
    <2>3. /\ CurrentEdges' = CurrentEdges /\ CurrentRecords' = CurrentRecords
          /\ CurrentPermanent' = CurrentPermanent
          /\ \A q \in Partitions : PermanentOf(q)' = PermanentOf(q)
      BY Zenon, <1>1, <2>1, <2>2 DEF CurrentEdges, CurrentRecords, CompletedIn, Current, Consumed,
         CurrentPermanent, PermanentOf
    <2>4. UnservedPartitions' = UnservedPartitions
      BY <2>1, <2>3 DEF UnservedPartitions
    <2> QED
      BY <1>1, <2>3, <2>4 DEF CountersExact, failureVars
  <1>2. ASSUME NEW p \in Partitions, NEW g \in Generations, NEW c \in Consumers,
               NEW claim \in Claims, CommitDuplicate(p, g, c, claim)
        PROVE  CountersExact'
    BY <1>1, <1>2 DEF CommitDuplicate, historyVars
  <1>3. CASE UNCHANGED vars
    BY <1>1, <1>3 DEF vars, commitVars, historyVars
  <1> QED
    BY <1>2, <1>3, ExactCommitFirst, ExactCommitNext, ExactRetire, ExactRecordFailure,
       ExactReload DEF Next

LEMMA CountedInit == Init => FailuresApart /\ OwnRecords /\ CountersExact
  <1> SUFFICES ASSUME Init PROVE FailuresApart /\ OwnRecords /\ CountersExact
    OBVIOUS
  <1>1. \A e \in Edges : failures[e] = "none" /\ failures[e] \notin Permanent
    BY DEF Init, Permanent
  <1>2. \A p \in Partitions : \A g : ~HasRecord(p, g)
    BY KeyOfPair DEF Init, HasRecord
  <1>3. /\ CurrentEdges = {} /\ CurrentRecords = {} /\ CurrentPermanent = {}
        /\ \A p \in Partitions : PermanentOf(p) = {}
        /\ {e \in Edges : failures[e] # "none"} = {}
    BY Zenon, <1>1, <1>2 DEF CurrentEdges, CurrentRecords, CompletedIn, Current,
       Consumed, CurrentPermanent, PermanentOf
  <1>4. UnservedPartitions = {}
    BY <1>3 DEF UnservedPartitions
  <1>5. Cardinality({}) = 0
    BY FS_EmptySet
  <1> QED
    <2>1. 0 < Word /\ Plus(0, 0) = 0
      BY <1>5, ConsumerSets, LedgerAssumption DEF Plus
    <2> QED
      BY Zenon, <1>1, <1>2, <1>3, <1>4, <1>5, <2>1 DEF Init, FailuresApart, OwnRecords,
         CountersExact

LEMMA Apart == KeysDistinct => (Spec => [](AccountedIsCovered /\ FailuresApart /\ OwnRecords))
  <1> SUFFICES ASSUME KeysDistinct
               PROVE  Spec => [](AccountedIsCovered /\ FailuresApart /\ OwnRecords)
    OBVIOUS
  <1> QED
    BY CoveredInit, CountedInit, TypeCorrect, CoveredNext, ApartNext, OwnNext, PTL DEF Spec

\* The counters the ledger adjusts call by call are what decode() computes from
\* the records, but for the edges retention has taken off completed_edges_ twice,
\* as long as the generations are below 2^16.
THEOREM Counters == SmallGenerations => (Spec => []CountersExact)
  <1> SUFFICES ASSUME SmallGenerations PROVE Spec => []CountersExact
    OBVIOUS
  <1>1. KeysDistinct
    BY SmallKeys
  <1> QED
    BY <1>1, CountedInit, TypeCorrect, Apart, ExactNext, PTL DEF Spec

\* No edge of a partition is counted both as completed and as permanently failed,
\* as long as the generations are below 2^16.
THEOREM Resolved == SmallGenerations => (Spec => []ResolvedOnce)
  <1> SUFFICES ASSUME SmallGenerations PROVE Spec => []ResolvedOnce
    OBVIOUS
  <1>keys. KeysDistinct
    BY SmallKeys
  <1>1. ASSUME TypeOK, FailuresApart, OwnRecords, CountersExact
        PROVE  ResolvedOnce
    <2> SUFFICES ASSUME NEW p \in Partitions
                 PROVE  Cardinality(CompletedIn(p)) + current_permanent_failures[p]
                            =< Cardinality(Consumers)
      BY DEF ResolvedOnce
    <2> DEFINE consumer == [e \in PermanentOf(p) |-> e[3]]
               failed == {e[3] : e \in PermanentOf(p)}
               done == CompletedIn(p)
    <2>2. ASSUME NEW e \in PermanentOf(p)
          PROVE  /\ e = <<p, latest_generation[p], e[3]>> /\ e[3] \in Consumers
                 /\ e[3] \notin Consumed(p, latest_generation[p])
      <3>1. /\ e \in Edges /\ failures[e] \in Permanent /\ failures[e] # "none"
            /\ e[1] = p /\ e[2] >= latest_generation[p]
        BY DEF PermanentOf, CurrentPermanent, Permanent
      <3>2. e[3] \in Consumers /\ e[2] \in Generations /\ e = <<e[1], e[2], e[3]>>
        BY <3>1 DEF Edges
      <3>3. /\ e[2] =< latest_generation[p]
            /\ e[3] \notin Consumed(p, e[2])
        BY <1>1, <3>1 DEF FailuresApart
      <3>4. e[2] \in Nat /\ latest_generation[p] \in Nat
        BY <1>1, <3>2, NaturalGenerations
      <3>5. e[2] = latest_generation[p]
        BY <3>1, <3>3, <3>4
      <3> QED
        BY <3>1, <3>2, <3>3, <3>5
    <2>3. consumer \in Bijection(PermanentOf(p), failed)
      <3>1. consumer \in [PermanentOf(p) -> failed]
        OBVIOUS
      <3>2. \A d, e \in PermanentOf(p) : consumer[d] = consumer[e] => d = e
        BY <2>2
      <3>3. \A k \in failed : \E e \in PermanentOf(p) : consumer[e] = k
        OBVIOUS
      <3> QED
        BY Zenon, <3>1, <3>2, <3>3 DEF Bijection, Injection, Surjection, IsInjective
    <2>4. IsFiniteSet(PermanentOf(p))
      BY EdgesFinite, FS_Subset DEF CurrentPermanent, PermanentOf
    <2>5. IsFiniteSet(failed) /\ Cardinality(failed) = Cardinality(PermanentOf(p))
      BY <2>3, <2>4, FS_Bijection DEF ExistsBijection
    <2>6. done \in SUBSET Consumers /\ failed \in SUBSET Consumers
      <3>1. Completed \in [Partitions -> SUBSET Consumers]
        BY <1>1, CurrentEdgesDone
      <3> QED
        BY <2>2, <3>1 DEF Completed
    <2>7. done \cap failed = {}
      <3>1. done \subseteq Consumed(p, latest_generation[p])
        BY DEF CompletedIn
      <3> QED
        BY <2>2, <3>1
    <2> HIDE DEF failed, consumer, done
    <2>8. IsFiniteSet(done) /\ Cardinality(done) \in Nat
      BY <2>6, ConsumerSets
    <2>9. Cardinality(done \cup failed) =
              Cardinality(done) + Cardinality(failed) - Cardinality({})
      BY <2>5, <2>7, <2>8, FS_Union
    <2>10. Cardinality(done \cup failed) =< Cardinality(Consumers)
      <3>1. done \cup failed \in SUBSET Consumers
        BY <2>6
      <3> QED
        BY <3>1, FS_Subset, LedgerAssumption
    <2>11. /\ current_permanent_failures[p] = Cardinality(PermanentOf(p))
           /\ current_permanent_failures[p] \in Nat
      BY <1>1 DEF CountersExact, TypeOK
    <2> QED
      BY <2>5, <2>8, <2>9, <2>10, <2>11, FS_EmptySet DEF done
  <1> QED
    BY <1>keys, <1>1, TypeCorrect, Apart, Counters, PTL

=============================================================================
