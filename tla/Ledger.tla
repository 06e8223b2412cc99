------------------------------- MODULE Ledger -------------------------------
(***************************************************************************)
(* The exactly-once completion ledger (src/ledger.cpp) under every order of *)
(* calls its owner can make: completions of the current or of a newer       *)
(* generation, re-productions, failure reports, and restarts from a         *)
(* snapshot.  A call the ledger refuses changes nothing, so a refusal is a  *)
(* stuttering step.  The variables are the members of CompletionLedger.     *)
(*                                                                          *)
(* Data abstractions.  A claim stands for all that the commits of one       *)
(* partition generation must agree on: manifest digest, producer, producer  *)
(* incarnation and byte count.  A failure record keeps what the ledger      *)
(* counts by: retriable, permanent, or an (always permanent) authority      *)
(* refusal.  retained_keys lists the generations of a partition where the   *)
(* code lists their keys, which say the same: for one partition no two      *)
(* generations share a key.  Reported ticks and sequence numbers are left   *)
(* out, and so are requests that are malformed whatever the state (zero     *)
(* bytes, no digest, no integrity evidence, a partition out of range),      *)
(* which are refused.                                                       *)
(***************************************************************************)
EXTENDS Integers, Sequences, FiniteSets

CONSTANTS
    Partitions,           \* the partitions of the shuffle, numbered
    Generations,          \* partition generations, non-zero
    KeySpan,              \* 2^16 in the code: partition_key shifts by 16 bits
    Consumers,
    Claims,               \* what a commit says about a partition generation
    BytesOf,              \* the byte count a claim declares
    NoRecord,             \* no entry in partitions_
    Outcomes,             \* the kinds of failure that are reported
    Word,                 \* 2^64 in the code: the counters are std::uint64_t
    MaxTrackedPartitions, \* Limits::max_tracked_partitions
    MaxTrackedEdges,      \* Limits::max_tracked_edges
    MaxRetained,          \* Limits::max_retained_generations
    MaxDuplicates,        \* bound of the model: suppressed duplicates
    MaxRestarts           \* bound of the model: restarts

ASSUME LedgerAssumption ==
    /\ IsFiniteSet(Partitions) /\ Partitions \subseteq Nat /\ IsFiniteSet(Consumers)
    /\ IsFiniteSet(Generations) /\ Generations \subseteq Nat \ {0}
    /\ KeySpan \in Nat \ {0}
    /\ BytesOf \in [Claims -> Nat \ {0}]
    /\ Outcomes \subseteq {"retriable", "permanent", "authority"}
    /\ MaxTrackedPartitions \in Nat /\ MaxTrackedEdges \in Nat
    /\ MaxRetained \in Nat \ {0}          \* Limits::validate
    /\ Word \in Nat
    /\ Cardinality(Consumers) < Word      \* identifiers are 64-bit, non-zero
    /\ MaxDuplicates \in Nat /\ MaxRestarts \in Nat

ASSUME NoRecordAssumption ==
    NoRecord \notin [anchor : Partitions \X Generations, claim : Claims]

\* Limits::max_partitions and max_participants are 32-bit counts.
ASSUME EdgeCountAssumption ==
    Cardinality(Partitions) * Cardinality(Consumers) < Word

VARIABLES
    latest_generation,          \* 0 stands for "no entry"
    partitions,                 \* the commit record under each key
    completed_consumers,        \* the consumers each commit record lists
    retained_keys,              \* recorded generations in retention order
    failures,                   \* the failure record of each edge
    completed_edges, committed_partitions, failure_records, bytes_committed,
    duplicate_commits, retriable_failures, permanent_failures,
    current_permanent_failures, \* permanent_failures by partition
    failed_partitions, authority_refusals,
    accounted,   \* history: <<partition, generation, claim>> whose bytes were added
    overdrawn,   \* history: edges of retired records that retention took off again
    restarts

commitVars == <<latest_generation, partitions, completed_consumers, retained_keys,
                completed_edges, committed_partitions, bytes_committed, duplicate_commits>>
failureVars == <<failures, failure_records, retriable_failures, permanent_failures,
                 current_permanent_failures, failed_partitions, authority_refusals>>
historyVars == <<accounted, overdrawn, restarts>>
vars == <<commitVars, failureVars, historyVars>>

Edges == Partitions \X Generations \X Consumers
Permanent == {"permanent", "authority"}

\* Unsigned arithmetic, and the saturating subtractions of the code.
Plus(a, b) == IF a + b >= Word THEN a + b - Word ELSE a + b
Minus(a, b) == IF a >= b THEN a - b ELSE a + Word - b
Saturating(a, b) == IF a >= b THEN a - b ELSE 0

\* The bitwise exclusive or of two naturals.
Bit(a, i) == (a \div 2^i) % 2
Xor(a, b) ==
    IF b = 0 THEN a
    ELSE CHOOSE x \in 0 .. a + b :
             \A i \in 0 .. a + b : Bit(x, i) = (Bit(a, i) + Bit(b, i)) % 2

\* The index of partitions_: (partition << 16) ^ generation.  A generation of
\* 2^16 or more reaches into the bits of the partition, and its record shares
\* the key of another partition's.
partition_key(p, g) == Xor(p, g \div KeySpan) * KeySpan + (g % KeySpan)
SmallGenerations == \A g \in Generations : g < KeySpan
Keys == {partition_key(p, g) : p \in Partitions, g \in Generations}
CommitRecords == [anchor : Partitions \X Generations, claim : Claims]

Init ==
    /\ latest_generation = [p \in Partitions |-> 0]
    /\ partitions = [k \in Keys |-> NoRecord]
    /\ completed_consumers = [k \in Keys |-> {}]
    /\ retained_keys = [p \in Partitions |-> << >>]
    /\ failures = [e \in Edges |-> "none"]
    /\ completed_edges = 0 /\ committed_partitions = 0 /\ failure_records = 0
    /\ bytes_committed = 0 /\ duplicate_commits = 0
    /\ retriable_failures = 0 /\ permanent_failures = 0 /\ authority_refusals = 0
    /\ current_permanent_failures = [p \in Partitions |-> 0]
    /\ failed_partitions = {}
    /\ accounted = {} /\ overdrawn = 0 /\ restarts = 0

\* partitions_.find(partition_key(p, g)), and the consumers of the record found.
HasRecord(p, g) == g \in Generations /\ partitions[partition_key(p, g)] # NoRecord
Consumed(p, g) == completed_consumers[partition_key(p, g)]
Records == {k \in Keys : partitions[k] # NoRecord}
RoomForEdge == Plus(Plus(completed_edges, failure_records), 1) =< MaxTrackedEdges

\* A transfer attempt is granted for an unresolved edge only, and the owner of
\* the ledger takes completions and failures from granted attempts only: an edge
\* that was resolved as failed neither completes nor fails again.
Unresolved(e) == failures[e] \notin Permanent

----------------------------------------------------------------------------
(***************************************************************************)
(* A partition that moves to a newer generation drops the completions and   *)
(* permanent failures of the previous one from the current edge set: the    *)
(* same code in commit() and in retire_generation().                        *)
(***************************************************************************)
RetiredEdgesKept(p) == 0                    \* mutant: completed_edges_ not reduced
RetiredEdges(p) ==
    IF HasRecord(p, latest_generation[p])
    THEN Cardinality(Consumed(p, latest_generation[p])) ELSE 0

RetiredRecordsKept(p) == 0                  \* mutant: committed_partitions_ not reduced
RetiredRecords(p) ==
    IF HasRecord(p, latest_generation[p]) /\ committed_partitions > 0 THEN 1 ELSE 0

FailuresCarried(p) == current_permanent_failures   \* mutant: the count not reset
FailuresReset(p) == [current_permanent_failures EXCEPT ![p] = 0]

RetireFailures(p) ==
    /\ IF latest_generation[p] = 0
       THEN UNCHANGED <<permanent_failures, current_permanent_failures>>
       ELSE /\ permanent_failures' =
                   Saturating(permanent_failures, current_permanent_failures[p])
            /\ current_permanent_failures' = FailuresReset(p)
    /\ failed_partitions' = failed_partitions \ {p}
    /\ UNCHANGED <<failures, failure_records, retriable_failures, authority_refusals>>

\* retire_generation(): called for every accepted manifest.
RetireGeneration(p, g) ==
    /\ g > latest_generation[p]
    /\ latest_generation' = [latest_generation EXCEPT ![p] = g]
    /\ completed_edges' = Minus(completed_edges, RetiredEdges(p))
    /\ committed_partitions' = committed_partitions - RetiredRecords(p)
    /\ RetireFailures(p)
    /\ UNCHANGED <<partitions, completed_consumers, retained_keys, bytes_committed,
                   duplicate_commits, historyVars>>

\* The retention loop at the end of commit() runs after every insertion, so it
\* removes at most one record: the oldest, when the limit was already reached.
AtRetention(p) == Len(retained_keys[p]) >= MaxRetained
PurgedEdges(p) ==
    IF AtRetention(p) /\ HasRecord(p, Head(retained_keys[p]))
    THEN Cardinality(Consumed(p, Head(retained_keys[p]))) ELSE 0
WithoutOldest(f, p, empty) ==
    IF AtRetention(p) THEN [f EXCEPT ![partition_key(p, Head(retained_keys[p]))] = empty]
                      ELSE f

\* validate_commit(): a generation below the watermark is superseded.
NeverSuperseded(p, g) == FALSE                          \* mutant: no such check
Superseded(p, g) == g < latest_generation[p]

\* commit() of the first completion of a partition generation.
CommitFirst(p, g, c, claim) ==
    LET newer == g > latest_generation[p]
        edges == IF newer THEN Minus(completed_edges, RetiredEdges(p)) ELSE completed_edges
        kept  == Append(retained_keys[p], g)
    IN  /\ Unresolved(<<p, g, c>>)
        /\ ~Superseded(p, g)
        /\ ~HasRecord(p, g)
        /\ Cardinality(Records) < MaxTrackedPartitions
        /\ RoomForEdge
        /\ latest_generation' = [latest_generation EXCEPT ![p] = IF newer THEN g ELSE @]
        /\ completed_edges' = Minus(Plus(edges, 1), PurgedEdges(p))
        /\ committed_partitions' =
               (IF newer THEN committed_partitions - RetiredRecords(p)
                         ELSE committed_partitions) + 1
        /\ bytes_committed' = bytes_committed + BytesOf[claim]
        /\ partitions' = [WithoutOldest(partitions, p, NoRecord) EXCEPT
               ![partition_key(p, g)] = [anchor |-> <<p, g>>, claim |-> claim]]
        /\ completed_consumers' = [WithoutOldest(completed_consumers, p, {}) EXCEPT
               ![partition_key(p, g)] = {c}]
        /\ retained_keys' = [retained_keys EXCEPT
               ![p] = IF AtRetention(p) THEN Tail(kept) ELSE kept]
        /\ IF newer THEN RetireFailures(p)
           ELSE /\ failed_partitions' = failed_partitions \ {p}
                /\ UNCHANGED <<failures, failure_records, retriable_failures,
                       permanent_failures, current_permanent_failures, authority_refusals>>
        /\ accounted' = accounted \cup {<<p, g, claim>>}
        /\ overdrawn' = Plus(overdrawn, PurgedEdges(p))
        /\ UNCHANGED <<duplicate_commits, restarts>>

\* The consumer list of a record, with one more consumer.
OnlyConsumer(p, g, c) ==                                \* mutant: assigned, not inserted
    [completed_consumers EXCEPT ![partition_key(p, g)] = {c}]
WithConsumer(p, g, c) ==
    [completed_consumers EXCEPT ![partition_key(p, g)] = @ \cup {c}]

\* validate_commit(): a request must agree with the record that is found.
Agrees(p, g, claim) ==
    HasRecord(p, g) /\ partitions[partition_key(p, g)].claim = claim

\* commit() by another consumer of a generation that is already recorded.
CommitNext(p, g, c, claim) ==
    /\ Unresolved(<<p, g, c>>)
    /\ ~Superseded(p, g)
    /\ Agrees(p, g, claim)
    /\ c \notin Consumed(p, g)
    /\ RoomForEdge
    /\ completed_consumers' = WithConsumer(p, g, c)
    /\ completed_edges' = Plus(completed_edges, 1)
    /\ UNCHANGED <<latest_generation, partitions, retained_keys, committed_partitions,
                   bytes_committed, duplicate_commits, failureVars, historyVars>>

\* commit() of a completion the record already lists.
CommitDuplicate(p, g, c, claim) ==
    /\ duplicate_commits < MaxDuplicates
    /\ ~Superseded(p, g)
    /\ Agrees(p, g, claim)
    /\ c \in Consumed(p, g)
    /\ duplicate_commits' = duplicate_commits + 1
    /\ UNCHANGED <<latest_generation, partitions, completed_consumers, retained_keys,
                   completed_edges, committed_partitions, bytes_committed,
                   failureVars, historyVars>>

----------------------------------------------------------------------------
\* record_failure() for an attempt on a produced generation, which may have been
\* superseded in the meantime.
RecordFailure(e, outcome) ==
    LET p == e[1]
        current == e[2] >= latest_generation[p]
        known == failures[e] # "none"
        permanent == outcome \in Permanent
        counted == current /\ permanent
    IN  /\ Unresolved(e)
        /\ e[2] =< latest_generation[p]
        /\ e[3] \notin Consumed(p, e[2])
        /\ known \/ RoomForEdge
        /\ failures' = [failures EXCEPT ![e] = outcome]
        /\ failure_records' = IF known THEN failure_records ELSE failure_records + 1
        /\ permanent_failures' =
               IF counted THEN permanent_failures + 1 ELSE permanent_failures
        /\ current_permanent_failures' =
               IF counted THEN [current_permanent_failures EXCEPT ![p] = @ + 1]
                          ELSE current_permanent_failures
        /\ failed_partitions' = IF counted /\ ~HasRecord(p, e[2])
                                THEN failed_partitions \cup {p} ELSE failed_partitions
        /\ retriable_failures' =
               IF ~known /\ ~permanent THEN retriable_failures + 1
               ELSE IF known /\ counted THEN Saturating(retriable_failures, 1)
               ELSE retriable_failures
        /\ authority_refusals' =
               IF outcome = "authority" THEN authority_refusals + 1 ELSE authority_refusals
        /\ UNCHANGED <<commitVars, historyVars>>

----------------------------------------------------------------------------
(***************************************************************************)
(* The current edge set, as decode() defines it from the records alone: a   *)
(* record counts when its anchor is the latest generation of its partition. *)
(***************************************************************************)
Current(p) ==
    /\ HasRecord(p, latest_generation[p])
    /\ partitions[partition_key(p, latest_generation[p])].anchor = <<p, latest_generation[p]>>
CompletedIn(p) == IF Current(p) THEN Consumed(p, latest_generation[p]) ELSE {}
CurrentEdges == {k \in Partitions \X Consumers : k[2] \in CompletedIn(k[1])}
CurrentRecords == {p \in Partitions : Current(p)}
CurrentPermanent == {e \in Edges : /\ failures[e] \in Permanent
                                   /\ e[2] >= latest_generation[e[1]]}
PermanentOf(p) == {e \in CurrentPermanent : e[1] = p}
UnservedPartitions == {p \in Partitions : \E e \in PermanentOf(p) : ~HasRecord(p, e[2])}

\* A snapshot holds the ledger as encode() writes it, and a new process reads it
\* with decode(): records and cumulative counters survive, the counters of the
\* current edge set are recomputed, and the retention order is not stored.
Reload ==
    /\ restarts < MaxRestarts
    /\ completed_edges' = Cardinality(CurrentEdges)
    /\ committed_partitions' = Cardinality(CurrentRecords)
    /\ permanent_failures' = Cardinality(CurrentPermanent)
    /\ current_permanent_failures' = [p \in Partitions |-> Cardinality(PermanentOf(p))]
    /\ failed_partitions' = UnservedPartitions
    /\ failure_records' = Cardinality({e \in Edges : failures[e] # "none"})
    /\ retained_keys' = [p \in Partitions |-> << >>]
    /\ overdrawn' = 0
    /\ restarts' = restarts + 1
    /\ UNCHANGED <<latest_generation, partitions, completed_consumers, bytes_committed,
                   duplicate_commits, failures, retriable_failures, authority_refusals,
                   accounted>>

Next ==
    \/ \E p \in Partitions, g \in Generations, c \in Consumers, claim \in Claims :
           \/ CommitFirst(p, g, c, claim)
           \/ CommitNext(p, g, c, claim)
           \/ CommitDuplicate(p, g, c, claim)
    \/ \E p \in Partitions, g \in Generations : RetireGeneration(p, g)
    \/ \E e \in Edges, outcome \in Outcomes : RecordFailure(e, outcome)
    \/ Reload

Spec == Init /\ [][Next]_vars

----------------------------------------------------------------------------
\* The types of the members.
TypeOK ==
    /\ latest_generation \in [Partitions -> Generations \cup {0}]
    /\ partitions \in [Keys -> CommitRecords \cup {NoRecord}]
    /\ completed_consumers \in [Keys -> SUBSET Consumers]
    /\ retained_keys \in [Partitions -> Seq(Generations)]
    /\ failures \in [Edges -> Outcomes \cup {"none"}]
    /\ completed_edges \in Nat /\ committed_partitions \in Nat
    /\ failure_records \in Nat /\ bytes_committed \in Nat
    /\ duplicate_commits \in Nat /\ retriable_failures \in Nat
    /\ permanent_failures \in Nat /\ authority_refusals \in Nat
    /\ current_permanent_failures \in [Partitions -> Nat]
    /\ failed_partitions \subseteq Partitions
    /\ accounted \subseteq Partitions \X Generations \X Claims
    /\ overdrawn \in Nat /\ restarts \in Nat

\* commit(): bytes are added only for a (partition, generation) that was never
\* accounted before, and exactly those of the claim that won.  Neither a
\* duplicate, nor another consumer, nor a generation whose record was purged,
\* nor a completion after a restart is counted again.
BytesCountedOnce ==
    [][bytes_committed' # bytes_committed =>
        \E p \in Partitions, g \in Generations, claim \in Claims :
            /\ \A x \in Claims : <<p, g, x>> \notin accounted
            /\ accounted' = accounted \cup {<<p, g, claim>>}
            /\ bytes_committed' = bytes_committed + BytesOf[claim]]_vars

\* Why a purged generation cannot be counted again: retention lists distinct,
\* recorded generations and takes the oldest away only when a newer one has been
\* recorded, so a generation whose bytes were counted is recorded as long as it
\* is current, and below the latest_generation_ watermark ever after.
AccountedIsCovered ==
    /\ \A p \in Partitions, g \in Generations :
           HasRecord(p, g) => g =< latest_generation[p]
    /\ \A p \in Partitions : \A i \in 1 .. Len(retained_keys[p]) :
           /\ HasRecord(p, retained_keys[p][i])
           /\ \A j \in 1 .. Len(retained_keys[p]) :
                  retained_keys[p][i] = retained_keys[p][j] => i = j
    /\ \A p \in Partitions, g \in Generations, claim \in Claims :
           <<p, g, claim>> \in accounted =>
               /\ g =< latest_generation[p]
               /\ g = latest_generation[p] => HasRecord(p, g)

\* An acknowledged completion of the generation that is current is never lost
\* and its claim never changes: no later commit, retention purge, failure report
\* or restart takes it back, and generations never move backwards.
CompletionsStand ==
    [][\A p \in Partitions :
        /\ latest_generation'[p] >= latest_generation[p]
        /\ \A g \in Generations :
            (HasRecord(p, g) /\ latest_generation'[p] = g) =>
                /\ partitions'[partition_key(p, g)] = partitions[partition_key(p, g)]
                /\ Consumed(p, g) \subseteq Consumed(p, g)']_vars

\* The incremental counters equal what decode() would compute from the records,
\* so a restart changes none of them, except that the retention loop of commit()
\* takes the edges of a purged record off completed_edges_ although they left it
\* when the generation was retired: the counter is short by exactly those edges,
\* modulo 2^64, until the next restart.
CountersExact ==
    /\ Plus(completed_edges, overdrawn) = Cardinality(CurrentEdges)
    /\ committed_partitions = Cardinality(CurrentRecords)
    /\ permanent_failures = Cardinality(CurrentPermanent)
    /\ \A p \in Partitions : current_permanent_failures[p] = Cardinality(PermanentOf(p))
    /\ failed_partitions = UnservedPartitions
    /\ failure_records = Cardinality({e \in Edges : failures[e] # "none"})

\* Completions and permanent failures never overlap on an edge: in every partition
\* the consumers that completed and the permanent failures that are counted are
\* together no more than its edges, whatever was retired, retried or reloaded, so
\* progress() never counts an edge over (accounting_closes, ledger.hpp).
ResolvedOnce ==
    \A p \in Partitions :
        Cardinality(CompletedIn(p)) + current_permanent_failures[p]
            =< Cardinality(Consumers)

\* The comment on current_permanent_failures_ in ledger.hpp: completions are
\* counted for the current generation of each partition only, which keeps
\* completed + failed + incomplete = required across a re-production.
CompletedEdgesExact == completed_edges = Cardinality(CurrentEdges)

\* The comment in partition_key: keys are "only for indexing; the typed values
\* remain the identity".  A record that is found for the current generation of a
\* partition is a record of that partition and generation.
FoundByIdentity ==
    \A p \in Partitions, g \in Generations :
        (g = latest_generation[p] /\ HasRecord(p, g)) =>
            partitions[partition_key(p, g)].anchor = <<p, g>>
=============================================================================
