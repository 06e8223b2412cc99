------------------------------- MODULE Host --------------------------------
(***************************************************************************)
(* The coordinator process (tools/shuffle-fabric-coordinator.cpp): its       *)
(* start, the coordinator's re-entrancy guard, and the sink that makes a    *)
(* record durable and then asks the coordinator for a snapshot.             *)
(*                                                                          *)
(* Every mutation is one guarded call: persist, and apply once persisted.    *)
(* The sink runs inside that call, between the append and the application,  *)
(* so the state it could snapshot lacks the record just appended; during    *)
(* recover() it is the empty coordinator that has adopted nothing yet.      *)
(* Files and their failures are DurableStore's; here the store is what it   *)
(* promises, a snapshot and the records after it.                           *)
(***************************************************************************)
EXTENDS Naturals, Sequences, FiniteSets, FiniteSetsExt

CONSTANTS
    CompactEvery,   \* --compact-every: appends between snapshots, 0 for none
    MaxRecords,     \* bound on the records before a request is taken
    MaxFailures     \* bound on failing appends and crashes

ASSUME HostAssumption == CompactEvery \in Nat /\ MaxRecords \in Nat /\ MaxFailures \in Nat

VARIABLES
    snapshot,   \* durable: the state the snapshot file holds, as the records that built it
    journal,    \* durable: the records after it
    phase,      \* how far main() is: "down", "recovering", "opening" or "serving"
    step,       \* where the guarded call is: "none", "persist", "compact" or "apply"
    record,     \* the record the call makes durable
    inside,     \* Coordinator::inside_ of the coordinator that main() owns
    state,      \* the records applied to that coordinator
    scratch,    \* the records applied to the coordinator recover() builds
    since,      \* StoreSink::since_compact_
    failures

vars == <<snapshot, journal, phase, step, record, inside, state, scratch, since, failures>>
call == <<step, record, inside>>

Epoch(n) == [kind |-> "epoch", epoch |-> n]
Opened == [kind |-> "open", epoch |-> 0]
Change == [kind |-> "change", epoch |-> 0]
NoRecord == [kind |-> "none", epoch |-> 0]

\* What reading the directory yields, and the epoch that applying records leaves.
Durable == snapshot \o journal
EpochOf(records) ==
    Max({0} \cup {records[i].epoch : i \in {j \in DOMAIN records : records[j].kind = "epoch"}})
IsOpen(records) == \E i \in DOMAIN records : records[i].kind = "open"

Init ==
    /\ snapshot = << >> /\ journal = << >>
    /\ phase = "down" /\ step = "none" /\ record = NoRecord /\ inside = FALSE
    /\ state = << >> /\ scratch = << >> /\ since = 0 /\ failures = 0

----------------------------------------------------------------------------
\* main(): the store is opened, sink and coordinator are built, and whatever the
\* directory holds is recovered first.
OpenStore ==
    /\ phase = "down"
    /\ phase' = IF Durable = << >> THEN "opening" ELSE "recovering"
    /\ state' = << >> /\ scratch' = << >> /\ since' = 0
    /\ UNCHANGED <<snapshot, journal, call, failures>>

\* A call enters the guard and encodes its record.
Enter(r) ==
    /\ step = "none" /\ ~inside
    /\ step' = "persist" /\ record' = r /\ inside' = TRUE
    /\ UNCHANGED <<snapshot, journal, phase, state, since, failures>>

\* recover(): the directory is replayed into a scratch coordinator, whose epoch record
\* goes through the sink of the coordinator that is still empty.
RecoverOutside ==                             \* mutant: the epoch of the empty coordinator
    phase = "recovering" /\ Enter(Epoch(EpochOf(state) + 1)) /\ scratch' = Durable
Recover == phase = "recovering" /\ Enter(Epoch(EpochOf(Durable) + 1)) /\ scratch' = Durable

\* open_shuffle(), called when the recovered state is Closed: an epoch record, then the
\* record that opens the shuffle, in one guarded call.
OpenFresh ==                                  \* mutant: only an empty directory is opened
    /\ phase = "opening" /\ state = << >> /\ Enter(Epoch(EpochOf(state) + 1))
    /\ UNCHANGED scratch
OpenShuffle ==
    /\ phase = "opening" /\ ~IsOpen(state) /\ Enter(Epoch(EpochOf(state) + 1))
    /\ UNCHANGED scratch

\* A request changes the state.
Request ==
    /\ phase = "serving" /\ Len(Durable) < MaxRecords /\ Enter(Change)
    /\ UNCHANGED scratch

\* The server starts once the shuffle is open.
Serve ==
    /\ phase = "opening" /\ step = "none" /\ IsOpen(state) /\ phase' = "serving"
    /\ UNCHANGED <<snapshot, journal, call, state, scratch, since, failures>>

----------------------------------------------------------------------------
\* StoreSink::persist(): the append, which counts toward the next snapshot.
Persist ==
    /\ step = "persist" /\ step' = "compact"
    /\ journal' = Append(journal, record)
    /\ since' = since + 1
    /\ UNCHANGED <<snapshot, phase, record, inside, state, scratch, failures>>

\* The append fails: the call is refused and nothing is applied; main() exits unless it
\* is already serving.  The store is taken to have cut its journal back, which
\* DurableStore.tla models; where even that fails (journal_degraded), the refused record
\* may be found by the next open, and every later append is refused until then.  That
\* case is not in this module.
PersistFails ==
    /\ step = "persist" /\ failures < MaxFailures /\ failures' = failures + 1
    /\ step' = "none" /\ record' = NoRecord /\ inside' = FALSE
    /\ phase' = IF phase = "serving" THEN phase ELSE "down"
    /\ UNCHANGED <<snapshot, journal, state, scratch, since>>

\* snapshot_payload() answers only when no call is inside the coordinator. An answer
\* becomes the snapshot, up to the last appended record.
SnapshotAlways == TRUE                        \* mutant: the snapshot enters no guard
SnapshotPayload == ~inside
Compacting == CompactEvery # 0 /\ since >= CompactEvery /\ SnapshotPayload
Compact ==
    /\ step = "compact" /\ step' = "apply"
    /\ snapshot' = IF Compacting THEN state ELSE snapshot
    /\ journal' = IF Compacting THEN << >> ELSE journal
    /\ since' = IF Compacting THEN 0 ELSE since
    /\ UNCHANGED <<phase, record, inside, state, scratch, failures>>

\* commit_record() applies what it persisted and the call leaves the guard: recover()
\* adopts the scratch coordinator, open_shuffle() goes on to its second record.
ApplyUnadopted ==                             \* mutant: what recover() replayed is not adopted
    /\ step = "apply"
    /\ state' = Append(state, record)
    /\ IF phase = "opening" /\ record.kind = "epoch"
       THEN step' = "persist" /\ record' = Opened /\ UNCHANGED <<inside, phase>>
       ELSE /\ step' = "none" /\ record' = NoRecord /\ inside' = FALSE
            /\ phase' = IF phase = "recovering" THEN "opening" ELSE phase
    /\ UNCHANGED <<snapshot, journal, scratch, since, failures>>
Apply ==
    /\ step = "apply"
    /\ state' = Append(IF phase = "recovering" THEN scratch ELSE state, record)
    /\ IF phase = "opening" /\ record.kind = "epoch"
       THEN step' = "persist" /\ record' = Opened /\ UNCHANGED <<inside, phase>>
       ELSE /\ step' = "none" /\ record' = NoRecord /\ inside' = FALSE
            /\ phase' = IF phase = "recovering" THEN "opening" ELSE phase
    /\ UNCHANGED <<snapshot, journal, scratch, since, failures>>

\* The process dies, or exits, between any two steps; the directory is what is left.
Crash ==
    /\ phase # "down" /\ failures < MaxFailures /\ failures' = failures + 1
    /\ phase' = "down" /\ step' = "none" /\ record' = NoRecord /\ inside' = FALSE
    /\ UNCHANGED <<snapshot, journal, state, scratch, since>>

Next ==
    \/ OpenStore \/ Recover \/ OpenShuffle \/ Request \/ Serve
    \/ Persist \/ PersistFails \/ Compact \/ Apply \/ Crash

\* main() runs on until the server is up; nothing restarts a process that has ended.
Startup == Recover \/ OpenShuffle \/ Serve \/ Persist \/ Compact \/ Apply
Spec == Init /\ [][Next]_vars /\ WF_vars(Startup)

----------------------------------------------------------------------------
\* The types of the process's state. since_compact_ counts records in the journal,
\* whatever appends fail.
HostType ==
    /\ phase \in {"down", "recovering", "opening", "serving"}
    /\ step \in {"none", "persist", "compact", "apply"}
    /\ inside = (step # "none")
    /\ since <= Len(journal) /\ Len(journal) <= MaxRecords + 3 * (MaxFailures + 1)
    /\ failures <= MaxFailures

\* The whole process keeps the promise its store makes: what a restart would rebuild
\* only grows, by the record being made durable, through recovery, snapshots the sink
\* asks for in the middle of a call, failing appends and crashes.
Log == INSTANCE DurableLog WITH
    Values <- {Epoch(n) : n \in 1 .. 2 * (MaxFailures + 1)} \cup {Opened, Change},
    log <- Durable,
    up <- phase # "down"
ProcessKeepsLog == Log!Spec

\* Between calls the coordinator in memory is what a restart would rebuild, so nothing
\* is answered from a state the directory does not hold.
LiveIsDurable == phase \in {"opening", "serving"} /\ step = "none" => state = Durable

\* No two processes share an epoch: the epochs of the log rise by one, whether a process
\* died before or after its epoch record, inside recover() or between the two records of
\* open_shuffle().
EpochsRise ==
    /\ HostType
    /\ \A i \in DOMAIN Durable :
           Durable[i].kind = "epoch" =>
               Durable[i].epoch = Cardinality({j \in 1 .. i : Durable[j].kind = "epoch"})

\* A process that starts on whatever an earlier one left behind, half of open_shuffle()
\* included, serves unless it ends.
StartDecided == (phase # "down") ~> (phase \in {"serving", "down"})
=============================================================================
