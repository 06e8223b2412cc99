---------------------------- MODULE DurableLog -----------------------------
(***************************************************************************)
(* What the durable store promises its caller (persistence.md 10):          *)
(* acknowledged records survive, in order; a crash may add at most the one  *)
(* record whose append was not acknowledged; and nothing else ever changes  *)
(* the log, compaction included.                                            *)
(***************************************************************************)
EXTENDS Sequences

CONSTANT Values

VARIABLES
    log,   \* the records the caller may rely on
    up     \* a process has the store open

Init == log = << >> /\ up = FALSE

Acknowledge == up /\ \E v \in Values : log' = Append(log, v) /\ UNCHANGED up

Crash ==
    /\ up /\ up' = FALSE
    /\ log' = log \/ \E v \in Values : log' = Append(log, v)

Recover == ~up /\ up' = TRUE /\ UNCHANGED log

Next == Acknowledge \/ Crash \/ Recover

Spec == Init /\ [][Next]_<<log, up>>
=============================================================================
