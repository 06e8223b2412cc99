------------------------------ MODULE Session ------------------------------
(***************************************************************************)
(* One connection of the TCP service as its session thread serves it:       *)
(* serve() and the handshake and session checks of handle() in              *)
(* src/service.cpp, with the ReplayGuard of src/frame.cpp and the bounded    *)
(* answer cache.                                                            *)
(*                                                                          *)
(* A frame is its sequence number and its kind.  "foreign" is a request     *)
(* that carries the id of another session; "request" stands for all         *)
(* messages that call the coordinator, which answers "ok" or "refused".     *)
(* Frames that end the session without an answer (a damaged header, a       *)
(* failed send, a peer that is gone) are the action Disconnect.             *)
(***************************************************************************)
EXTENDS Integers, Sequences, Functions

CONSTANTS
    MaxSequence,     \* bound of the model: sequence numbers a peer uses
    Window,          \* kReplayWindow
    CacheEntries,    \* kAnswerCacheEntries
    MaxForwardJump,  \* ReplayGuard::kMaxForwardJump
    Ordered          \* the peer numbers its requests one after the other

ASSUME SessionAssumption ==
    /\ MaxSequence \in Nat /\ Window \in Nat /\ CacheEntries \in Nat \ {0}
    /\ MaxForwardJump \in Nat \ {0} /\ Ordered \in BOOLEAN

VARIABLES
    open,      \* the session thread is serving
    bound,     \* the handshake has bound an identity
    highest,   \* ReplayGuard::highest_
    recent,    \* ReplayGuard::recent_ (recent_set_ holds the same values)
    answers,   \* the answer cache: sequence and answer, oldest first
    applied,   \* history: coordinator calls made for each sequence
    outcome    \* history: the answer of the frame the guard accepted

vars == <<open, bound, highest, recent, answers, applied, outcome>>

Sequences1 == 1 .. MaxSequence
Kinds == {"handshake", "request", "foreign", "close"}
Results == {"ok", "refused"}
Answers == Results \cup {"out_of_window", "duplicate"}

Init ==
    /\ open = TRUE /\ bound = FALSE
    /\ highest = 0 /\ recent = << >>
    /\ answers = << >>
    /\ applied = [s \in Sequences1 |-> 0]
    /\ outcome = [s \in Sequences1 |-> "none"]

----------------------------------------------------------------------------
(***************************************************************************)
(* ReplayGuard::accept.                                                     *)
(***************************************************************************)
\* remember(): the oldest acceptance makes room for the new one.
Remember(s) ==
    LET all == Append(recent, s)
    IN  IF Len(all) > Window THEN Tail(all) ELSE all

KnownHighest(s) == s = highest               \* mutant: recent_set_ is not consulted
Known(s) == s = highest \/ s \in Range(recent)

WindowEmpty(s) == recent = << >>             \* mutant: no lower bound
BelowWindow(s) == recent = << >> \/ s < Head(recent)

Verdict(s) ==
    IF highest # 0 /\ s =< highest
    THEN IF Known(s) THEN "duplicate" ELSE IF BelowWindow(s) THEN "refused" ELSE "fresh"
    ELSE IF s - highest > MaxForwardJump THEN "refused" ELSE "fresh"

----------------------------------------------------------------------------
(***************************************************************************)
(* serve(): one frame in, one answer out.                                   *)
(***************************************************************************)
CachedFor(s) == {i \in DOMAIN answers : answers[i].sequence = s}

RememberAnswer(s, answer) ==
    LET all == Append(answers, [sequence |-> s, answer |-> answer])
    IN  answers' = IF Len(all) > CacheEntries THEN Tail(all) ELSE all

\* CoordinatorClient takes the next sequence once it has an answer, and a frame
\* may reach the session once more.
PeerSends(s) == Ordered => s =< highest + 1

\* A frame the guard refuses is answered, and the session goes on.
RefuseFrame(s, kind) ==
    /\ open /\ PeerSends(s) /\ Verdict(s) = "refused"
    /\ RememberAnswer(s, "out_of_window")
    /\ open' = (kind # "close")
    /\ UNCHANGED <<bound, highest, recent, applied, outcome>>

\* A duplicate is answered from the cache; only a duplicate whose answer has
\* left the cache gets (and caches) an answer of its own.
ReplayAnswer(s) ==
    /\ open /\ PeerSends(s) /\ Verdict(s) = "duplicate"
    /\ CachedFor(s) # {}
    /\ UNCHANGED vars

RefuseDuplicate(s, kind) ==
    /\ open /\ PeerSends(s) /\ Verdict(s) = "duplicate"
    /\ CachedFor(s) = {}
    /\ RememberAnswer(s, "duplicate")
    /\ open' = (kind # "close")
    /\ UNCHANGED <<bound, highest, recent, applied, outcome>>

\* What handle() does with an accepted frame: the handshake binds the session
\* once, nothing but the handshake is served before, and a frame with another
\* session id is refused.
CallsCoordinator(kind) == bound /\ kind = "request"

ResultsOf(kind) ==
    CASE kind = "handshake" /\ ~bound -> Results     \* an identity may be incomplete
      [] CallsCoordinator(kind)       -> Results     \* the coordinator decides
      [] bound /\ kind = "close"      -> {"ok"}
      [] OTHER                        -> {"refused"}

HandleFrame(s, kind) ==
    /\ open /\ PeerSends(s) /\ Verdict(s) = "fresh"
    /\ highest' = IF s > highest THEN s ELSE highest
    /\ recent' = Remember(s)
    /\ \E result \in ResultsOf(kind) :
           /\ bound' = (bound \/ (kind = "handshake" /\ result = "ok"))
           /\ outcome' = [outcome EXCEPT ![s] = result]
           /\ RememberAnswer(s, result)
    /\ applied' = [applied EXCEPT ![s] = @ + (IF CallsCoordinator(kind) THEN 1 ELSE 0)]
    /\ open' = (kind # "close")

Disconnect ==
    /\ open
    /\ open' = FALSE
    /\ UNCHANGED <<bound, highest, recent, answers, applied, outcome>>

Next ==
    \/ \E s \in Sequences1, kind \in Kinds :
           RefuseFrame(s, kind) \/ RefuseDuplicate(s, kind) \/ HandleFrame(s, kind)
    \/ \E s \in Sequences1 : ReplayAnswer(s)
    \/ Disconnect

Spec == Init /\ [][Next]_vars

----------------------------------------------------------------------------
\* The types of the session's members.
TypeOK ==
    /\ open \in BOOLEAN /\ bound \in BOOLEAN
    /\ highest \in 0 .. MaxSequence
    /\ recent \in Seq(Sequences1) /\ Len(recent) =< Window
    /\ answers \in Seq([sequence : Sequences1, answer : Answers])
    /\ Len(answers) =< CacheEntries
    /\ applied \in [Sequences1 -> Nat]
    /\ outcome \in [Sequences1 -> Results \cup {"none"}]

\* service.hpp: a duplicated sequence number on one connection re-sends the
\* previous answer instead of applying the request twice.  What is applied is applied
\* for a bound session, in a frame that the guard has let through.
AppliedOnce ==
    /\ TypeOK
    /\ \A s \in Sequences1 :
           /\ applied[s] =< 1
           /\ applied[s] > 0 => bound /\ outcome[s] # "none" /\ s =< highest

\* As long as the answer to an accepted frame is in the cache, a duplicate of
\* the frame is answered with it: the first cached entry of a sequence is never
\* another frame's answer or a refusal from before the frame was accepted.
ReplaysOwnAnswer ==
    \A s \in Sequences1 : \A first \in CachedFor(s) :
        (/\ \A i \in CachedFor(s) : first =< i
         /\ \E i \in CachedFor(s) : answers[i].answer \in Results)
        => answers[first].answer = outcome[s]
=============================================================================
