--------------------------- MODULE SessionProofs ---------------------------
(***************************************************************************)
(* A request is applied once, for every replay window, answer cache and     *)
(* number of frames, when the peer numbers its frames one after the other.  *)
(*                                                                          *)
(* The guard evicts in the order of acceptance, so what makes it safe is    *)
(* that the window is an interval: it holds the last acceptances without a  *)
(* gap and ends at highest_.  A number at or below highest_ is then either  *)
(* in the window, and a duplicate, or below it, and refused; only the next  *)
(* number is fresh, and nothing was applied for it yet.                     *)
(***************************************************************************)
EXTENDS Session, SequenceTheorems, TLAPS

\* ReplayGuard's window: consecutive numbers, the last of them highest_.
WindowIsInterval ==
    /\ Len(recent) =< highest
    /\ \A i \in DOMAIN recent : recent[i] = highest - Len(recent) + i

NothingAhead == \A s \in Sequences1 : s > highest => applied[s] = 0

SessionInv == AppliedOnce /\ WindowIsInterval /\ NothingAhead

LEMMA SessionInit == Init => SessionInv
<1> SUFFICES ASSUME Init PROVE SessionInv
  OBVIOUS
<1>1. WindowIsInterval
  BY DEF Init, WindowIsInterval
<1>2. \A s \in Sequences1 : applied[s] = 0
  BY DEF Init
<1>3. recent \in Seq(Sequences1) /\ Len(recent) =< Window
  BY SessionAssumption DEF Init
<1>4. answers \in Seq([sequence : Sequences1, answer : Answers]) /\ Len(answers) =< CacheEntries
  BY SessionAssumption DEF Init
<1>5. applied \in [Sequences1 -> Nat] /\ outcome \in [Sequences1 -> Results \cup {"none"}]
  BY DEF Init
<1>6. TypeOK
  <2>1. open \in BOOLEAN /\ bound \in BOOLEAN
    BY DEF Init
  <2>2. highest \in 0 .. MaxSequence
    BY SessionAssumption DEF Init
  <2> QED
    BY <1>3, <1>4, <1>5, <2>1, <2>2 DEF TypeOK
<1> QED
  BY <1>1, <1>2, <1>6 DEF SessionInv, AppliedOnce, NothingAhead

\* Of an ordered peer's frames only the next one is fresh.
LEMMA FreshIsNext ==
    ASSUME Ordered, SessionInv, NEW s \in Sequences1, PeerSends(s), Verdict(s) = "fresh"
    PROVE  s = highest + 1
<1> USE DEF SessionInv, AppliedOnce, TypeOK
<1>1. s \in Nat \ {0} /\ highest \in Nat /\ s =< highest + 1
  BY SessionAssumption DEF Sequences1, PeerSends
<1>2. SUFFICES ASSUME s =< highest PROVE FALSE
  BY <1>1
<1>3. s \notin Range(recent) /\ recent # << >> /\ ~(s < Head(recent))
  BY <1>1, <1>2 DEF Verdict, Known, BelowWindow
<1>4. Len(recent) \in Nat \ {0} /\ Head(recent) = recent[1] /\ DOMAIN recent = 1 .. Len(recent)
  BY <1>3
<1>5. Head(recent) = highest - Len(recent) + 1
  BY <1>4 DEF WindowIsInterval
<1> DEFINE i == s - highest + Len(recent)
<1>6. i \in 1 .. Len(recent)
  BY <1>1, <1>2, <1>3, <1>4, <1>5, SessionAssumption DEF Sequences1
<1>7. recent[i] = s
  <2>1. \A k \in 1 .. Len(recent) : recent[k] = highest - Len(recent) + k
    BY <1>4 DEF WindowIsInterval
  <2>2. recent[i] = highest - Len(recent) + i
    BY <1>6, <2>1
  <2> QED
    BY <1>1, <1>4, <2>2
<1> QED
  BY <1>3, <1>4, <1>6, <1>7 DEF Range

\* The answer cache keeps its type and its bound.
LEMMA CacheType ==
    ASSUME TypeOK, NEW s \in Sequences1, NEW a \in Answers, RememberAnswer(s, a)
    PROVE  answers' \in Seq([sequence : Sequences1, answer : Answers]) /\ Len(answers') =< CacheEntries
<1> DEFINE E == [sequence : Sequences1, answer : Answers]
           e == [sequence |-> s, answer |-> a]
<1>1. e \in E
  OBVIOUS
<1>2. answers \in Seq(E) /\ Len(answers) =< CacheEntries /\ CacheEntries \in Nat \ {0}
  BY SessionAssumption DEF TypeOK
<1>3. answers' = IF Len(Append(answers, e)) > CacheEntries THEN Tail(Append(answers, e)) ELSE Append(answers, e)
  BY DEF RememberAnswer
<1> HIDE DEF E, e
<1>4. Append(answers, e) \in Seq(E) /\ Len(Append(answers, e)) = Len(answers) + 1
  BY <1>1, <1>2
<1>5. Tail(Append(answers, e)) \in Seq(E) /\ Len(Tail(Append(answers, e))) = Len(answers)
  BY <1>4
<1>6. answers' \in Seq(E) /\ Len(answers') =< CacheEntries
  <2>1. CASE Len(Append(answers, e)) > CacheEntries
    BY <1>2, <1>3, <1>5, <2>1
  <2>2. CASE ~(Len(Append(answers, e)) > CacheEntries)
    BY <1>2, <1>3, <1>4, <2>2
  <2> QED
    BY <2>1, <2>2
<1> QED
  BY <1>6 DEF E

\* remember() moves the window on by one: it stays an interval, and as long as before.
LEMMA WindowMoves ==
    ASSUME SessionInv, highest + 1 \in Sequences1, highest' = highest + 1,
           recent' = Remember(highest + 1)
    PROVE  recent' \in Seq(Sequences1) /\ Len(recent') =< Window /\ WindowIsInterval'
<1> DEFINE all == Append(recent, highest + 1)
<1>1. recent \in Seq(Sequences1) /\ Len(recent) =< Window /\ highest \in Nat /\ Window \in Nat
  BY SessionAssumption DEF SessionInv, AppliedOnce, TypeOK
<1>2. all \in Seq(Sequences1) /\ Len(all) = Len(recent) + 1
  BY <1>1
<1>3. \A i \in 1 .. Len(all) : all[i] = highest - Len(recent) + i
  <2>1. \A i \in 1 .. Len(recent) : recent[i] = highest - Len(recent) + i
    BY <1>1 DEF SessionInv, WindowIsInterval
  <2>2. \A i \in 1 .. Len(recent) : all[i] = recent[i]
    BY <1>1
  <2>3. all[Len(recent) + 1] = highest + 1
    BY <1>1
  <2> HIDE DEF all
  <2> QED
    BY <1>1, <1>2, <2>1, <2>2, <2>3
<1>4. Len(recent) =< highest
  BY DEF SessionInv, WindowIsInterval
<1>5. CASE Len(all) > Window
  <2>1. recent' = Tail(all) /\ Len(recent') = Len(recent) /\ recent' \in Seq(Sequences1)
    BY <1>2, <1>5 DEF Remember
  <2> HIDE DEF all
  <2>2. \A i \in 1 .. Len(recent) : recent'[i] = all[i + 1]
    <3>1. all # << >>
      BY <1>1, <1>2
    <3> QED
      BY <1>2, <2>1, <3>1, HeadTailProperties
  <2>3. \A i \in 1 .. Len(recent) : recent'[i] = highest + 1 - Len(recent) + i
    BY <1>1, <1>2, <1>3, <2>2
  <2>4. Len(recent') =< highest' /\ \A i \in 1 .. Len(recent') : recent'[i] = highest' - Len(recent') + i
    <3>1. Len(recent') =< highest'
      <4>1. Len(recent) \in Nat
        BY <1>1
      <4> QED
        BY <1>1, <1>4, <2>1, <4>1
    <3>2. Len(recent') = Len(recent)
      BY <2>1
    <3>3. ASSUME NEW i \in 1 .. Len(recent')
          PROVE  recent'[i] = highest' - Len(recent') + i
      BY <1>1, <2>3, <3>2, <3>3
    <3> QED
      BY <3>1, <3>3
  <2>5. DOMAIN recent' = 1 .. Len(recent')
    BY <2>1
  <2> QED
    BY <1>1, <2>1, <2>4, <2>5 DEF WindowIsInterval
<1>6. CASE ~(Len(all) > Window)
  <2>1. recent' = all
    BY <1>6 DEF Remember
  <2> HIDE DEF all
  <2> QED
    BY <1>1, <1>2, <1>3, <1>4, <1>6, <2>1 DEF WindowIsInterval
<1> QED
  BY <1>5, <1>6

\* A frame the guard lets through is the next one, so it is applied for the first time.
LEMMA HandleKeeps ==
    ASSUME Ordered, SessionInv, NEW s \in Sequences1, NEW kind \in Kinds, HandleFrame(s, kind)
    PROVE  SessionInv'
<1>1. s = highest + 1
  BY FreshIsNext DEF HandleFrame
<1>2. TypeOK /\ highest \in Nat /\ s \in Nat
  BY SessionAssumption DEF SessionInv, AppliedOnce, TypeOK, Sequences1
<1>3. highest' = highest + 1 /\ recent' = Remember(highest + 1)
  BY <1>1, <1>2 DEF HandleFrame
<1>4. recent' \in Seq(Sequences1) /\ Len(recent') =< Window /\ WindowIsInterval'
  BY <1>1, <1>3, WindowMoves
<1>5. PICK result \in ResultsOf(kind) :
          /\ bound' = (bound \/ (kind = "handshake" /\ result = "ok"))
          /\ outcome' = [outcome EXCEPT ![s] = result]
          /\ RememberAnswer(s, result)
  BY DEF HandleFrame
<1>6. result \in Results
  BY <1>5 DEF ResultsOf, Results
<1>7. answers' \in Seq([sequence : Sequences1, answer : Answers]) /\ Len(answers') =< CacheEntries
  BY <1>2, <1>5, <1>6, CacheType DEF Answers
<1>8. applied' = [applied EXCEPT ![s] = IF CallsCoordinator(kind) THEN 1 ELSE 0]
  <2>1. applied[s] = 0
    BY <1>1, <1>2 DEF SessionInv, NothingAhead
  <2> QED
    BY <2>1 DEF HandleFrame
<1>9. TypeOK'
  <2>1. applied' \in [Sequences1 -> Nat] /\ outcome' \in [Sequences1 -> Results \cup {"none"}]
    BY <1>2, <1>5, <1>6, <1>8 DEF TypeOK
  <2>2. open' \in BOOLEAN /\ bound' \in BOOLEAN
    BY <1>2, <1>5 DEF TypeOK, HandleFrame
  <2>3. highest' \in 0 .. MaxSequence
    BY <1>1, <1>2, <1>3 DEF Sequences1
  <2> QED
    BY <1>4, <1>7, <2>1, <2>2, <2>3 DEF TypeOK
<1>10. ASSUME NEW t \in Sequences1
       PROVE  /\ applied'[t] =< 1
              /\ applied'[t] > 0 => bound' /\ outcome'[t] # "none" /\ t =< highest'
  <2>1. CASE t = s
    <3>1. applied'[t] = IF CallsCoordinator(kind) THEN 1 ELSE 0
      BY <1>2, <1>8, <2>1 DEF TypeOK
    <3>2. outcome'[t] = result /\ result # "none"
      BY <1>2, <1>5, <1>6, <2>1 DEF TypeOK, Results
    <3>3. CallsCoordinator(kind) => bound'
      BY <1>5 DEF CallsCoordinator
    <3> QED
      BY <1>1, <1>2, <1>3, <2>1, <3>1, <3>2, <3>3
  <2>2. CASE t # s
    <3>1. applied'[t] = applied[t] /\ outcome'[t] = outcome[t]
      BY <1>2, <1>5, <1>8, <2>2 DEF TypeOK
    <3>2. bound => bound'
      BY <1>5
    <3>3. /\ applied[t] =< 1
          /\ applied[t] > 0 => bound /\ outcome[t] # "none" /\ t =< highest
      BY DEF SessionInv, AppliedOnce
    <3> QED
      BY <1>2, <1>3, <3>1, <3>2, <3>3 DEF Sequences1
  <2> QED
    BY <2>1, <2>2
<1>11. NothingAhead'
  BY <1>1, <1>2, <1>3, <1>8 DEF SessionInv, NothingAhead, TypeOK, Sequences1
<1> QED
  BY <1>4, <1>9, <1>10, <1>11 DEF SessionInv, AppliedOnce

LEMMA SessionStep ==
    ASSUME Ordered, SessionInv, [Next]_vars
    PROVE  SessionInv'
<1> USE DEF SessionInv, AppliedOnce
<1>1. ASSUME NEW s \in Sequences1, NEW kind \in Kinds, RefuseFrame(s, kind)
      PROVE  SessionInv'
  BY <1>1, CacheType DEF RefuseFrame, Answers, TypeOK, WindowIsInterval, NothingAhead
<1>2. ASSUME NEW s \in Sequences1, NEW kind \in Kinds, RefuseDuplicate(s, kind)
      PROVE  SessionInv'
  BY <1>2, CacheType DEF RefuseDuplicate, Answers, TypeOK, WindowIsInterval, NothingAhead
<1>3. CASE UNCHANGED vars
  BY <1>3 DEF vars, TypeOK, WindowIsInterval, NothingAhead
<1>4. CASE Disconnect
  BY <1>4 DEF Disconnect, TypeOK, WindowIsInterval, NothingAhead
<1> QED
  BY <1>1, <1>2, <1>3, <1>4, HandleKeeps DEF Next, ReplayAnswer

\* service.hpp: no duplicate of a frame makes the coordinator apply a request twice, and
\* none is applied before the handshake, whatever the sizes of window and cache.
THEOREM Once ==
    ASSUME Ordered
    PROVE  Spec => []AppliedOnce
<1>1. SessionInv /\ [Next]_vars => SessionInv'
  BY SessionStep
<1>2. SessionInv => AppliedOnce
  BY DEF SessionInv
<1> QED
  BY <1>1, <1>2, SessionInit, PTL DEF Spec

----------------------------------------------------------------------------
\* Answers are cached for frames at or below highest_. The coordinator's answer to a
\* frame comes before every refusal of its duplicates, and is the frame's own.
CacheInv ==
    \A i \in DOMAIN answers :
        /\ answers[i].sequence =< highest
        /\ answers[i].answer \in Results => answers[i].answer = outcome[answers[i].sequence]
        /\ \A j \in DOMAIN answers :
               i < j /\ answers[i].sequence = answers[j].sequence => answers[j].answer \notin Results

\* An ordered peer's frame that the guard does not let through is one seen before.
LEMMA RefusedIsOld ==
    ASSUME Ordered, SessionInv, NEW s \in Sequences1, PeerSends(s), Verdict(s) # "fresh"
    PROVE  s =< highest
<1>1. s \in Nat \ {0} /\ highest \in Nat /\ s =< highest + 1
  BY SessionAssumption DEF Sequences1, PeerSends, SessionInv, AppliedOnce, TypeOK
<1>2. SUFFICES ASSUME s = highest + 1 PROVE FALSE
  BY <1>1
<1>3. ~(highest # 0 /\ s =< highest) /\ ~(s - highest > MaxForwardJump)
  BY <1>1, <1>2, SessionAssumption
<1> QED
  BY <1>3 DEF Verdict

\* remember_answer() adds an entry at the end, and may drop the first one.
LEMMA CacheMoves ==
    ASSUME TypeOK, NEW s \in Sequences1, NEW a \in Answers, RememberAnswer(s, a)
    PROVE  \E d \in {0, 1} :
               /\ DOMAIN answers' = 1 .. Len(answers) + 1 - d
               /\ \A i \in DOMAIN answers' :
                      IF i + d = Len(answers) + 1
                      THEN answers'[i] = [sequence |-> s, answer |-> a]
                      ELSE i + d \in DOMAIN answers /\ answers'[i] = answers[i + d]
<1> DEFINE E == [sequence : Sequences1, answer : Answers]
           e == [sequence |-> s, answer |-> a]
           all == Append(answers, e)
<1>1. e \in E /\ answers \in Seq(E)
  BY DEF TypeOK
<1>2. answers' = IF Len(all) > CacheEntries THEN Tail(all) ELSE all
  BY DEF RememberAnswer
<1> HIDE DEF E, e
<1>3. all \in Seq(E) /\ Len(all) = Len(answers) + 1 /\ all # << >> /\ Len(answers) \in Nat
  BY <1>1
<1>4. \A i \in 1 .. Len(answers) + 1 :
          all[i] = IF i = Len(answers) + 1 THEN e ELSE answers[i]
  BY <1>1
<1>5. DOMAIN answers = 1 .. Len(answers)
  BY <1>1
<1> HIDE DEF all
<1>6. CASE answers' = all
  <2>1. DOMAIN answers' = 1 .. Len(answers) + 1 - 0
    BY <1>3, <1>6
  <2>2. ASSUME NEW i \in DOMAIN answers'
        PROVE  IF i + 0 = Len(answers) + 1 THEN answers'[i] = e
               ELSE i + 0 \in DOMAIN answers /\ answers'[i] = answers[i + 0]
    BY <1>3, <1>4, <1>5, <1>6, <2>1
  <2> QED
    BY <2>1, <2>2 DEF e
<1>7. CASE answers' = Tail(all)
  <2>1. answers' \in Seq(E) /\ Len(answers') = Len(answers)
    BY <1>3, <1>7
  <2>2. DOMAIN answers' = 1 .. Len(answers) + 1 - 1
    BY <1>3, <2>1
  <2>3. \A i \in 1 .. Len(answers) : answers'[i] = all[i + 1]
    BY <1>3, <1>7, <2>1, HeadTailProperties
  <2>4. ASSUME NEW i \in DOMAIN answers'
        PROVE  IF i + 1 = Len(answers) + 1 THEN answers'[i] = e
               ELSE i + 1 \in DOMAIN answers /\ answers'[i] = answers[i + 1]
    <3>1. i \in 1 .. Len(answers) /\ i + 1 \in 1 .. Len(answers) + 1
      BY <1>3, <2>2
    <3> QED
      BY <1>3, <1>4, <1>5, <2>3, <3>1
  <2> QED
    BY <2>2, <2>4 DEF e
<1> QED
  BY <1>2, <1>6, <1>7

\* The cache keeps its invariant when the new entry is a refusal of an old frame, or the
\* answer to the next one.
LEMMA CacheKeeps ==
    ASSUME TypeOK, CacheInv, NEW s \in Sequences1, NEW a \in Answers, RememberAnswer(s, a),
           highest' \in Nat, highest =< highest', s =< highest',
           \A t \in Sequences1 : t =< highest => outcome'[t] = outcome[t],
           a \in Results => s > highest /\ outcome'[s] = a
    PROVE  CacheInv'
<1>1. PICK d \in {0, 1} :
          /\ DOMAIN answers' = 1 .. Len(answers) + 1 - d
          /\ \A i \in DOMAIN answers' :
                 IF i + d = Len(answers) + 1
                 THEN answers'[i] = [sequence |-> s, answer |-> a]
                 ELSE i + d \in DOMAIN answers /\ answers'[i] = answers[i + d]
  BY CacheMoves
<1>2. /\ Len(answers) \in Nat /\ DOMAIN answers = 1 .. Len(answers)
      /\ highest \in Nat /\ s \in Nat
      /\ \A i \in DOMAIN answers : answers[i].sequence \in Sequences1
  <2>1. highest \in Nat /\ s \in Nat
    BY SessionAssumption DEF TypeOK, Sequences1
  <2> DEFINE E == [sequence : Sequences1, answer : Answers]
  <2>2. answers \in Seq(E) /\ \A e \in E : e.sequence \in Sequences1
    BY DEF TypeOK
  <2> HIDE DEF E
  <2>3. /\ Len(answers) \in Nat /\ DOMAIN answers = 1 .. Len(answers)
        /\ \A i \in DOMAIN answers : answers[i] \in E
    BY <2>2
  <2> QED
    BY <2>1, <2>2, <2>3
<1>3. \A i \in DOMAIN answers' :
          \/ i + d = Len(answers) + 1 /\ answers'[i].sequence = s /\ answers'[i].answer = a
          \/ i + d \in DOMAIN answers /\ answers'[i] = answers[i + d]
  BY <1>1
<1>4. \A t \in Sequences1 : t \in Nat
  BY DEF Sequences1
<1>5. ASSUME NEW i \in DOMAIN answers'
      PROVE  /\ answers'[i].sequence =< highest'
             /\ answers'[i].answer \in Results =>
                    answers'[i].answer = outcome'[answers'[i].sequence]
  <2>1. CASE answers'[i].sequence = s /\ answers'[i].answer = a
    BY <2>1
  <2>2. CASE i + d \in DOMAIN answers /\ answers'[i] = answers[i + d]
    <3> DEFINE e == answers[i + d]
    <3>1. /\ e.sequence \in Sequences1 /\ e.sequence \in Nat /\ e.sequence =< highest
          /\ e.answer \in Results => e.answer = outcome[e.sequence]
      BY <1>2, <1>4, <2>2 DEF CacheInv
    <3> QED
      BY <1>2, <2>2, <3>1
  <2> QED
    BY <1>3, <2>1, <2>2
<1>6. ASSUME NEW i \in DOMAIN answers', NEW j \in DOMAIN answers', i < j,
             answers'[i].sequence = answers'[j].sequence
      PROVE  answers'[j].answer \notin Results
  <2>1. i \in Nat /\ j \in Nat /\ i + d < j + d /\ i + d # Len(answers) + 1
    BY <1>1, <1>2, <1>6
  <2>2. i + d \in DOMAIN answers /\ answers'[i] = answers[i + d]
    BY <1>3, <2>1
  <2>3. CASE j + d = Len(answers) + 1 /\ answers'[j].sequence = s /\ answers'[j].answer = a
    <3>1. s =< highest
      BY <1>6, <2>2, <2>3 DEF CacheInv
    <3> QED
      BY <1>2, <2>3, <3>1
  <2>4. CASE j + d \in DOMAIN answers /\ answers'[j] = answers[j + d]
    BY <1>6, <2>1, <2>2, <2>4 DEF CacheInv
  <2> QED
    BY <1>3, <2>3, <2>4
<1> QED
  BY <1>5, <1>6 DEF CacheInv

LEMMA CacheStep ==
    ASSUME Ordered, SessionInv, CacheInv, [Next]_vars
    PROVE  CacheInv'
<1>1. TypeOK /\ highest \in Nat
  BY DEF SessionInv, AppliedOnce, TypeOK
<1>2. ASSUME NEW s \in Sequences1, NEW kind \in Kinds, RefuseFrame(s, kind)
      PROVE  CacheInv'
  <2>1. /\ s =< highest /\ highest' = highest /\ outcome' = outcome
        /\ RememberAnswer(s, "out_of_window")
    BY <1>2, RefusedIsOld DEF RefuseFrame
  <2>2. "out_of_window" \in Answers /\ "out_of_window" \notin Results
    BY DEF Answers, Results
  <2> QED
    BY <1>1, <2>1, <2>2, CacheKeeps
<1>3. ASSUME NEW s \in Sequences1, NEW kind \in Kinds, RefuseDuplicate(s, kind)
      PROVE  CacheInv'
  <2>1. /\ s =< highest /\ highest' = highest /\ outcome' = outcome
        /\ RememberAnswer(s, "duplicate")
    BY <1>3, RefusedIsOld DEF RefuseDuplicate
  <2>2. "duplicate" \in Answers /\ "duplicate" \notin Results
    BY DEF Answers, Results
  <2> QED
    BY <1>1, <2>1, <2>2, CacheKeeps
<1>4. ASSUME NEW s \in Sequences1, NEW kind \in Kinds, HandleFrame(s, kind)
      PROVE  CacheInv'
  <2>1. s = highest + 1
    BY <1>4, FreshIsNext DEF HandleFrame
  <2>2. highest' = s
    BY <1>1, <1>4, <2>1 DEF HandleFrame
  <2>3. PICK result \in ResultsOf(kind) :
            outcome' = [outcome EXCEPT ![s] = result] /\ RememberAnswer(s, result)
    BY <1>4 DEF HandleFrame
  <2>4. result \in Results /\ result \in Answers
    BY <2>3 DEF ResultsOf, Results, Answers
  <2>5. outcome'[s] = result /\ \A t \in Sequences1 : t =< highest => outcome'[t] = outcome[t]
    BY <1>1, <2>1, <2>3 DEF TypeOK
  <2> QED
    BY <1>1, <2>1, <2>2, <2>3, <2>4, <2>5, CacheKeeps
<1>5. CASE UNCHANGED <<answers, highest, outcome>>
  BY <1>5 DEF CacheInv
<1>6. UNCHANGED vars \/ Disconnect => UNCHANGED <<answers, highest, outcome>>
  BY DEF vars, Disconnect
<1> QED
  BY <1>2, <1>3, <1>4, <1>5, <1>6 DEF Next, ReplayAnswer

\* service.hpp: a duplicated sequence number re-sends the previous answer. Whatever was
\* refused in between, the entry cached_answer() finds first is the frame's own answer as
\* long as that is cached.
THEOREM OwnAnswer ==
    ASSUME Ordered
    PROVE  Spec => []ReplaysOwnAnswer
<1>1. Init => SessionInv /\ CacheInv
  BY SessionInit DEF Init, CacheInv
<1>2. SessionInv /\ CacheInv /\ [Next]_vars => SessionInv' /\ CacheInv'
  BY SessionStep, CacheStep
<1>3. SessionInv /\ CacheInv => ReplaysOwnAnswer
  <2> SUFFICES ASSUME SessionInv, CacheInv, NEW s \in Sequences1, NEW first \in CachedFor(s),
                      \A i \in CachedFor(s) : first =< i,
                      NEW i \in CachedFor(s), answers[i].answer \in Results
               PROVE  answers[first].answer = outcome[s]
    BY DEF ReplaysOwnAnswer
  <2>1. first \in DOMAIN answers /\ i \in DOMAIN answers /\ first =< i
        /\ answers[first].sequence = s /\ answers[i].sequence = s
    BY DEF CachedFor
  <2>2. first \in Nat /\ i \in Nat
    BY <2>1 DEF SessionInv, AppliedOnce, TypeOK
  <2>3. first = i
    BY <2>1, <2>2 DEF CacheInv
  <2> QED
    BY <2>1, <2>3 DEF CacheInv
<1> QED
  BY <1>1, <1>2, <1>3, PTL DEF Spec
=============================================================================
