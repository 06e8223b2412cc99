------------------------- MODULE CoordinatorRecords -------------------------
(***************************************************************************)
(* What a record does to a coordinator, the inductive invariant of the      *)
(* coordinator, and what keeping it has in common for several actions.      *)
(***************************************************************************)
EXTENDS Coordinator, TLAPS

(***************************************************************************)
(* What applying one record does, member by member.                         *)
(***************************************************************************)
SameTopology(s, t) ==
    /\ t.topology = s.topology /\ t.members = s.members
    /\ t.manifests = s.manifests /\ t.unrevalidated = s.unrevalidated
SameLedger(s, t) ==
    t.completed = s.completed /\ t.failed = s.failed /\ t.attempts = s.attempts

LEMMA FreshType ==
    /\ Fresh \in CoreType
    /\ Fresh.ok /\ ~Fresh.topology /\ Fresh.state = "Closed" /\ Fresh.epoch = 0
    /\ Fresh.members = [m \in Members |->
                           [incarnation |-> 0, state |-> "Pending", selection |-> {}]]
    /\ Fresh.manifests = [p \in Partitions |-> NoManifest]
    /\ Fresh.completed = {} /\ Fresh.failed = {}
  <1>1. [incarnation |-> 0, state |-> "Pending", selection |-> {}] \in MemberType
    BY CoordinatorAssumption DEF MemberType, States
  <1>2. NoManifest \in ManifestType
    BY CoordinatorAssumption DEF ManifestType, NoManifest
  <1>3. [e \in Edges |-> 0] \in [Edges -> 0 .. MaxAttempts]
    BY CoordinatorAssumption
  <1> QED
    BY <1>1, <1>2, <1>3 DEF Fresh, CoreType

LEMMA EpochApplied ==
    ASSUME NEW s \in CoreType, s.ok, NEW e \in Nat, NEW t,
           t = Apply(s, [kind |-> "epoch", epoch |-> e])
    PROVE  /\ t \in CoreType /\ t.ok /\ t.state = s.state
           /\ t.epoch = IF e > s.epoch THEN e ELSE s.epoch
           /\ SameTopology(s, t) /\ SameLedger(s, t)
  <1>1. t = IF e > s.epoch THEN [s EXCEPT !.epoch = e] ELSE s
    BY DEF Apply, ApplyEpoch
  <1> QED
    BY <1>1 DEF CoreType, SameTopology, SameLedger

LEMMA StateApplied ==
    ASSUME NEW s \in CoreType, s.ok, NEW x \in {"Open", "Completed", "Cancelled"},
           x = "Open" => s.state \notin Finished, NEW t, t = Apply(s, StateRecord(x))
    PROVE  /\ t \in CoreType /\ t.ok /\ t.state = x /\ t.epoch = s.epoch
           /\ t.topology = (s.topology \/ x = "Open")
           /\ t.members = s.members /\ t.manifests = s.manifests
           /\ t.unrevalidated = s.unrevalidated
           /\ SameLedger(s, t)
  <1>1. t = [s EXCEPT !.state = x, !.topology = s.topology \/ x = "Open"]
    BY DEF Apply, ApplyShuffleState, StateRecord
  <1>2. x \in {"Closed", "Open"} \cup Finished /\ (s.topology \/ x = "Open") \in BOOLEAN
    BY DEF Finished
  <1> QED
    BY Zenon, <1>1, <1>2 DEF CoreType, SameLedger

\* What a participant record makes of the entry k of the participant.
EntryOf(k, i, x, selection) ==
    IF k.incarnation = i /\ k.selection = selection
    THEN IF x = "Active" THEN k
         ELSE [incarnation |-> i, state |-> x, selection |-> selection]
    ELSE [incarnation |-> i, state |-> x, selection |-> selection]

Entered(s, t, m, entry) ==
    /\ t \in CoreType /\ t.ok /\ t.topology /\ t.state = s.state /\ t.epoch = s.epoch
    /\ t.members = [s.members EXCEPT ![m] = entry]
    /\ t.manifests = s.manifests
    /\ SameLedger(s, t)

LEMMA ParticipantApplied ==
    ASSUME NEW s \in CoreType, s.ok, s.topology, NEW m \in Members,
           NEW i \in 0 .. MaxIncarnation, NEW x \in States,
           NEW selection \in Selections \cup {{}}, NEW t,
           t = Apply(s, ParticipantRecord(m, i, x, selection))
    PROVE  Entered(s, t, m, EntryOf(s.members[m], i, x, selection))
  <1> DEFINE r == ParticipantRecord(m, i, x, selection)
             k == s.members[m]
             registered == RegisterIn(s, m, i, selection)
             set == IF x = "Active" THEN registered ELSE SetState(registered, m, x)
             entry == EntryOf(k, i, x, selection)
             returned == IF FreshReturn(s, r) THEN set.unrevalidated \ {m}
                         ELSE set.unrevalidated
  <1>1. s.members \in [Members -> MemberType] /\ k \in MemberType
    BY DEF CoreType
  <1>2. entry \in MemberType
    BY <1>1 DEF MemberType, EntryOf
  <1>3. t = [set EXCEPT !.unrevalidated = returned]
    BY DEF Apply, ApplyParticipant, ParticipantRecord
  <1>4. set = [s EXCEPT !.members = [s.members EXCEPT ![m] = entry]]
    <2>1. k.incarnation \in 0 .. MaxIncarnation /\ k.selection \in Selections \cup {{}}
          /\ k.state \in States
      BY <1>1 DEF MemberType
    <2>2. \A y \in States : SetState(registered, m, y) =
              [registered EXCEPT !.members =
                  [registered.members EXCEPT ![m] = [registered.members[m] EXCEPT !.state = y]]]
      BY DEF SetState
    <2>3. CASE k.incarnation = i /\ k.selection = selection
      <3>1. registered = s
        BY <2>3 DEF RegisterIn
      <3>2. CASE x = "Active"
        <4>1. entry = k
          BY <2>3, <3>2 DEF EntryOf
        <4>2. [s.members EXCEPT ![m] = k] = s.members
          BY <1>1
        <4>3. [s EXCEPT !.members = s.members] = s
          BY DEF CoreType
        <4> QED
          BY <3>1, <3>2, <4>1, <4>2, <4>3
      <3>3. CASE x # "Active"
        <4>1. [k EXCEPT !.state = x] = entry
          BY <1>1, <2>3, <3>3 DEF EntryOf, MemberType
        <4> QED
          BY <2>2, <3>1, <3>3, <4>1
      <3> QED
        BY <3>2, <3>3
    <2>4. CASE ~(k.incarnation = i /\ k.selection = selection)
      <3> DEFINE new == [incarnation |-> i, state |-> "Active", selection |-> selection]
      <3>1. registered = [s EXCEPT !.members = [s.members EXCEPT ![m] = new]]
        BY <2>4 DEF RegisterIn
      <3>2. new \in MemberType
        BY DEF MemberType, States
      <3>3. entry = [incarnation |-> i, state |-> x, selection |-> selection]
        BY <2>4 DEF EntryOf
      <3>4. CASE x = "Active"
        BY <3>1, <3>3, <3>4
      <3>5. CASE x # "Active"
        <4>1. [new EXCEPT !.state = x] = entry
          BY <3>3
        <4> HIDE DEF new, entry
        <4>2. registered.members = [s.members EXCEPT ![m] = new]
          BY <3>1 DEF CoreType
        <4>3. registered.members[m] = new
          BY <1>1, <4>2
        <4>4. [registered.members EXCEPT ![m] = entry] = [s.members EXCEPT ![m] = entry]
          BY <1>1, <4>2
        <4>5. set = [registered EXCEPT !.members = [s.members EXCEPT ![m] = entry]]
          BY <2>2, <3>5, <4>1, <4>3, <4>4
        <4> QED
          BY Zenon, <3>1, <4>5 DEF CoreType
      <3> QED
        BY <3>4, <3>5
    <2> QED
      BY <2>3, <2>4
  <1>5. [s.members EXCEPT ![m] = entry] \in [Members -> MemberType]
    BY <1>1, <1>2
  <1> HIDE DEF entry, registered, k
  <1>6. set \in CoreType /\ set.members = [s.members EXCEPT ![m] = entry]
        /\ set.ok = s.ok /\ set.topology = s.topology /\ set.state = s.state
        /\ set.epoch = s.epoch /\ set.manifests = s.manifests /\ SameLedger(s, set)
    BY Zenon, <1>4, <1>5 DEF CoreType, SameLedger
  <1> HIDE DEF set
  <1>7. returned \in SUBSET Members
    BY <1>6 DEF CoreType
  <1> HIDE DEF returned
  <1>8. t \in CoreType /\ t.members = set.members
        /\ t.ok = set.ok /\ t.topology = set.topology /\ t.state = set.state
        /\ t.epoch = set.epoch /\ t.manifests = set.manifests /\ SameLedger(set, t)
    BY Zenon, <1>3, <1>6, <1>7 DEF CoreType, SameLedger
  <1> QED
    BY <1>6, <1>8 DEF entry, k, SameLedger, Entered

LEMMA ManifestApplied ==
    ASSUME NEW s \in CoreType, s.ok, s.topology, NEW p \in Partitions,
           NEW manifest \in ManifestType, ~Older(s, p, manifest), ~Divergent(s, p, manifest),
           NEW t, t = Apply(s, [kind |-> "manifest", partition |-> p, manifest |-> manifest])
    PROVE  /\ t \in CoreType /\ t.ok /\ t.topology /\ t.state = s.state /\ t.epoch = s.epoch
           /\ t.manifests = [s.manifests EXCEPT ![p] = manifest]
           /\ t.members = s.members /\ t.unrevalidated = s.unrevalidated
           /\ SameLedger(s, t)
  <1>1. t = [s EXCEPT !.manifests = [s.manifests EXCEPT ![p] = manifest]]
    BY DEF Apply, ApplyManifest
  <1>2. [s.manifests EXCEPT ![p] = manifest] \in [Partitions -> ManifestType]
    BY DEF CoreType
  <1> QED
    BY <1>1, <1>2 DEF CoreType, SameLedger

LEMMA CommitApplied ==
    ASSUME NEW s \in CoreType, s.ok, NEW e \in Edges,
           ~(e[2] < s.manifests[e[1]].generation),
           NEW t, t = Apply(s, [kind |-> "commit", edge |-> e])
    PROVE  /\ t \in CoreType /\ t.ok /\ t.state = s.state /\ t.epoch = s.epoch
           /\ SameTopology(s, t)
           /\ t.completed = s.completed \cup {e}
           /\ t.failed = s.failed /\ t.attempts = s.attempts
  <1>1. t = [s EXCEPT !.completed = s.completed \cup {e}]
    BY DEF Apply, ApplyCommit
  <1> QED
    BY <1>1 DEF CoreType, SameTopology

LEMMA FailureApplied ==
    ASSUME NEW s \in CoreType, s.ok, NEW e \in Edges, NEW n \in 0 .. MaxAttempts,
           NEW b \in BOOLEAN, NEW t,
           t = Apply(s, [kind |-> "failure", edge |-> e, attempts |-> n, permanent |-> b])
    PROVE  /\ t \in CoreType /\ t.ok /\ t.state = s.state /\ t.epoch = s.epoch
           /\ SameTopology(s, t)
           /\ t.completed = s.completed
           /\ t.failed = IF b THEN s.failed \cup {e} ELSE s.failed
           /\ t.attempts = [s.attempts EXCEPT ![e] = n]
  <1> DEFINE f == IF b THEN s.failed \cup {e} ELSE s.failed
  <1>1. t = [s EXCEPT !.attempts = [s.attempts EXCEPT ![e] = n], !.failed = f]
    BY DEF Apply, ApplyFailure
  <1>2. [s.attempts EXCEPT ![e] = n] \in [Edges -> 0 .. MaxAttempts] /\ f \in SUBSET Edges
    BY DEF CoreType
  <1> HIDE DEF f
  <1>3. /\ t \in CoreType /\ t.ok /\ t.state = s.state /\ t.epoch = s.epoch
        /\ SameTopology(s, t)
        /\ t.completed = s.completed /\ t.failed = f
        /\ t.attempts = [s.attempts EXCEPT ![e] = n]
    BY Zenon, <1>1, <1>2 DEF CoreType, SameTopology
  <1> QED
    BY <1>3 DEF f

----------------------------------------------------------------------------
(***************************************************************************)
(* The inductive invariant.  `Sane' is what every coordinator that records  *)
(* of this program built satisfies, `Alike' relates the live coordinator to *)
(* the one that replay would build.                                         *)
(***************************************************************************)
Unregistered == [incarnation |-> 0, state |-> "Pending", selection |-> {}]

SaneMembers(s) ==
    \A m \in Members :
        /\ s.members[m].incarnation = 0 => s.members[m] = Unregistered
        /\ m \in Producers => s.members[m].selection = {}
SaneManifests(s) ==
    \A p \in Partitions : s.manifests[p].generation = 0 => s.manifests[p] = NoManifest
Blank(s) ==
    /\ s.members = [m \in Members |-> Unregistered]
    /\ s.manifests = [p \in Partitions |-> NoManifest]
Counted(s) ==
    Cardinality(Current(s, s.completed)) + Cardinality(Current(s, s.failed))
        >= Cardinality(Required(s))
Sane(s) ==
    /\ s.ok
    /\ s.topology <=> s.state # "Closed"
    /\ ~s.topology => Blank(s)
    /\ SaneMembers(s) /\ SaneManifests(s)
    /\ s.completed \cap s.failed = {}
    /\ s.state = "Completed" => Counted(s)

SettledState(x) == IF x = "Active" THEN "Suspect" ELSE x
AlikeMembers(s, t) ==
    \A m \in Members :
        /\ s.members[m].incarnation = t.members[m].incarnation
        /\ s.members[m].selection = t.members[m].selection
        /\ SettledState(s.members[m].state) = SettledState(t.members[m].state)
Alike(s, t) ==
    /\ t.ok = s.ok /\ t.state = s.state /\ t.topology = s.topology /\ t.epoch = s.epoch
    /\ t.manifests = s.manifests /\ SameLedger(s, t)
    /\ AlikeMembers(s, t)

GrantType ==
    [attempt : Nat, partition : Partitions, manifest : ManifestType, consumer : Consumers,
     consumer_incarnation : 0 .. MaxIncarnation, ordinal : 1 .. MaxAttempts, epoch : Nat]

\* Every grant names a manifest that was published, by a producer that has not
\* gone back to an earlier incarnation since.
Granted(g) ==
    /\ g.manifest.generation # 0 /\ g.manifest.producer \in Producers
    /\ \/ g.manifest = stored.manifests[g.partition]
       \/ g.manifest.generation < stored.manifests[g.partition].generation
    /\ g.manifest.incarnation =< stored.members[g.manifest.producer].incarnation
\* The producer of a grant of an earlier epoch no longer serves what it produced.
Retired(g) ==
    core.epoch = g.epoch
    \/ ~HoldsAuthority(core, g.manifest.producer)
    \/ core.members[g.manifest.producer].incarnation # g.manifest.incarnation

TypeInv == TypeOK /\ issued \subseteq GrantType /\ demoted \subseteq Members
RecoveryInv ==
    /\ Sane(stored)
    /\ up => Alike(core, stored)
    /\ ~up => core = Fresh /\ grants = {}
ManifestInv ==
    /\ \A p \in Partitions : stored.manifests[p] # NoManifest =>
           /\ stored.manifests[p].producer \in Producers
           /\ stored.manifests[p].incarnation =<
                  stored.members[stored.manifests[p].producer].incarnation
    /\ stored.state = "Closed" => issued = {}
    /\ \A g \in issued : Granted(g)
    /\ AgreedContent
EpochInv ==
    /\ up => \A g \in issued : Retired(g)
    /\ \A g \in grants : g.epoch = core.epoch
    /\ CommitsOfThisEpoch
AckInv == acked \subseteq stored.completed /\ DemotedHoldNothing
CancelInv == cancelled => stored.state = "Cancelled" /\ grants = {}
GrantInv ==
    /\ \A g, h \in grants : EdgeOf(g) = EdgeOf(h) => g = h
    /\ \A g \in grants : EdgeOf(g) \notin core.completed \cup core.failed

Inv == TypeInv /\ RecoveryInv /\ ManifestInv /\ EpochInv /\ AckInv /\ CancelInv /\ GrantInv

----------------------------------------------------------------------------
(***************************************************************************)
(* What the requirement and the counts depend on.                           *)
(***************************************************************************)

LEMMA CurrentFrame ==
    ASSUME NEW s, NEW t, t.manifests = s.manifests
    PROVE  \A edges : Current(t, edges) = Current(s, edges)
  BY DEF Current

LEMMA RequiredAlike ==
    ASSUME NEW s, NEW t, AlikeMembers(s, t)
    PROVE  Required(s) = Required(t)
  <1>1. \A e \in Partitions \X Consumers :
            /\ s.members[e[2]].incarnation = t.members[e[2]].incarnation
            /\ s.members[e[2]].selection = t.members[e[2]].selection
            /\ s.members[e[2]].state = "Withdrawn" <=> t.members[e[2]].state = "Withdrawn"
    BY DEF AlikeMembers, SettledState, Members
  <1> QED
    BY <1>1 DEF Required, Registered

LEMMA AlikeItself == ASSUME NEW s, NEW t, t.members = s.members PROVE AlikeMembers(s, t)
  BY DEF AlikeMembers

LEMMA CountedAlike ==
    ASSUME NEW s, NEW t, AlikeMembers(s, t), t.manifests = s.manifests,
           t.completed = s.completed, t.failed = s.failed
    PROVE  Counted(s) <=> Counted(t)
  <1>1. /\ Current(t, t.completed) = Current(s, s.completed)
        /\ Current(t, t.failed) = Current(s, s.failed)
        /\ Required(t) = Required(s)
    BY CurrentFrame, RequiredAlike
  <1> QED
    BY <1>1 DEF Counted

\* `Sane' depends on neither the epoch nor the set of unrevalidated members.
LEMMA SaneFrame ==
    ASSUME NEW s, NEW t, Sane(s), t.ok, t.state = s.state, t.topology = s.topology,
           t.members = s.members, t.manifests = s.manifests, SameLedger(s, t)
    PROVE  Sane(t)
  <1>1. Counted(s) <=> Counted(t)
    BY AlikeItself, CountedAlike DEF SameLedger
  <1> QED
    BY <1>1 DEF Sane, Blank, SaneMembers, SaneManifests, SameLedger

\* A record of the shuffle's state keeps both.
LEMMA SaneState ==
    ASSUME NEW s \in CoreType, NEW t \in CoreType, Sane(t), Alike(s, t),
           NEW x \in {"Open", "Completed", "Cancelled"},
           x = "Open" => t.state = "Closed",
           x # "Open" => t.topology,
           x = "Completed" => Counted(s),
           NEW u, NEW v, u = Apply(s, StateRecord(x)), v = Apply(t, StateRecord(x))
    PROVE  /\ u \in CoreType /\ v \in CoreType /\ Sane(v) /\ Alike(u, v)
           /\ u.state = x /\ u.epoch = s.epoch
           /\ u.members = s.members /\ v.members = t.members
           /\ u.manifests = s.manifests /\ SameLedger(s, u)
  <1>1. s.ok /\ t.ok /\ s.state = t.state /\ (x = "Open" => t.state \notin Finished)
    BY DEF Sane, Alike, Finished
  <1>2. /\ u \in CoreType /\ u.ok /\ u.state = x /\ u.epoch = s.epoch
        /\ u.topology = (s.topology \/ x = "Open")
        /\ u.members = s.members /\ u.manifests = s.manifests /\ SameLedger(s, u)
    BY <1>1, StateApplied
  <1>3. /\ v \in CoreType /\ v.ok /\ v.state = x /\ v.epoch = t.epoch
        /\ v.topology = (t.topology \/ x = "Open")
        /\ v.members = t.members /\ v.manifests = t.manifests /\ SameLedger(t, v)
    BY <1>1, StateApplied
  <1>4. Alike(u, v)
    BY <1>1, <1>2, <1>3 DEF Alike, AlikeMembers, SameLedger
  <1>5. Counted(s) => Counted(v)
    <2>1. AlikeMembers(s, v)
      BY <1>3 DEF Alike, AlikeMembers
    <2> QED
      BY <1>3, <2>1, CountedAlike DEF Alike, SameLedger
  <1>6. Sane(v)
    <2>1. v.topology /\ v.state # "Closed"
      BY Zenon, <1>3
    <2>2. SaneMembers(v) /\ SaneManifests(v) /\ v.completed \cap v.failed = {}
      BY <1>3 DEF Sane, SaneMembers, SaneManifests, SameLedger
    <2> QED
      BY <1>3, <1>5, <2>1, <2>2 DEF Sane
  <1> QED
    BY <1>2, <1>3, <1>4, <1>6

\* So does a new epoch.
LEMMA SaneEpoch ==
    ASSUME NEW s \in CoreType, NEW t \in CoreType, Sane(t), Alike(s, t),
           NEW u, NEW v, u = Apply(s, EpochRecord(t)), v = Apply(t, EpochRecord(t))
    PROVE  /\ u \in CoreType /\ v \in CoreType /\ Sane(v) /\ Alike(u, v)
           /\ u.state = s.state /\ u.epoch = s.epoch + 1
           /\ u.members = s.members /\ v.members = t.members
           /\ u.manifests = s.manifests /\ SameLedger(s, u)
  <1>1. s.ok /\ t.ok /\ s.epoch = t.epoch /\ t.epoch \in Nat
    BY DEF Sane, Alike, CoreType
  <1>2. t.epoch + 1 \in Nat /\ t.epoch + 1 > t.epoch
    BY <1>1
  <1>3. /\ u \in CoreType /\ u.ok /\ u.state = s.state /\ u.epoch = t.epoch + 1
        /\ SameTopology(s, u) /\ SameLedger(s, u)
    BY <1>1, <1>2, EpochApplied DEF EpochRecord
  <1>4. /\ v \in CoreType /\ v.ok /\ v.state = t.state /\ v.epoch = t.epoch + 1
        /\ SameTopology(t, v) /\ SameLedger(t, v)
    BY <1>1, <1>2, EpochApplied DEF EpochRecord
  <1>5. Alike(u, v)
    BY <1>1, <1>3, <1>4 DEF Alike, AlikeMembers, SameTopology, SameLedger
  <1>6. Sane(v)
    BY <1>4, SaneFrame DEF SameTopology
  <1> QED
    BY <1>1, <1>3, <1>4, <1>5, <1>6 DEF SameTopology

\* What a participant record leaves of the pair.
PairEntered(s, t, u, v, m, i, x, selection) ==
    /\ u \in CoreType /\ v \in CoreType /\ Sane(v) /\ Alike(u, v)
    /\ u.state = s.state /\ u.epoch = s.epoch
    /\ u.members = [s.members EXCEPT ![m] = EntryOf(s.members[m], i, x, selection)]
    /\ v.members = [t.members EXCEPT ![m] = EntryOf(t.members[m], i, x, selection)]
    /\ u.manifests = s.manifests /\ SameLedger(s, u)

\* And, in an open shuffle, a participant record,
LEMMA SaneParticipant ==
    ASSUME NEW s \in CoreType, NEW t \in CoreType, Sane(t), Alike(s, t), t.state = "Open",
           NEW m \in Members, NEW i \in 1 .. MaxIncarnation, NEW x \in States,
           NEW selection \in Selections \cup {{}}, m \in Producers => selection = {},
           NEW u, NEW v,
           u = Apply(s, ParticipantRecord(m, i, x, selection)),
           v = Apply(t, ParticipantRecord(m, i, x, selection))
    PROVE  PairEntered(s, t, u, v, m, i, x, selection)
  <1> DEFINE ks == EntryOf(s.members[m], i, x, selection)
             kt == EntryOf(t.members[m], i, x, selection)
  <1>1. s.ok /\ t.ok /\ s.topology /\ t.topology /\ s.state = "Open"
    BY DEF Sane, Alike
  <1>2. i \in 0 .. MaxIncarnation /\ i # 0
    BY CoordinatorAssumption
  <1>3. Entered(s, u, m, ks)
    BY <1>1, <1>2, ParticipantApplied, Zenon
  <1>4. Entered(t, v, m, kt)
    BY <1>1, <1>2, ParticipantApplied, Zenon
  <1>5. s.members \in [Members -> MemberType] /\ t.members \in [Members -> MemberType]
    BY DEF CoreType
  <1>6. /\ ks.incarnation = kt.incarnation /\ ks.selection = kt.selection
        /\ SettledState(ks.state) = SettledState(kt.state)
    BY DEF Alike, AlikeMembers, EntryOf
  <1>7. kt.incarnation # 0 /\ (m \in Producers => kt.selection = {})
    BY <1>2 DEF EntryOf
  <1> HIDE DEF ks, kt
  <1>8. Alike(u, v)
    <2>1. AlikeMembers(u, v)
      BY <1>3, <1>4, <1>5, <1>6 DEF Alike, AlikeMembers, Entered
    <2> QED
      BY <1>1, <1>3, <1>4, <2>1 DEF Alike, SameLedger, Entered
  <1>9. Sane(v)
    <2>1. SaneMembers(v)
      BY <1>4, <1>5, <1>7 DEF Sane, SaneMembers, Entered
    <2> QED
      BY <1>1, <1>4, <2>1 DEF Sane, SaneManifests, SameLedger, Entered
  <1> QED
    BY <1>3, <1>4, <1>8, <1>9 DEF ks, kt, Entered, PairEntered

\* a manifest,
LEMMA SaneManifest ==
    ASSUME NEW s \in CoreType, NEW t \in CoreType, Sane(t), Alike(s, t), t.state = "Open",
           NEW p \in Partitions, NEW manifest \in ManifestType, manifest.generation # 0,
           ~Older(s, p, manifest), ~Divergent(s, p, manifest),
           NEW u, NEW v,
           u = Apply(s, [kind |-> "manifest", partition |-> p, manifest |-> manifest]),
           v = Apply(t, [kind |-> "manifest", partition |-> p, manifest |-> manifest])
    PROVE  /\ u \in CoreType /\ v \in CoreType /\ Sane(v) /\ Alike(u, v)
           /\ u.state = s.state /\ u.epoch = s.epoch
           /\ u.members = s.members /\ v.members = t.members
           /\ u.manifests = [s.manifests EXCEPT ![p] = manifest] /\ SameLedger(s, u)
  <1>1. s.ok /\ t.ok /\ s.topology /\ t.topology /\ s.state = "Open"
    BY DEF Sane, Alike
  <1>2. t.manifests = s.manifests /\ ~Older(t, p, manifest) /\ ~Divergent(t, p, manifest)
    BY DEF Alike, Older, Divergent
  <1>3. /\ u \in CoreType /\ u.ok /\ u.topology /\ u.state = s.state /\ u.epoch = s.epoch
        /\ u.manifests = [s.manifests EXCEPT ![p] = manifest]
        /\ u.members = s.members /\ SameLedger(s, u)
    BY <1>1, ManifestApplied
  <1>4. /\ v \in CoreType /\ v.ok /\ v.topology /\ v.state = t.state /\ v.epoch = t.epoch
        /\ v.manifests = [t.manifests EXCEPT ![p] = manifest]
        /\ v.members = t.members /\ SameLedger(t, v)
    BY <1>1, <1>2, ManifestApplied
  <1>5. Alike(u, v)
    <2>1. AlikeMembers(u, v)
      BY <1>3, <1>4 DEF Alike, AlikeMembers
    <2>2. v.manifests = u.manifests
      BY <1>2, <1>3, <1>4, Zenon
    <2>3. /\ v.ok = u.ok /\ v.state = u.state /\ v.topology = u.topology /\ v.epoch = u.epoch
          /\ SameLedger(u, v)
      BY Zenon, <1>1, <1>3, <1>4 DEF Alike, SameLedger
    <2> QED
      BY <2>1, <2>2, <2>3 DEF Alike
  <1>6. Sane(v)
    <2>1. SaneManifests(v)
      BY <1>4 DEF Sane, SaneManifests, CoreType
    <2> QED
      BY <1>1, <1>4, <2>1 DEF Sane, SaneMembers, SameLedger
  <1> QED
    BY <1>3, <1>4, <1>5, <1>6

\* What the report on an edge leaves of the pair.
PairSettled(s, t, u, v, e) ==
    /\ u \in CoreType /\ v \in CoreType /\ Sane(v) /\ Alike(u, v)
    /\ u.state = s.state /\ u.epoch = s.epoch
    /\ u.members = s.members /\ v.members = t.members
    /\ u.manifests = s.manifests
    /\ s.completed \subseteq u.completed /\ u.completed \subseteq s.completed \cup {e}
    /\ u.failed \subseteq s.failed \cup {e}

\* a completion of an edge that has not failed
LEMMA SaneCommit ==
    ASSUME NEW s \in CoreType, NEW t \in CoreType, Sane(t), Alike(s, t), t.state = "Open",
           NEW e \in Edges, ~(e[2] < s.manifests[e[1]].generation), e \notin s.failed,
           NEW u, NEW v,
           u = Apply(s, [kind |-> "commit", edge |-> e]),
           v = Apply(t, [kind |-> "commit", edge |-> e])
    PROVE  PairSettled(s, t, u, v, e) /\ e \in u.completed
  <1>1. s.ok /\ t.ok /\ s.state = "Open" /\ s.failed = t.failed /\ s.completed = t.completed
        /\ ~(e[2] < t.manifests[e[1]].generation)
    BY DEF Sane, Alike, SameLedger
  <1>2. /\ u \in CoreType /\ u.ok /\ u.state = s.state /\ u.epoch = s.epoch
        /\ SameTopology(s, u)
        /\ u.completed = s.completed \cup {e}
        /\ u.failed = s.failed /\ u.attempts = s.attempts
    BY <1>1, CommitApplied
  <1>3. /\ v \in CoreType /\ v.ok /\ v.state = t.state /\ v.epoch = t.epoch
        /\ SameTopology(t, v)
        /\ v.completed = t.completed \cup {e}
        /\ v.failed = t.failed /\ v.attempts = t.attempts
    BY <1>1, CommitApplied
  <1>4. Alike(u, v)
    <2>1. AlikeMembers(u, v)
      BY <1>2, <1>3 DEF Alike, AlikeMembers, SameTopology
    <2> QED
      BY Zenon, <1>1, <1>2, <1>3, <2>1 DEF Alike, SameLedger, SameTopology
  <1>5. Sane(v)
    BY <1>1, <1>3 DEF Sane, Blank, SaneMembers, SaneManifests, SameTopology
  <1> QED
    BY <1>2, <1>3, <1>4, <1>5 DEF SameTopology, PairSettled

\* and a failure of an edge that has not completed.
LEMMA SaneFailure ==
    ASSUME NEW s \in CoreType, NEW t \in CoreType, Sane(t), Alike(s, t), t.state = "Open",
           NEW e \in Edges, e \notin s.completed, NEW n \in 0 .. MaxAttempts, NEW b \in BOOLEAN,
           NEW u, NEW v,
           u = Apply(s, [kind |-> "failure", edge |-> e, attempts |-> n, permanent |-> b]),
           v = Apply(t, [kind |-> "failure", edge |-> e, attempts |-> n, permanent |-> b])
    PROVE  PairSettled(s, t, u, v, e)
  <1>1. s.ok /\ t.ok /\ s.state = "Open" /\ s.failed = t.failed /\ s.completed = t.completed
    BY DEF Sane, Alike, SameLedger
  <1> DEFINE failed == IF b THEN s.failed \cup {e} ELSE s.failed
             attempts == [s.attempts EXCEPT ![e] = n]
  <1>2. t.attempts = s.attempts
    BY DEF Alike, SameLedger
  <1>3. /\ u \in CoreType /\ u.ok /\ u.state = s.state /\ u.epoch = s.epoch
        /\ SameTopology(s, u) /\ u.completed = s.completed
        /\ u.failed = failed /\ u.attempts = attempts
    BY <1>1, FailureApplied
  <1>4. /\ v \in CoreType /\ v.ok /\ v.state = t.state /\ v.epoch = t.epoch
        /\ SameTopology(t, v) /\ v.completed = t.completed
        /\ v.failed = failed /\ v.attempts = attempts
    <2>1. /\ v \in CoreType /\ v.ok /\ v.state = t.state /\ v.epoch = t.epoch
          /\ SameTopology(t, v) /\ v.completed = t.completed
          /\ v.failed = (IF b THEN t.failed \cup {e} ELSE t.failed)
          /\ v.attempts = [t.attempts EXCEPT ![e] = n]
      BY <1>1, FailureApplied
    <2> QED
      BY <1>1, <1>2, <2>1, Zenon
  <1>5. failed \subseteq s.failed \cup {e}
    OBVIOUS
  <1> HIDE DEF failed, attempts
  <1>6. Alike(u, v)
    <2>1. AlikeMembers(u, v)
      BY <1>3, <1>4 DEF Alike, AlikeMembers, SameTopology
    <2> QED
      BY Zenon, <1>1, <1>2, <1>3, <1>4, <2>1 DEF Alike, SameLedger, SameTopology
  <1>7. Sane(v)
    <2>1. v.completed \cap v.failed = {}
      BY <1>1, <1>4, <1>5 DEF Sane
    <2> QED
      BY <1>1, <1>4, <2>1 DEF Sane, Blank, SaneMembers, SaneManifests, SameTopology
  <1> QED
    BY <1>3, <1>4, <1>5, <1>6, <1>7 DEF SameTopology, PairSettled

----------------------------------------------------------------------------
(***************************************************************************)
(* Demotion, and the first record of a participant.                         *)
(***************************************************************************)

LEMMA DemotedAlike ==
    ASSUME NEW s \in CoreType
    PROVE  /\ Demoted(s) \in CoreType /\ Alike(Demoted(s), s)
           /\ \A m \in Members : ~HoldsAuthority(Demoted(s), m)
  <1> DEFINE suspect == {m \in Members : HoldsAuthority(s, m)}
             members == [m \in Members |->
                             IF m \in suspect THEN [s.members[m] EXCEPT !.state = "Suspect"]
                             ELSE s.members[m]]
  <1>1. Demoted(s) = [s EXCEPT !.unrevalidated = suspect, !.members = members]
    BY DEF Demoted
  <1>2. s.members \in [Members -> MemberType]
    BY DEF CoreType
  <1>3. ASSUME NEW m \in Members
        PROVE  /\ members[m] \in MemberType
               /\ members[m].incarnation = s.members[m].incarnation
               /\ members[m].selection = s.members[m].selection
               /\ SettledState(members[m].state) = SettledState(s.members[m].state)
               /\ members[m].state # "Active"
    <2>1. CASE m \in suspect
      <3>1. members[m] = [s.members[m] EXCEPT !.state = "Suspect"] /\ s.members[m].state = "Active"
        BY <2>1 DEF HoldsAuthority
      <3> QED
        BY <1>2, <3>1 DEF MemberType, States, SettledState
    <2>2. CASE m \notin suspect
      <3>1. members[m] = s.members[m] /\ s.members[m].state # "Active"
        BY <2>2 DEF HoldsAuthority
      <3> QED
        BY Zenon, <1>2, <3>1
    <2> QED
      BY <2>1, <2>2
  <1>4. members \in [Members -> MemberType] /\ suspect \in SUBSET Members
    BY <1>3
  <1> HIDE DEF members, suspect
  <1>5. /\ Demoted(s) \in CoreType /\ Demoted(s).members = members
        /\ Demoted(s).ok = s.ok /\ Demoted(s).state = s.state
        /\ Demoted(s).topology = s.topology /\ Demoted(s).epoch = s.epoch
        /\ Demoted(s).manifests = s.manifests /\ SameLedger(s, Demoted(s))
    BY Zenon, <1>1, <1>4 DEF CoreType, SameLedger
  <1>6. AlikeMembers(Demoted(s), s)
    BY <1>3, <1>5 DEF AlikeMembers
  <1>7. Alike(Demoted(s), s)
    BY <1>5, <1>6 DEF Alike, SameLedger
  <1> QED
    BY <1>3, <1>5, <1>7 DEF HoldsAuthority

\* Two coordinators that are alike differ in what a restart takes away only.
LEMMA SettledAlike ==
    ASSUME NEW s \in CoreType, NEW t \in CoreType, Alike(s, t)
    PROVE  Settled(s) = Settled(t)
  <1> DEFINE ds == [Demoted(s) EXCEPT !.unrevalidated = {}]
             dt == [Demoted(t) EXCEPT !.unrevalidated = {}]
  <1>1. Demoted(s) \in CoreType /\ Alike(Demoted(s), s)
        /\ Demoted(t) \in CoreType /\ Alike(Demoted(t), t)
        /\ \A m \in Members : /\ Demoted(s).members[m].state # "Active"
                              /\ Demoted(t).members[m].state # "Active"
    BY DemotedAlike DEF HoldsAuthority
  <1>2. Demoted(s).members = Demoted(t).members
    <2>1. /\ Demoted(s).members \in [Members -> MemberType]
          /\ Demoted(t).members \in [Members -> MemberType]
      BY <1>1 DEF CoreType
    <2>2. ASSUME NEW m \in Members
          PROVE  Demoted(s).members[m] = Demoted(t).members[m]
      <3>1. /\ Demoted(s).members[m].incarnation = Demoted(t).members[m].incarnation
            /\ Demoted(s).members[m].selection = Demoted(t).members[m].selection
            /\ SettledState(Demoted(s).members[m].state)
                   = SettledState(Demoted(t).members[m].state)
        BY <1>1 DEF Alike, AlikeMembers
      <3>2. Demoted(s).members[m].state = Demoted(t).members[m].state
        BY <1>1, <3>1 DEF SettledState
      <3>3. Demoted(s).members[m] \in MemberType /\ Demoted(t).members[m] \in MemberType
        BY <2>1
      <3> QED
        BY <3>1, <3>2, <3>3 DEF MemberType
    <2> QED
      BY <2>1, <2>2
  <1>3. /\ Demoted(s).ok = Demoted(t).ok /\ Demoted(s).state = Demoted(t).state
        /\ Demoted(s).topology = Demoted(t).topology /\ Demoted(s).epoch = Demoted(t).epoch
        /\ Demoted(s).manifests = Demoted(t).manifests
        /\ Demoted(s).completed = Demoted(t).completed
        /\ Demoted(s).failed = Demoted(t).failed
        /\ Demoted(s).attempts = Demoted(t).attempts
    BY <1>1 DEF Alike, SameLedger
  <1> QED
    BY Zenon, <1>1, <1>2, <1>3 DEF Settled, CoreType

LEMMA CoreExtensional ==
    ASSUME NEW t \in CoreType, NEW u \in CoreType, t.members = u.members,
           t.ok = u.ok, t.topology = u.topology, t.state = u.state,
           t.epoch = u.epoch, t.manifests = u.manifests, t.unrevalidated = u.unrevalidated,
           t.completed = u.completed, t.failed = u.failed, t.attempts = u.attempts
    PROVE  t = u
  BY DEF CoreType

\* The first record of a participant enters it as it is.
LEMMA FirstEntry ==
    ASSUME NEW s \in CoreType, s.ok, s.topology, NEW m \in Members, NEW entry \in MemberType,
           entry.incarnation # 0, s.members[m] = Unregistered
    PROVE  Apply(s, ParticipantRecord(m, entry.incarnation, entry.state, entry.selection))
               = [s EXCEPT !.members = [s.members EXCEPT ![m] = entry]]
  <1> DEFINE r == ParticipantRecord(m, entry.incarnation, entry.state, entry.selection)
             t == Apply(s, r)
             u == [s EXCEPT !.members = [s.members EXCEPT ![m] = entry]]
  <1>1. entry.incarnation \in 0 .. MaxIncarnation /\ entry.state \in States
        /\ entry.selection \in Selections \cup {{}}
    BY DEF MemberType
  <1>2. EntryOf(Unregistered, entry.incarnation, entry.state, entry.selection) = entry
    BY DEF EntryOf, Unregistered, MemberType
  <1>3. Entered(s, t, m, entry)
    <2>1. Entered(s, t, m, EntryOf(s.members[m], entry.incarnation, entry.state, entry.selection))
      BY <1>1, ParticipantApplied, Zenon
    <2> QED
      BY <1>2, <2>1
  <1>4. t.unrevalidated = s.unrevalidated
    <2> DEFINE registered == RegisterIn(s, m, entry.incarnation, entry.selection)
               set == IF entry.state = "Active" THEN registered
                      ELSE SetState(registered, m, entry.state)
    <2>1. ~FreshReturn(s, r)
      BY DEF FreshReturn, Registered, ParticipantRecord, Unregistered
    <2>2. t = [set EXCEPT !.unrevalidated = set.unrevalidated]
      BY <2>1 DEF Apply, ApplyParticipant, ParticipantRecord
    <2>3. registered \in CoreType /\ registered.unrevalidated = s.unrevalidated
      <3> DEFINE new == [incarnation |-> entry.incarnation, state |-> "Active",
                         selection |-> entry.selection]
      <3>1. new \in MemberType
        BY <1>1 DEF MemberType, States
      <3>2. registered = [s EXCEPT !.members = [s.members EXCEPT ![m] = new]]
        BY DEF RegisterIn, Unregistered
      <3> HIDE DEF new, registered
      <3>3. [s.members EXCEPT ![m] = new] \in [Members -> MemberType]
        BY <3>1 DEF CoreType
      <3> QED
        BY <3>2, <3>3 DEF CoreType
    <2> HIDE DEF registered
    <2>4. SetState(registered, m, entry.state).unrevalidated = registered.unrevalidated
          /\ SetState(registered, m, entry.state) \in CoreType
      <3> DEFINE changed == [registered.members[m] EXCEPT !.state = entry.state]
      <3>1. registered.members \in [Members -> MemberType]
        BY <2>3 DEF CoreType
      <3>2. changed \in MemberType
        BY <1>1, <3>1 DEF MemberType
      <3>3. SetState(registered, m, entry.state) =
                [registered EXCEPT !.members = [registered.members EXCEPT ![m] = changed]]
        BY DEF SetState
      <3> HIDE DEF changed
      <3>4. [registered.members EXCEPT ![m] = changed] \in [Members -> MemberType]
        BY <3>1, <3>2
      <3> QED
        BY <2>3, <3>3, <3>4 DEF CoreType
    <2> QED
      BY <2>2, <2>3, <2>4 DEF CoreType
  <1>5. [s.members EXCEPT ![m] = entry] \in [Members -> MemberType]
    BY DEF CoreType
  <1>6. u \in CoreType /\ u.members = [s.members EXCEPT ![m] = entry]
        /\ u.ok = s.ok /\ u.topology = s.topology /\ u.state = s.state
        /\ u.epoch = s.epoch /\ u.manifests = s.manifests /\ SameLedger(s, u)
        /\ u.unrevalidated = s.unrevalidated
    BY Zenon, <1>5 DEF CoreType, SameLedger
  <1> HIDE DEF u, t
  <1>7. t = u
    <2>1. /\ t \in CoreType /\ t.members = u.members
          /\ t.ok = u.ok /\ t.topology = u.topology /\ t.state = u.state
          /\ t.epoch = u.epoch /\ t.manifests = u.manifests
          /\ t.completed = u.completed /\ t.failed = u.failed /\ t.attempts = u.attempts
      BY <1>3, <1>6 DEF SameLedger, Entered
    <2>2. t.unrevalidated = u.unrevalidated
      BY <1>4, <1>6
    <2> QED
      BY Zenon, <1>6, <2>1, <2>2, CoreExtensional
  <1> QED
    BY <1>7 DEF t, u

----------------------------------------------------------------------------
(***************************************************************************)
(* What the steps have in common.                                           *)
(***************************************************************************)

LEMMA InvInit == Init => Inv
  <1> SUFFICES ASSUME Init PROVE Inv
    OBVIOUS
  <1> USE DEF Init
  <1>1. TypeInv
    BY FreshType, CoordinatorAssumption DEF TypeInv, TypeOK
  <1>2. Sane(Fresh)
    <2>1. SaneMembers(Fresh) /\ SaneManifests(Fresh) /\ Blank(Fresh)
      BY FreshType DEF SaneMembers, SaneManifests, Blank, Unregistered, Members
    <2> QED
      BY <2>1, FreshType DEF Sane
  <1>3. Alike(Fresh, Fresh)
    BY DEF Alike, AlikeMembers, SameLedger
  <1>4. RecoveryInv
    BY <1>2, <1>3 DEF RecoveryInv
  <1>5. ManifestInv
    BY FreshType DEF ManifestInv, AgreedContent
  <1>6. EpochInv /\ AckInv /\ CancelInv /\ GrantInv
    BY FreshType DEF EpochInv, CommitsOfThisEpoch, AckInv, DemotedHoldNothing, CancelInv, GrantInv
  <1> QED
    BY <1>1, <1>4, <1>5, <1>6 DEF Inv

\* Steps that leave the topology as it is and hand out no grant.
LEMMA KeptStep ==
    ASSUME Inv, up, up', core' \in CoreType, stored' \in CoreType,
           Sane(stored'), Alike(core', stored'), core.state # "Closed",
           core'.epoch = core.epoch, core'.members = core.members,
           stored'.members = stored.members, core'.manifests = core.manifests,
           grants' \subseteq grants, issued' = issued, next_attempt' = next_attempt,
           demoted' = demoted, core'.state # "Closed"
    PROVE  /\ TypeInv' /\ RecoveryInv' /\ ManifestInv' /\ DemotedHoldNothing'
           /\ \A g \in issued' : Retired(g)'
           /\ \A g \in grants' : g.epoch = core'.epoch
  <1>1. TypeInv'
    BY DEF Inv, TypeInv, TypeOK
  <1>2. RecoveryInv'
    BY DEF RecoveryInv
  <1>3. stored'.manifests = stored.manifests
    BY DEF Inv, RecoveryInv, Alike
  <1>4. ManifestInv'
    <2>1. stored'.state # "Closed"
      BY DEF Alike
    <2>2. \A g \in issued : Granted(g)'
      BY <1>3 DEF Inv, ManifestInv, Granted
    <2>3. AgreedContent'
      BY DEF Inv, ManifestInv, AgreedContent
    <2> QED
      BY <1>3, <2>1, <2>2, <2>3 DEF Inv, ManifestInv
  <1>5. DemotedHoldNothing'
    BY DEF Inv, AckInv, DemotedHoldNothing, HoldsAuthority
  <1>6. \A g \in issued' : Retired(g)'
    BY DEF Inv, EpochInv, Retired, HoldsAuthority
  <1>7. \A g \in grants' : g.epoch = core'.epoch
    BY DEF Inv, EpochInv
  <1> QED
    BY <1>1, <1>2, <1>4, <1>5, <1>6, <1>7

\* Incarnations that only rise keep what was granted behind them.
LEMMA RisingIncarnations ==
    ASSUME Inv, stored \in CoreType, stored' \in CoreType,
           stored'.manifests = stored.manifests, stored'.state # "Closed", issued' = issued,
           \A k \in Members : stored.members[k].incarnation =< stored'.members[k].incarnation
    PROVE  ManifestInv'
  <1>1. \A k \in Producers : stored.members[k].incarnation \in Nat
                             /\ stored'.members[k].incarnation \in Nat
    BY CoordinatorAssumption DEF MemberType, CoreType, Members
  <1>2. ASSUME NEW n \in Nat, NEW k \in Producers, n =< stored.members[k].incarnation
        PROVE  n =< stored'.members[k].incarnation
    BY <1>1, <1>2 DEF Members
  <1>3. \A g \in issued : g.manifest.incarnation \in Nat
    BY CoordinatorAssumption DEF Inv, TypeInv, GrantType, ManifestType
  <1>4. \A g \in issued : Granted(g)'
    BY <1>2, <1>3 DEF Inv, ManifestInv, Granted
  <1>5. \A p \in Partitions : stored.manifests[p].incarnation \in Nat
    BY CoordinatorAssumption DEF CoreType, ManifestType
  <1>6. \A p \in Partitions : stored'.manifests[p] # NoManifest =>
             /\ stored'.manifests[p].producer \in Producers
             /\ stored'.manifests[p].incarnation =<
                    stored'.members[stored'.manifests[p].producer].incarnation
    BY Zenon, <1>2, <1>5 DEF Inv, ManifestInv
  <1> QED
    BY <1>4, <1>6 DEF Inv, ManifestInv, AgreedContent

\* A producer regains authority with a higher incarnation only.
LEMMA StaysRetired ==
    ASSUME Inv, up, core \in CoreType, Alike(core, stored), NEW m \in Members, NEW entry,
           core'.epoch = core.epoch, core'.members = [core.members EXCEPT ![m] = entry],
           entry.incarnation \in Nat, entry.incarnation >= core.members[m].incarnation,
           m \in Producers /\ entry.state = "Active" =>
               entry.incarnation > core.members[m].incarnation \/ core.members[m].state = "Active",
           NEW g \in issued
    PROVE  Retired(g)'
  <1>1. /\ Retired(g) /\ g.manifest.producer \in Producers
        /\ g.manifest.incarnation =< stored.members[g.manifest.producer].incarnation
    BY Zenon DEF Inv, EpochInv, ManifestInv, Granted
  <1>2. core.members \in [Members -> MemberType]
    BY DEF CoreType
  <1>3. /\ core.members[m].incarnation \in Nat
        /\ core.members[m].incarnation = stored.members[m].incarnation
    BY <1>2, CoordinatorAssumption DEF Alike, AlikeMembers, MemberType
  <1>4. CASE g.manifest.producer = m
    <2>1. g.manifest.incarnation \in Nat
      BY CoordinatorAssumption DEF Inv, TypeInv, GrantType, ManifestType
    <2>2. core'.members[m] = entry
      BY <1>2
    <2>3. CASE entry.incarnation > core.members[m].incarnation
      BY <1>1, <1>3, <1>4, <2>1, <2>2, <2>3 DEF Retired
    <2>4. CASE entry.incarnation = core.members[m].incarnation
      <3>1. m \in Producers /\ ~(entry.incarnation > core.members[m].incarnation)
        BY <1>1, <1>3, <1>4, <2>4
      <3>2. HoldsAuthority(core', m) => HoldsAuthority(core, m)
        BY <2>2, <3>1 DEF HoldsAuthority
      <3> QED
        BY <1>1, <1>4, <2>2, <2>4, <3>2 DEF Retired
    <2> QED
      BY <1>3, <2>3, <2>4
  <1>5. CASE g.manifest.producer # m
    <2>1. core'.members[g.manifest.producer] = core.members[g.manifest.producer]
      BY <1>1, <1>2, <1>5 DEF Members
    <2> QED
      BY <1>1, <2>1 DEF Retired, HoldsAuthority
  <1> QED
    BY <1>4, <1>5

\* A report resolves the attempt, and may finish the shuffle.
LEMMA ResolveStep ==
    ASSUME NEW g, NEW r, NEW c, NEW d, c = Apply(core, r), d = Apply(stored, r),
           core \in CoreType, stored \in CoreType,
           c \in CoreType, d \in CoreType, Sane(d), Alike(c, d), c.state = "Open",
           Resolve(g, r)
    PROVE  /\ core' \in CoreType /\ stored' \in CoreType
           /\ Sane(stored') /\ Alike(core', stored')
           /\ core'.state # "Closed" /\ core'.epoch = c.epoch
           /\ core'.members = c.members /\ stored'.members = d.members
           /\ core'.manifests = c.manifests
           /\ core'.completed = c.completed /\ core'.failed = c.failed
           /\ grants' = grants \ {g}
  <1> DEFINE done == StateRecord("Completed")
  <1>1. PICK closed \in BOOLEAN :
            /\ core' = IF closed /\ Closes(c) THEN Apply(c, done) ELSE c
            /\ stored' = IF closed /\ Closes(c) THEN Apply(d, done) ELSE d
    BY DEF Resolve
  <1>2. grants' = grants \ {g}
    BY DEF Resolve
  <1>3. CASE closed /\ Closes(c)
    <2>1. core' = Apply(c, done) /\ stored' = Apply(d, done)
      BY <1>1, <1>3
    <2>2. Counted(c)
      BY <1>3 DEF Closes, Counted
    <2>3. d.topology
      BY DEF Sane, Alike
    <2>4. /\ core' \in CoreType /\ stored' \in CoreType
          /\ Sane(stored') /\ Alike(core', stored')
          /\ core'.state = "Completed" /\ core'.epoch = c.epoch
          /\ core'.members = c.members /\ stored'.members = d.members
          /\ core'.manifests = c.manifests /\ SameLedger(c, core')
      BY <2>1, <2>2, <2>3, SaneState
    <2> QED
      BY <1>2, <2>4 DEF SameLedger
  <1>4. CASE ~(closed /\ Closes(c))
    <2>1. core' = c /\ stored' = d
      BY <1>1, <1>4
    <2> QED
      BY <1>2, <2>1
  <1> QED
    BY <1>3, <1>4

\* What the invariant says of a grant that is in flight.
LEMMA GrantedEdge ==
    ASSUME Inv, NEW g \in issued
    PROVE  /\ g \in GrantType /\ EdgeOf(g) \in Edges /\ EdgeOf(g)[1] = g.partition
           /\ EdgeOf(g)[2] = g.manifest.generation /\ g.ordinal \in 0 .. MaxAttempts
  <1>1. g \in GrantType /\ g.manifest.generation # 0
    BY DEF Inv, TypeInv, ManifestInv, Granted
  <1>2. g.manifest \in ManifestType /\ g.partition \in Partitions /\ g.consumer \in Consumers
        /\ g.ordinal \in 1 .. MaxAttempts
    BY <1>1 DEF GrantType
  <1>3. g.manifest.generation \in 1 .. MaxGeneration
    BY <1>1, <1>2, CoordinatorAssumption DEF ManifestType
  <1> QED
    BY <1>1, <1>2, <1>3, CoordinatorAssumption DEF EdgeOf, Edges

LEMMA CancelStep == ASSUME Inv, CancelShuffle PROVE Inv'
  <1>1. /\ up /\ core.state = "Open" /\ core.topology
        /\ core' = Apply(core, StateRecord("Cancelled"))
        /\ stored' = Apply(stored, StateRecord("Cancelled"))
        /\ grants' = {} /\ cancelled' = TRUE
        /\ up' = up /\ next_attempt' = next_attempt /\ issued' = issued /\ acked' = acked
        /\ demoted' = demoted /\ crossed' = crossed
    BY DEF CancelShuffle, Serving, CommitRecord
  <1>2. /\ core \in CoreType /\ stored \in CoreType /\ Sane(stored) /\ Alike(core, stored)
        /\ stored.topology
    BY Zenon, <1>1 DEF Inv, TypeInv, TypeOK, RecoveryInv, Alike
  <1>3. /\ core' \in CoreType /\ stored' \in CoreType /\ Sane(stored') /\ Alike(core', stored')
        /\ core'.state = "Cancelled" /\ core'.epoch = core.epoch
        /\ core'.members = core.members /\ stored'.members = stored.members
        /\ core'.manifests = core.manifests /\ SameLedger(core, core')
    BY <1>1, <1>2, SaneState
  <1>4. /\ TypeInv' /\ RecoveryInv' /\ ManifestInv' /\ DemotedHoldNothing'
        /\ \A g \in issued' : Retired(g)'
        /\ \A g \in grants' : g.epoch = core'.epoch
    BY <1>1, <1>3, KeptStep
  <1>5. EpochInv'
    BY <1>1, <1>4 DEF Inv, EpochInv, CommitsOfThisEpoch
  <1>6. AckInv'
    BY <1>1, <1>2, <1>3, <1>4 DEF Inv, AckInv, Alike, SameLedger
  <1>7. CancelInv' /\ GrantInv'
    BY <1>1, <1>3 DEF CancelInv, GrantInv, Alike
  <1> QED
    BY <1>4, <1>5, <1>6, <1>7 DEF Inv

LEMMA CrashStep == ASSUME Inv, Crash PROVE Inv'
  <1>1. /\ up' = FALSE /\ core' = Fresh /\ grants' = {} /\ next_attempt' = 1
        /\ stored' = stored /\ issued' = issued /\ acked' = acked /\ cancelled' = cancelled
        /\ demoted' = demoted /\ crossed' = crossed
    BY DEF Crash, history
  <1>2. TypeInv' /\ RecoveryInv'
    <2>1. 1 \in 1 .. MaxGrants + 1
      BY CoordinatorAssumption
    <2>2. TypeInv'
      BY Zenon, <1>1, <2>1, FreshType DEF Inv, TypeInv, TypeOK
    <2>3. RecoveryInv'
      BY <1>1 DEF Inv, RecoveryInv
    <2> QED
      BY <2>2, <2>3
  <1>3. ManifestInv'
    BY SMTT(30), <1>1 DEF Inv, ManifestInv, Granted, AgreedContent
  <1>4. EpochInv' /\ AckInv' /\ CancelInv' /\ GrantInv'
    BY <1>1 DEF Inv, EpochInv, CommitsOfThisEpoch, AckInv, DemotedHoldNothing, CancelInv, GrantInv
  <1> QED
    BY <1>2, <1>3, <1>4 DEF Inv

\* It keeps the invariant.
LEMMA SettleStep ==
    ASSUME Inv, NEW g \in grants, NEW r, NEW c, NEW d, c = Apply(core, r), d = Apply(stored, r),
           PairSettled(core, stored, c, d, EdgeOf(g)), Resolve(g, r),
           up, up' = up, core.state = "Open", issued' = issued, next_attempt' = next_attempt,
           demoted' = demoted, cancelled' = cancelled, acked' \subseteq acked \cup c.completed,
           CommitsOfThisEpoch'
    PROVE  Inv'
  <1>1. core \in CoreType /\ stored \in CoreType /\ Alike(core, stored)
    BY DEF Inv, TypeInv, TypeOK, RecoveryInv
  <1>2. /\ c \in CoreType /\ d \in CoreType /\ Sane(d) /\ Alike(c, d)
        /\ c.state = core.state /\ c.epoch = core.epoch
        /\ c.members = core.members /\ d.members = stored.members
        /\ c.manifests = core.manifests
        /\ core.completed \subseteq c.completed
        /\ c.completed \subseteq core.completed \cup {EdgeOf(g)}
        /\ c.failed \subseteq core.failed \cup {EdgeOf(g)}
    BY Zenon DEF PairSettled
  <1>3. /\ core' \in CoreType /\ stored' \in CoreType
        /\ Sane(stored') /\ Alike(core', stored')
        /\ core'.state # "Closed" /\ core'.epoch = c.epoch
        /\ core'.members = c.members /\ stored'.members = d.members
        /\ core'.manifests = c.manifests
        /\ core'.completed = c.completed /\ core'.failed = c.failed
        /\ grants' = grants \ {g}
    BY Zenon, <1>1, <1>2, ResolveStep
  <1>4. grants' \subseteq grants /\ up' /\ core.state # "Closed"
    BY <1>3
  <1>5. /\ TypeInv' /\ RecoveryInv' /\ ManifestInv' /\ DemotedHoldNothing'
        /\ \A h \in issued' : Retired(h)'
        /\ \A h \in grants' : h.epoch = core'.epoch
    BY Zenon, <1>2, <1>3, <1>4, KeptStep
  <1>6. EpochInv'
    BY Zenon, <1>5 DEF EpochInv
  <1>7. AckInv'
    <2>1. stored.completed = core.completed /\ stored'.completed = c.completed
      BY <1>1, <1>3 DEF Alike, SameLedger
    <2> QED
      BY <1>2, <1>5, <2>1 DEF Inv, AckInv
  <1>8. CancelInv'
    BY <1>1 DEF Inv, CancelInv, Alike
  <1>9. GrantInv'
    <2>1. ASSUME NEW h \in grants' PROVE h \in grants /\ EdgeOf(h) # EdgeOf(g)
      BY <1>3 DEF Inv, GrantInv
    <2>2. \A h \in grants' : EdgeOf(h) \notin core'.completed \cup core'.failed
      BY <1>2, <1>3, <2>1 DEF Inv, GrantInv
    <2> QED
      BY Zenon, <2>1, <2>2 DEF Inv, GrantInv
  <1> QED
    BY Zenon, <1>5, <1>6, <1>7, <1>8, <1>9 DEF Inv

LEMMA InvImplies ==
    ASSUME Inv
    PROVE  /\ RecoveryReproduces /\ RecoverySucceeds /\ AckedSurvives /\ CancellationSticks
           /\ CommitsOfThisEpoch /\ DemotedHoldNothing /\ ResolvedOnce /\ AgreedContent
  <1>1. core \in CoreType /\ stored \in CoreType /\ Sane(stored)
        /\ (up => Alike(core, stored)) /\ (~up => core = Fresh)
    BY SMTT(30) DEF Inv, TypeInv, TypeOK, RecoveryInv
  <1>2. RecoveryReproduces /\ RecoverySucceeds
    <2>1. up => Settled(stored) = Settled(core)
      BY <1>1, SettledAlike
    <2> QED
      BY <1>1, <2>1 DEF Inv, TypeInv, RecoveryReproduces, RecoverySucceeds, Sane
  <1>3. AckedSurvives /\ CancellationSticks
    BY <1>1 DEF Inv, AckInv, CancelInv, AckedSurvives, CancellationSticks, Alike, SameLedger
  <1>4. core.completed \cap core.failed = {}
    <2>1. CASE up
      BY <1>1, <2>1 DEF Alike, SameLedger, Sane
    <2>2. CASE ~up
      BY <1>1, <2>2, FreshType
    <2> QED
      BY <2>1, <2>2
  <1>5. ResolvedOnce
    BY <1>4 DEF ResolvedOnce, Inv, GrantInv
  <1>6. CommitsOfThisEpoch /\ DemotedHoldNothing /\ AgreedContent
    BY DEF Inv, EpochInv, AckInv, ManifestInv
  <1> QED
    BY <1>2, <1>3, <1>5, <1>6

============================================================================
