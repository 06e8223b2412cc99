--------------------------- MODULE CoordinatorSteps ---------------------------
(***************************************************************************)
(* The invariant is kept, action by action: the steps but the one that      *)
(* rewrites the log.                                                        *)
(***************************************************************************)
EXTENDS CoordinatorRecords

\* A participant record that does not go back to an earlier incarnation, and gives
\* authority to no incarnation that is known already.
LEMMA ParticipantStep ==
    ASSUME Inv, up, core.state = "Open", NEW m \in Members, NEW i \in 1 .. MaxIncarnation,
           NEW x \in States, NEW selection \in Selections \cup {{}},
           m \in Producers => selection = {},
           i >= core.members[m].incarnation,
           x = "Active" \/ i = core.members[m].incarnation,
           CommitRecord(ParticipantRecord(m, i, x, selection)),
           \/ demoted' = demoted \ {m}
           \/ demoted' = demoted /\ EntryOf(core.members[m], i, x, selection) = core.members[m],
           UNCHANGED <<up, grants, next_attempt, issued, acked, cancelled, crossed, bounds>>
    PROVE  Inv'
  <1> DEFINE entry == EntryOf(core.members[m], i, x, selection)
             kept == EntryOf(stored.members[m], i, x, selection)
  <1>1. /\ core \in CoreType /\ stored \in CoreType /\ Sane(stored) /\ Alike(core, stored)
        /\ stored.state = "Open"
    BY SMTT(30) DEF Inv, TypeInv, TypeOK, RecoveryInv, Alike
  <1>2. PairEntered(core, stored, core', stored', m, i, x, selection)
    BY Zenon, <1>1, SaneParticipant DEF CommitRecord
  <1>3. /\ core' \in CoreType /\ stored' \in CoreType /\ Sane(stored') /\ Alike(core', stored')
        /\ core'.state = core.state /\ core'.epoch = core.epoch
        /\ core'.members = [core.members EXCEPT ![m] = entry]
        /\ stored'.members = [stored.members EXCEPT ![m] = kept]
        /\ core'.manifests = core.manifests /\ SameLedger(core, core')
    BY Zenon, <1>2 DEF PairEntered
  <1>4. core.members \in [Members -> MemberType] /\ stored.members \in [Members -> MemberType]
    BY <1>1 DEF CoreType
  <1>5. /\ core.members[m].incarnation = stored.members[m].incarnation
        /\ core.members[m].incarnation \in Nat /\ i \in Nat
        /\ m \in Producers => core.members[m].selection = {}
    BY <1>1, <1>4, CoordinatorAssumption DEF Alike, AlikeMembers, Sane, SaneMembers, MemberType
  <1>6. kept.incarnation = i /\ entry.incarnation = i
    BY DEF EntryOf
  \* Authority is given with a new incarnation only, or with a consumer's new selection.
  <1>7. m \in Producers /\ entry.state = "Active" =>
            i > core.members[m].incarnation \/ core.members[m].state = "Active"
    BY SMTT(30), <1>5 DEF EntryOf
  <1> HIDE DEF entry, kept
  <1>8. \A k \in Members : stored.members[k].incarnation =< stored'.members[k].incarnation
    <2>1. \A k \in Members : stored.members[k].incarnation \in Nat
      BY SMTT(30), <1>4, CoordinatorAssumption DEF MemberType
    <2> QED
      BY SMTT(30), <1>3, <1>4, <1>5, <1>6, <2>1
  <1>9. stored'.manifests = stored.manifests /\ stored'.state # "Closed"
    BY <1>1, <1>3 DEF Alike
  <1>10. TypeInv' /\ RecoveryInv'
    BY SMTT(30), <1>3 DEF Inv, TypeInv, TypeOK, RecoveryInv
  <1>11. ManifestInv'
    BY Zenon, <1>1, <1>3, <1>8, <1>9, RisingIncarnations
  <1>12. EpochInv'
    <2>1. entry.incarnation \in Nat /\ entry.incarnation >= core.members[m].incarnation
      BY <1>5, <1>6
    <2>2. m \in Producers /\ entry.state = "Active" =>
              entry.incarnation > core.members[m].incarnation \/ core.members[m].state = "Active"
      BY Zenon, <1>6, <1>7
    <2>3. \A g \in issued : Retired(g)'
      BY Zenon, <1>1, <1>3, <2>1, <2>2, StaysRetired
    <2> QED
      BY <1>3, <2>3 DEF Inv, EpochInv, CommitsOfThisEpoch
  <1>13. AckInv'
    <2>1. stored'.completed = stored.completed
      BY SMTT(30), <1>1, <1>3 DEF Alike, SameLedger
    <2>2. DemotedHoldNothing'
      <3> SUFFICES ASSUME NEW k \in demoted' PROVE ~HoldsAuthority(core', k)
        BY DEF DemotedHoldNothing, HoldsAuthority
      <3>1. k \in demoted /\ k \in Members /\ core.members[k].state # "Active"
        BY SMTT(30) DEF Inv, TypeInv, AckInv, DemotedHoldNothing, HoldsAuthority
      <3>2. k # m \/ entry = core.members[m]
        BY DEF entry
      <3>3. core'.members[k].state = core.members[k].state
        BY Zenon, <1>3, <1>4, <3>1, <3>2
      <3> QED
        BY <3>1, <3>3 DEF HoldsAuthority
    <2> QED
      BY SMTT(30), <2>1, <2>2 DEF Inv, AckInv
  <1>14. CancelInv' /\ GrantInv'
    BY SMTT(30), <1>1, <1>3 DEF Inv, CancelInv, GrantInv, SameLedger, EdgeOf
  <1> QED
    BY SMTT(30), <1>10, <1>11, <1>12, <1>13, <1>14 DEF Inv

LEMMA RegisterStep ==
    ASSUME Inv, NEW m \in Members, NEW i \in 1 .. MaxIncarnation,
           NEW selection \in Selections \cup {{}}, Register(m, i, selection)
    PROVE  Inv'
  <1> DEFINE known == core.members[m]
             repeated == known.incarnation = i /\ known.selection = selection
  <1>1. /\ up /\ core.state = "Open" /\ i >= core.members[m].incarnation
        /\ selection \in IF m \in Producers THEN {{}} ELSE Selections
        /\ CommitRecord(ParticipantRecord(m, i, "Active", selection))
        /\ demoted' = IF repeated THEN demoted ELSE demoted \ {m}
        /\ UNCHANGED <<up, grants, next_attempt, issued, acked, cancelled, crossed, bounds>>
    BY Zenon DEF Register, Serving
  <1>2. m \in Producers => selection = {}
    BY <1>1
  <1>3. repeated => EntryOf(known, i, "Active", selection) = known
    BY DEF EntryOf
  <1>4. "Active" \in States
    BY DEF States
  <1>5. \/ demoted' = demoted \ {m}
        \/ demoted' = demoted /\ EntryOf(known, i, "Active", selection) = known
    BY SMTT(30), <1>1, <1>3
  <1> QED
    BY <1>1, <1>2, <1>4, <1>5, ParticipantStep

LEMMA SetStateStep ==
    ASSUME Inv, NEW m \in Members, NEW x \in ReportedStates, SetParticipantState(m, x)
    PROVE  Inv'
  <1> DEFINE known == core.members[m]
  <1>1. /\ up /\ core.state = "Open" /\ known.incarnation # 0
        /\ CommitRecord(ParticipantRecord(m, known.incarnation, x, known.selection))
        /\ demoted' = IF x = "Active" THEN demoted ELSE demoted \ {m}
        /\ UNCHANGED <<up, grants, next_attempt, issued, acked, cancelled, crossed, bounds>>
    BY Zenon DEF SetParticipantState, Serving, Registered
  <1>2. x \in States
    BY CoordinatorAssumption
  <1>3. known \in MemberType
    BY DEF Inv, TypeInv, TypeOK, CoreType
  <1>4. known.incarnation \in 1 .. MaxIncarnation /\ known.selection \in Selections \cup {{}}
        /\ known.incarnation >= known.incarnation
    BY SMTT(30), <1>1, <1>3, CoordinatorAssumption DEF MemberType
  <1>5. m \in Producers => known.selection = {}
    BY <1>1 DEF Inv, RecoveryInv, Sane, SaneMembers, Alike, AlikeMembers
  <1>6. x = "Active" => EntryOf(known, known.incarnation, x, known.selection) = known
    BY DEF EntryOf
  <1>7. \/ demoted' = demoted \ {m}
        \/ demoted' = demoted /\ EntryOf(known, known.incarnation, x, known.selection) = known
    BY <1>1, <1>6
  <1> QED
    BY <1>1, <1>2, <1>4, <1>5, <1>7, ParticipantStep

LEMMA PublishStep ==
    ASSUME Inv, NEW p \in Partitions, NEW n \in 1 .. MaxGeneration, PublishManifest(p, n),
           Owner(core, p) \in Producers
    PROVE  Inv'
  <1> DEFINE producer == Owner(core, p)
             manifest == [generation |-> n, producer |-> producer,
                          incarnation |-> core.members[producer].incarnation]
             r == [kind |-> "manifest", partition |-> p, manifest |-> manifest]
  <1>1. /\ up /\ core.state = "Open" /\ HasOwner(core)
        /\ ~Older(core, p, manifest) /\ ~Divergent(core, p, manifest)
        /\ core' = Apply(core, r) /\ stored' = Apply(stored, r)
        /\ up' = up /\ grants' = grants /\ next_attempt' = next_attempt /\ issued' = issued
        /\ acked' = acked /\ cancelled' = cancelled /\ demoted' = demoted /\ crossed' = crossed
    BY DEF PublishManifest, Serving, CommitRecord, history
  <1>2. /\ core \in CoreType /\ stored \in CoreType /\ Sane(stored) /\ Alike(core, stored)
        /\ stored.state = "Open"
    BY <1>1 DEF Inv, TypeInv, TypeOK, RecoveryInv, Alike
  <1>3. producer \in Producers
    OBVIOUS
  <1>4. core.members[producer].incarnation \in 0 .. MaxIncarnation
    BY <1>2, <1>3 DEF CoreType, MemberType, Members
  <1>5. manifest \in ManifestType /\ manifest.generation # 0
    BY <1>3, <1>4, CoordinatorAssumption DEF ManifestType
  <1>6. manifest.producer \in Producers
        /\ manifest.incarnation = stored.members[manifest.producer].incarnation
    BY <1>2, <1>3 DEF Alike, AlikeMembers, Members
  <1> HIDE DEF producer, manifest
  <1>7. /\ core' \in CoreType /\ stored' \in CoreType /\ Sane(stored') /\ Alike(core', stored')
        /\ core'.state = core.state /\ core'.epoch = core.epoch
        /\ core'.members = core.members /\ stored'.members = stored.members
        /\ core'.manifests = [core.manifests EXCEPT ![p] = manifest] /\ SameLedger(core, core')
    BY SMTT(30), <1>1, <1>2, <1>5, SaneManifest
  <1>8. stored'.manifests = [stored.manifests EXCEPT ![p] = manifest]
    BY SMTT(30), <1>2, <1>7 DEF Alike
  <1>9. TypeInv' /\ RecoveryInv'
    BY <1>1, <1>7 DEF Inv, TypeInv, TypeOK, RecoveryInv
  <1>10. ManifestInv'
    <2>1. stored.manifests \in [Partitions -> ManifestType]
          /\ stored.members \in [Members -> MemberType]
      BY <1>2 DEF CoreType
    <2>2. manifest = stored.manifests[p] \/ stored.manifests[p].generation < manifest.generation
      <3>1. stored.manifests = core.manifests
        BY <1>2 DEF Alike
      <3>2. stored.manifests[p].generation \in Nat /\ manifest.generation \in Nat
        BY <1>5, <2>1, CoordinatorAssumption DEF ManifestType
      <3> QED
        BY <1>1, <3>1, <3>2 DEF Older, Divergent
    <2>3. ASSUME NEW g \in issued PROVE Granted(g)'
      <3>1. /\ g.manifest.generation \in Nat /\ g.partition \in Partitions
            /\ Granted(g)
        BY SMTT(30), CoordinatorAssumption DEF Inv, TypeInv, ManifestInv, GrantType, ManifestType
      <3>2. CASE g.partition # p
        BY SMTT(30), <1>7, <1>8, <2>1, <3>1, <3>2 DEF Granted
      <3>3. CASE g.partition = p
        <4>1. stored'.manifests[p] = manifest
          BY <1>8, <2>1
        <4>2. stored.manifests[p].generation \in Nat /\ manifest.generation \in Nat
          BY <1>5, <2>1, CoordinatorAssumption DEF ManifestType
        <4>3. g.manifest = manifest \/ g.manifest.generation < manifest.generation
          BY SMTT(30), <2>2, <3>1, <3>3, <4>2 DEF Granted
        <4> QED
          BY SMTT(30), <1>7, <3>1, <3>3, <4>1, <4>3 DEF Granted
      <3> QED
        BY <3>2, <3>3
    <2>4. ASSUME NEW q \in Partitions, stored'.manifests[q] # NoManifest
          PROVE  /\ stored'.manifests[q].producer \in Producers
                 /\ stored'.manifests[q].incarnation =<
                        stored'.members[stored'.manifests[q].producer].incarnation
      <3>1. CASE q = p
        <4>1. stored.members[manifest.producer].incarnation \in Nat
          BY SMTT(30), <1>6, <2>1, CoordinatorAssumption DEF MemberType, Members
        <4> QED
          BY SMTT(30), <1>6, <1>7, <1>8, <2>1, <3>1, <4>1
      <3>2. CASE q # p
        BY SMTT(30), <1>7, <1>8, <2>1, <2>4, <3>2 DEF Inv, ManifestInv
      <3> QED
        BY SMTT(30), <3>1, <3>2
    <2>5. stored'.state # "Closed"
      BY <1>1, <1>7 DEF Alike
    <2> QED
      BY Zenon, <1>1, <2>3, <2>4, <2>5 DEF Inv, ManifestInv, AgreedContent
  <1>11. EpochInv'
    BY Zenon, <1>1, <1>7 DEF Inv, EpochInv, Retired, HoldsAuthority, CommitsOfThisEpoch
  <1>12. AckInv'
    <2>1. stored'.completed = stored.completed
      BY SMTT(30), <1>2, <1>7 DEF Alike, SameLedger
    <2>2. DemotedHoldNothing'
      BY SMTT(30), <1>1, <1>7 DEF Inv, AckInv, DemotedHoldNothing, HoldsAuthority
    <2> QED
      BY Zenon, <1>1, <2>1, <2>2 DEF Inv, AckInv
  <1>13. CancelInv' /\ GrantInv'
    BY <1>1, <1>2, <1>7 DEF Inv, CancelInv, GrantInv, SameLedger, EdgeOf
  <1> QED
    BY SMTT(30), <1>9, <1>10, <1>11, <1>12, <1>13 DEF Inv

LEMMA WaveStep ==
    ASSUME Inv, NEW p \in Partitions, NEW c \in Consumers, NextWave(p, c)
    PROVE  Inv'
  <1> DEFINE edge == <<p, core.manifests[p].generation, c>>
             grant == [attempt |-> next_attempt, partition |-> p, manifest |-> core.manifests[p],
                       consumer |-> c, consumer_incarnation |-> core.members[c].incarnation,
                       ordinal |-> core.attempts[edge] + 1, epoch |-> core.epoch]
  <1>1. /\ up /\ core.state = "Open" /\ Eligible(p, c) /\ next_attempt =< MaxGrants
        /\ grants' = grants \cup {grant} /\ issued' = issued \cup {grant}
        /\ next_attempt' = next_attempt + 1
        /\ up' = up /\ core' = core /\ stored' = stored
        /\ acked' = acked /\ cancelled' = cancelled /\ demoted' = demoted /\ crossed' = crossed
    BY SMTT(30) DEF NextWave, Serving, AttemptsOf, history
  <1>2. /\ core \in CoreType /\ stored \in CoreType /\ Sane(stored) /\ Alike(core, stored)
        /\ stored.state = "Open"
    BY SMTT(30), <1>1 DEF Inv, TypeInv, TypeOK, RecoveryInv, Alike
  <1>3. /\ core.manifests[p] # NoManifest /\ edge \notin core.completed \cup core.failed
        /\ core.attempts[edge] < MaxAttempts
        /\ \A g \in grants : EdgeOf(g) # edge
    BY <1>1 DEF Eligible, AttemptsOf
  <1>4. stored.manifests = core.manifests
    BY <1>2 DEF Alike
  <1>5. core.manifests[p] \in ManifestType /\ core.manifests[p].generation # 0
    BY SMTT(30), <1>2, <1>3, <1>4 DEF CoreType, Sane, SaneManifests
  <1>6. edge \in Edges
    BY <1>5, CoordinatorAssumption DEF Edges, ManifestType
  <1>7. core.attempts[edge] + 1 \in 1 .. MaxAttempts
    BY SMTT(30), <1>2, <1>3, <1>6, CoordinatorAssumption DEF CoreType
  <1>8. next_attempt \in Nat /\ core.members[c].incarnation \in 0 .. MaxIncarnation
        /\ core.epoch \in Nat
    BY <1>2, CoordinatorAssumption DEF Inv, TypeInv, TypeOK, CoreType, MemberType, Members
  <1>9. grant \in GrantType
    BY Zenon, <1>5, <1>7, <1>8 DEF GrantType
  <1>10. EdgeOf(grant) = edge /\ grant.epoch = core.epoch /\ grant.partition = p
         /\ grant.manifest = core.manifests[p]
    BY DEF EdgeOf
  <1> HIDE DEF grant, edge
  <1>11. TypeInv'
    BY <1>1, <1>9, CoordinatorAssumption DEF Inv, TypeInv, TypeOK
  <1>12. RecoveryInv'
    BY <1>1 DEF Inv, RecoveryInv
  <1>13. ManifestInv'
    <2>1. Granted(grant)
      BY Zenon, <1>3, <1>4, <1>5, <1>10 DEF Inv, ManifestInv, Granted
    <2>2. ASSUME NEW g \in issued, g.partition = p,
                 g.manifest.generation = grant.manifest.generation
          PROVE  g.manifest = grant.manifest
      <3>1. Granted(g)
        BY DEF Inv, ManifestInv
      <3>2. core.manifests[p].generation \in Nat
        BY SMTT(30), <1>5, CoordinatorAssumption DEF ManifestType
      <3> QED
        BY SMTT(30), <1>4, <1>10, <2>2, <3>1, <3>2 DEF Granted
    <2>3. AgreedContent'
      BY <1>1, <1>10, <2>2 DEF Inv, ManifestInv, AgreedContent
    <2>4. \A g \in issued' : Granted(g)'
      BY Zenon, <1>1, <2>1 DEF Inv, ManifestInv, Granted
    <2> QED
      BY Zenon, <1>1, <1>2, <2>3, <2>4 DEF Inv, ManifestInv
  <1>14. EpochInv'
    BY <1>1, <1>10 DEF Inv, EpochInv, Retired, HoldsAuthority, CommitsOfThisEpoch
  <1>15. AckInv'
    BY <1>1 DEF Inv, AckInv, DemotedHoldNothing, HoldsAuthority
  <1>16. CancelInv'
    BY SMTT(30), <1>1, <1>2 DEF Inv, CancelInv
  <1>17. GrantInv'
    BY <1>1, <1>3, <1>10 DEF Inv, GrantInv, EdgeOf
  <1> QED
    BY SMTT(30), <1>11, <1>12, <1>13, <1>14, <1>15, <1>16, <1>17 DEF Inv

LEMMA OpenStep == ASSUME Inv, OpenShuffle PROVE Inv'
  <1> DEFINE c == Apply(core, EpochRecord(core))
             d == Apply(stored, EpochRecord(core))
  <1>1. /\ up /\ core.state = "Closed" /\ up' = up /\ grants' = grants
        /\ next_attempt' = next_attempt /\ issued' = issued /\ acked' = acked
        /\ cancelled' = cancelled /\ demoted' = demoted /\ crossed' = crossed
    BY DEF OpenShuffle, history
  <1>2. PICK opened \in BOOLEAN :
            /\ core' = IF opened THEN Apply(c, StateRecord("Open")) ELSE c
            /\ stored' = IF opened THEN Apply(Apply(stored, EpochRecord(core)), StateRecord("Open"))
                                   ELSE Apply(stored, EpochRecord(core))
    BY DEF OpenShuffle
  <1>3. /\ core \in CoreType /\ stored \in CoreType /\ Sane(stored) /\ Alike(core, stored)
        /\ stored.state = "Closed" /\ issued = {} /\ grants = {}
    BY <1>1 DEF Inv, TypeInv, TypeOK, RecoveryInv, ManifestInv, Alike
  <1>4. EpochRecord(core) = EpochRecord(stored)
    BY <1>3 DEF EpochRecord, Alike
  <1>5. /\ c \in CoreType /\ d \in CoreType /\ Sane(d) /\ Alike(c, d)
        /\ c.state = core.state
        /\ c.members = core.members /\ d.members = stored.members
        /\ c.manifests = core.manifests /\ SameLedger(core, c)
    BY <1>3, <1>4, SaneEpoch
  <1> HIDE DEF c, d
  <1>6. /\ core' \in CoreType /\ stored' \in CoreType /\ Sane(stored') /\ Alike(core', stored')
        /\ core'.state \in {"Closed", "Open"}
        /\ core'.members = core.members /\ stored'.members = stored.members
        /\ core'.manifests = core.manifests /\ SameLedger(core, core')
    <2>1. CASE opened
      <3>1. core' = Apply(c, StateRecord("Open")) /\ stored' = Apply(d, StateRecord("Open"))
        BY <1>2, <2>1 DEF d
      <3>2. d.state = "Closed"
        BY <1>1, <1>5 DEF Alike
      <3>3. /\ core' \in CoreType /\ stored' \in CoreType
            /\ Sane(stored') /\ Alike(core', stored')
            /\ core'.state = "Open"
            /\ core'.members = c.members /\ stored'.members = d.members
            /\ core'.manifests = c.manifests /\ SameLedger(c, core')
        BY <1>5, <3>1, <3>2, SaneState
      <3> QED
        BY <1>5, <3>3 DEF SameLedger
    <2>2. CASE ~opened
      <3>1. core' = c /\ stored' = d
        BY <1>2, <2>2 DEF d
      <3> QED
        BY <1>1, <1>5, <3>1
    <2> QED
      BY <2>1, <2>2
  <1>7. TypeInv' /\ RecoveryInv'
    BY <1>1, <1>6 DEF Inv, TypeInv, TypeOK, RecoveryInv
  <1>8. ManifestInv'
    <2>1. stored'.manifests = stored.manifests
      BY <1>3, <1>6 DEF Alike
    <2> QED
      BY <1>1, <1>3, <1>6, <2>1 DEF Inv, ManifestInv, AgreedContent
  <1>9. EpochInv' /\ GrantInv'
    BY <1>1, <1>3 DEF Inv, EpochInv, GrantInv, CommitsOfThisEpoch
  <1>10. AckInv'
    <2>1. stored'.completed = stored.completed
      BY <1>3, <1>6 DEF Alike, SameLedger
    <2>2. DemotedHoldNothing'
      BY <1>1, <1>6 DEF Inv, AckInv, DemotedHoldNothing, HoldsAuthority
    <2> QED
      BY <1>1, <2>1, <2>2 DEF Inv, AckInv
  <1>11. CancelInv'
    BY <1>1, <1>3 DEF Inv, CancelInv
  <1> QED
    BY <1>7, <1>8, <1>9, <1>10, <1>11 DEF Inv

LEMMA RecoverStep == ASSUME Inv, Recover PROVE Inv'
  <1> DEFINE d == Demoted(stored)
  <1>1. /\ ~up /\ up' = TRUE
        /\ core' = Apply(d, EpochRecord(stored)) /\ stored' = Apply(stored, EpochRecord(stored))
        /\ demoted' = demoted \cup {m \in Members : HoldsAuthority(stored, m)}
        /\ grants' = grants /\ next_attempt' = next_attempt /\ issued' = issued
        /\ acked' = acked /\ cancelled' = cancelled /\ crossed' = crossed
    BY DEF Recover
  <1>2. stored \in CoreType /\ Sane(stored) /\ grants = {}
    BY <1>1 DEF Inv, TypeInv, TypeOK, RecoveryInv
  <1>3. d \in CoreType /\ Alike(d, stored) /\ \A m \in Members : ~HoldsAuthority(d, m)
    BY <1>2, DemotedAlike
  <1> HIDE DEF d
  <1>4. /\ core' \in CoreType /\ stored' \in CoreType /\ Sane(stored') /\ Alike(core', stored')
        /\ core'.state = d.state
        /\ core'.members = d.members /\ stored'.members = stored.members
        /\ core'.manifests = d.manifests /\ SameLedger(d, core')
    BY <1>1, <1>2, <1>3, SaneEpoch
  <1>5. stored'.manifests = stored.manifests /\ stored'.state = stored.state
        /\ stored'.completed = stored.completed
    BY <1>3, <1>4 DEF Alike, SameLedger
  <1>6. \A m \in Members : ~HoldsAuthority(core', m)
    BY <1>3, <1>4 DEF HoldsAuthority
  <1>7. TypeInv' /\ RecoveryInv'
    BY <1>1, <1>4 DEF Inv, TypeInv, TypeOK, RecoveryInv
  <1>8. ManifestInv'
    <2>1. \A g \in issued : Granted(g)'
      BY Zenon, <1>4, <1>5 DEF Inv, ManifestInv, Granted
    <2> QED
      BY Zenon, <1>1, <1>4, <1>5, <2>1 DEF Inv, ManifestInv, AgreedContent
  <1>9. EpochInv'
    <2>1. \A g \in issued : Retired(g)'
      BY SMTT(30), <1>6 DEF Inv, ManifestInv, Granted, Retired, HoldsAuthority, Members
    <2> QED
      BY Zenon, <1>1, <1>2, <2>1 DEF Inv, EpochInv, CommitsOfThisEpoch
  <1>10. AckInv'
    <2>1. demoted' \subseteq Members
      BY <1>1 DEF Inv, TypeInv
    <2>2. DemotedHoldNothing'
      BY SMTT(30), <1>6, <2>1 DEF DemotedHoldNothing, HoldsAuthority
    <2> QED
      BY <1>1, <1>5, <2>2 DEF Inv, AckInv
  <1>11. CancelInv' /\ GrantInv'
    BY <1>1, <1>2, <1>5 DEF Inv, CancelInv, GrantInv
  <1> QED
    BY <1>7, <1>8, <1>9, <1>10, <1>11 DEF Inv

LEMMA CommitStep ==
    ASSUME Inv, NEW report \in issued, NEW g \in grants, CommitTransfer(report, g),
           HasOwner(core) => HoldsAuthority(core, Owner(core, g.partition))
    PROVE  Inv'
  <1> DEFINE e == EdgeOf(g)
             r == [kind |-> "commit", edge |-> e]
  <1>1. /\ up /\ core.state = "Open"
        /\ Claims(report, g) /\ Dispatchable(g.partition, g.manifest)
        /\ core.manifests[g.partition] = g.manifest
        /\ Resolve(g, r)
        /\ acked' = acked \cup {e}
        /\ crossed' = IF report.epoch = g.epoch THEN crossed ELSE crossed \cup {"commit"}
        /\ up' = up /\ next_attempt' = next_attempt /\ issued' = issued
        /\ cancelled' = cancelled /\ demoted' = demoted
    BY Zenon DEF CommitTransfer, Serving
  <1>2. /\ core \in CoreType /\ stored \in CoreType /\ Sane(stored) /\ Alike(core, stored)
        /\ stored.state = "Open" /\ g \in issued
    BY <1>1 DEF Inv, TypeInv, TypeOK, RecoveryInv, Alike
  <1>3. g \in GrantType /\ e \in Edges /\ e[1] = g.partition /\ e[2] = g.manifest.generation
    BY <1>2, GrantedEdge
  <1>4. e \notin core.failed
    BY DEF Inv, GrantInv
  <1>5. ~(e[2] < core.manifests[e[1]].generation)
    <2>1. g.manifest.generation \in Nat
      BY <1>3, CoordinatorAssumption DEF GrantType, ManifestType
    <2> HIDE DEF e
    <2> QED
      BY <1>1, <1>3, <2>1
  <1>6. PairSettled(core, stored, Apply(core, r), Apply(stored, r), e)
        /\ e \in Apply(core, r).completed
    <2> HIDE DEF e
    <2> QED
      BY Zenon, <1>2, <1>3, <1>4, <1>5, SaneCommit
  \* A report of an earlier epoch names a producer that was retired since.
  <1>7. report.epoch = g.epoch
    <2>1. Retired(report) /\ g.epoch = core.epoch
      BY Zenon, <1>1 DEF Inv, EpochInv
    <2>2. report.manifest = g.manifest
      BY Zenon, <1>1 DEF Claims
    <2>3. /\ HoldsAuthority(core, g.manifest.producer)
          /\ core.members[g.manifest.producer].incarnation = g.manifest.incarnation
      BY Zenon, <1>1 DEF Dispatchable
    <2> QED
      BY Zenon, <2>1, <2>2, <2>3 DEF Retired
  <1>8. CommitsOfThisEpoch'
    BY <1>1, <1>7 DEF Inv, EpochInv, CommitsOfThisEpoch
  <1>9. acked' \subseteq acked \cup Apply(core, r).completed
    BY Zenon, <1>1, <1>6
  <1> HIDE DEF r
  <1> QED
    BY Zenon, <1>1, <1>6, <1>8, <1>9, SettleStep DEF e

LEMMA FailureStep ==
    ASSUME Inv, NEW report \in issued, NEW g \in grants, NEW class,
           ReportFailure(report, g, class)
    PROVE  Inv'
  <1> DEFINE e == EdgeOf(g)
             b == class = "Permanent" \/ g.ordinal >= MaxAttempts
             r == [kind |-> "failure", edge |-> e, attempts |-> g.ordinal, permanent |-> b]
  <1>1. /\ up /\ core.state = "Open"
        /\ Resolve(g, r)
        /\ crossed' = IF report.epoch = g.epoch THEN crossed ELSE crossed \cup {"failure"}
        /\ up' = up /\ next_attempt' = next_attempt /\ issued' = issued /\ acked' = acked
        /\ cancelled' = cancelled /\ demoted' = demoted
    BY Zenon DEF ReportFailure, Serving
  <1>2. /\ core \in CoreType /\ stored \in CoreType /\ Sane(stored) /\ Alike(core, stored)
        /\ stored.state = "Open" /\ g \in issued
    BY <1>1 DEF Inv, TypeInv, TypeOK, RecoveryInv, Alike
  <1>3. e \in Edges /\ g.ordinal \in 0 .. MaxAttempts
    BY <1>2, GrantedEdge
  <1>4. e \notin core.completed
    BY DEF Inv, GrantInv
  <1>5. b \in BOOLEAN
    OBVIOUS
  <1>6. PairSettled(core, stored, Apply(core, r), Apply(stored, r), e)
    <2> HIDE DEF e, b
    <2> QED
      BY Zenon, <1>2, <1>3, <1>4, <1>5, SaneFailure
  <1>7. CommitsOfThisEpoch'
    BY Zenon, <1>1 DEF Inv, EpochInv, CommitsOfThisEpoch
  <1>8. acked' \subseteq acked \cup Apply(core, r).completed
    BY Zenon, <1>1
  <1> HIDE DEF r
  <1> QED
    BY Zenon, <1>1, <1>6, <1>7, <1>8, SettleStep DEF e

============================================================================
