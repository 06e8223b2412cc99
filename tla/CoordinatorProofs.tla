-------------------------- MODULE CoordinatorProofs --------------------------
(***************************************************************************)
(* Proofs about the coordinator, for all producers, consumers, partitions,  *)
(* selections and bounds.                                                   *)
(***************************************************************************)
EXTENDS CoordinatorSteps, FiniteSetTheorems, WellFoundedInduction, TLAPS

(***************************************************************************)
(* Enumerations, and recursion over 0 .. n.  The induction rests on the     *)
(* well-foundedness of < on the naturals, stated with sets instead of       *)
(* predicates.                                                              *)
(***************************************************************************)
\* A non-empty set of natural numbers has a least member.
LEMMA LeastMember ==
    ASSUME NEW T, T \subseteq Nat, T # {}
    PROVE  \E x \in T : \A y \in T : x =< y
  <1> DEFINE R == OpToRel(<, Nat)
  <1>1. IsWellFoundedOn(R, Nat)
    BY NatLessThanWellFounded
  <1>2. \A x, y \in Nat : x < y => <<x, y>> \in R
    BY DEF OpToRel
  <1> HIDE DEF R
  <1>3. PICK x \in T : \A y \in T : ~(<<y, x>> \in R)
    BY <1>1, WFMin
  <1>4. ASSUME NEW y \in T PROVE x =< y
    <2>1. x \in Nat /\ y \in Nat /\ ~(y < x)
      BY <1>2, <1>3
    <2> QED
      BY <2>1
  <1> QED
    BY <1>4

\* Induction up to n: a set that holds 0 and, with every i < n, i + 1.
LEMMA InductionUpTo ==
    ASSUME NEW n \in Nat, NEW S, 0 \in S,
           \A i \in 0 .. n : i # n /\ i \in S => i + 1 \in S
    PROVE  \A i \in 0 .. n : i \in S
  <1> DEFINE T == {i \in 0 .. n : i \notin S}
  <1> SUFFICES ASSUME T # {} PROVE FALSE
    OBVIOUS
  <1>1. PICK x \in T : \A y \in T : x =< y
    <2>1. T \subseteq Nat
      OBVIOUS
    <2> QED
      BY <2>1, LeastMember
  <1>2. x \in 1 .. n /\ x - 1 \in 0 .. n /\ x - 1 # n /\ (x - 1) + 1 = x
    BY <1>1
  <1>3. x - 1 \in S
    BY <1>1, <1>2
  <1> QED
    BY <1>1, <1>2, <1>3

\* A function defined by recursion over 0 .. n is determined by its recursion.
Tabulated(f, n) == f = [i \in 0 .. n |-> f[i]]
StepsWith(f, g, n) == \A i \in 1 .. n : f[i - 1] = g[i - 1] => f[i] = g[i]

LEMMA RecursionUnique ==
    ASSUME NEW n \in Nat, NEW f, NEW g, Tabulated(f, n), Tabulated(g, n),
           f[0] = g[0], StepsWith(f, g, n)
    PROVE  f = g
  <1> USE DEF Tabulated, StepsWith
  <1> DEFINE S == {i \in 0 .. n : f[i] = g[i]}
  <1>1. 0 \in S
    OBVIOUS
  <1>2. \A i \in 0 .. n : i # n /\ i \in S => i + 1 \in S
    <2> SUFFICES ASSUME NEW i \in 0 .. n, i # n, i \in S PROVE i + 1 \in S
      OBVIOUS
    <2>1. i + 1 \in 1 .. n /\ (i + 1) - 1 = i
      OBVIOUS
    <2>2. f[i] = g[i]
      OBVIOUS
    <2>3. f[i + 1] = g[i + 1]
      BY <2>1, <2>2
    <2> QED
      BY <2>1, <2>3
  <1> HIDE DEF S
  <1>3. \A i \in 0 .. n : i \in S
    BY <1>1, <1>2, InductionUpTo
  <1>4. \A i \in 0 .. n : f[i] = g[i]
    BY <1>3 DEF S
  <1> QED
    BY <1>4, Zenon

\* The members of a finite set of numbers are numbered by how many are smaller.
LEMMA NthMember ==
    ASSUME NEW S, S \subseteq Nat, IsFiniteSet(S), NEW i \in 1 .. Cardinality(S)
    PROVE  Nth(S, i) \in S /\ Cardinality(Below(S, Nth(S, i))) = i - 1
  <1> DEFINE n == Cardinality(S)
             rank == [x \in S |-> Cardinality(Below(S, x))]
  <1>1. n \in Nat
    BY FS_CardinalityType
  <1>2. ASSUME NEW x \in S
        PROVE  /\ IsFiniteSet(Below(S, x)) /\ Cardinality(Below(S, x)) \in Nat
               /\ Cardinality(Below(S, x)) < n
    <2>1. Below(S, x) \in SUBSET S /\ x \in S \ Below(S, x)
      BY DEF Below
    <2>2. IsFiniteSet(Below(S, x)) /\ Cardinality(Below(S, x)) =< n
          /\ (n = Cardinality(Below(S, x)) => S = Below(S, x))
      BY <2>1, FS_Subset
    <2>3. Cardinality(Below(S, x)) \in Nat
      BY <2>2, FS_CardinalityType
    <2> QED
      BY <1>1, <2>1, <2>2, <2>3
  <1>3. ASSUME NEW x \in S, NEW y \in S, x < y
        PROVE  Cardinality(Below(S, x)) < Cardinality(Below(S, y))
    <2>1. x \in Nat /\ y \in Nat
      OBVIOUS
    <2>2. /\ Below(S, x) \in SUBSET Below(S, y)
          /\ x \in Below(S, y) /\ x \notin Below(S, x)
      <3>1. ASSUME NEW z \in Below(S, x) PROVE z \in Below(S, y)
        <4>1. z \in S /\ z \in Nat /\ z < x
          BY DEF Below
        <4>2. z < y
          BY <1>3, <2>1, <4>1
        <4> QED
          BY <4>1, <4>2 DEF Below
      <3>2. x \in Below(S, y) /\ x \notin Below(S, x)
        BY <1>3, <2>1 DEF Below
      <3> QED
        BY <3>1, <3>2
    <2>3. /\ Cardinality(Below(S, x)) =< Cardinality(Below(S, y))
          /\ Cardinality(Below(S, y)) = Cardinality(Below(S, x)) => Below(S, y) = Below(S, x)
      BY <1>2, <2>2, FS_Subset
    <2>4. Cardinality(Below(S, x)) # Cardinality(Below(S, y))
      BY <2>2, <2>3, Zenon
    <2>5. Cardinality(Below(S, x)) \in Nat /\ Cardinality(Below(S, y)) \in Nat
      BY <1>2
    <2> QED
      BY <2>3, <2>4, <2>5
  <1>4. rank \in Injection(S, 0 .. n - 1)
    <2>1. rank \in [S -> 0 .. n - 1]
      BY <1>1, <1>2
    <2>2. \A x, y \in S : rank[x] = rank[y] => x = y
      <3> SUFFICES ASSUME NEW x \in S, NEW y \in S, x # y PROVE rank[x] # rank[y]
        OBVIOUS
      <3>1. x < y \/ y < x
        OBVIOUS
      <3> QED
        BY <1>2, <1>3, <3>1
    <2> QED
      BY <2>1, <2>2 DEF Injection, IsInjective
  <1>5. IsFiniteSet(0 .. n - 1) /\ Cardinality(0 .. n - 1) = n
    <2>1. n - 1 \in Int
      BY <1>1
    <2>2. /\ IsFiniteSet(0 .. n - 1)
          /\ Cardinality(0 .. n - 1) = IF 0 > n - 1 THEN 0 ELSE (n - 1) - 0 + 1
      BY <2>1, FS_Interval
    <2> QED
      BY <1>1, <2>2
  <1> HIDE DEF rank
  <1>6. rank \in Surjection(S, 0 .. n - 1)
    BY <1>4, <1>5, FS_Injection, Zenon
  <1>7. i - 1 \in 0 .. n - 1
    BY <1>1
  <1>8. PICK x \in S : rank[x] = i - 1
    BY <1>6, <1>7 DEF Surjection
  <1>9. \E z \in S : Cardinality(Below(S, z)) = i - 1
    BY <1>8 DEF rank
  <1> QED
    BY <1>9, Zenon DEF Nth

\* Ascending lists every member of a finite set of numbers once.
LEMMA AscendingEnumerates ==
    ASSUME NEW S, S \subseteq Nat, IsFiniteSet(S)
    PROVE  /\ Cardinality(S) \in Nat
           /\ Ascending(S) \in [1 .. Cardinality(S) -> S]
           /\ \A i, j \in 1 .. Cardinality(S) : Ascending(S)[i] = Ascending(S)[j] => i = j
           /\ \A x \in S : \E i \in 1 .. Cardinality(S) : Ascending(S)[i] = x
           /\ \A i, j \in 1 .. Cardinality(S) : i < j => Ascending(S)[i] < Ascending(S)[j]
  <1> DEFINE n == Cardinality(S)
             a == Ascending(S)
  <1>1. n \in Nat
    BY FS_CardinalityType
  <1>2. a \in [1 .. n -> S] /\ \A i \in 1 .. n : Cardinality(Below(S, a[i])) = i - 1
    BY NthMember DEF Ascending
  <1> HIDE DEF a
  <1>3. \A i, j \in 1 .. n : a[i] = a[j] => i = j
    <2> SUFFICES ASSUME NEW i \in 1 .. n, NEW j \in 1 .. n, a[i] = a[j] PROVE i = j
      OBVIOUS
    <2>1. i - 1 = j - 1
      BY <1>2
    <2> QED
      BY <2>1
  <1>4. a \in Injection(1 .. n, S)
    BY <1>2, <1>3 DEF Injection, IsInjective
  <1>5. Cardinality(1 .. n) = n
    BY <1>1, FS_Interval
  <1>6. a \in Surjection(1 .. n, S)
    BY <1>4, <1>5, FS_Injection
  <1>7. \A x \in S : \E i \in 1 .. n : a[i] = x
    BY <1>6 DEF Surjection
  <1>8. \A i, j \in 1 .. n : i < j => a[i] < a[j]
    <2> SUFFICES ASSUME NEW i \in 1 .. n, NEW j \in 1 .. n, i < j, ~(a[i] < a[j])
                 PROVE  FALSE
      OBVIOUS
    <2>1. a[i] \in S /\ a[j] \in S /\ a[i] \in Nat /\ a[j] \in Nat
      BY <1>2
    <2>2. Below(S, a[j]) \in SUBSET Below(S, a[i])
      <3>1. ASSUME NEW z \in Below(S, a[j]) PROVE z \in Below(S, a[i])
        <4>1. z \in S /\ z \in Nat /\ z < a[j]
          BY DEF Below
        <4>2. z < a[i]
          BY <2>1, <4>1
        <4> QED
          BY <4>1, <4>2 DEF Below
      <3> QED
        BY <3>1
    <2>3. IsFiniteSet(Below(S, a[i]))
      BY FS_Subset DEF Below
    <2>4. Cardinality(Below(S, a[j])) =< Cardinality(Below(S, a[i]))
      BY <2>2, <2>3, FS_Subset
    <2>5. j - 1 =< i - 1
      BY <1>2, <2>4
    <2> QED
      BY <2>5
  <1> QED
    BY <1>1, <1>2, <1>3, <1>7, <1>8 DEF a

----------------------------------------------------------------------------
(***************************************************************************)
(* Owners, and what replaying the journal reproduces.                       *)
(***************************************************************************)
\* owner_of() answers with an active producer.
LEMMA OwnerActive ==
    ASSUME NEW s, HasOwner(s), NEW p \in Partitions
    PROVE  Owner(s, p) \in Producers /\ HoldsAuthority(s, Owner(s, p))
  <1> DEFINE S == ActiveProducers(s)
             n == Cardinality(S)
  <1>1. S \subseteq Producers /\ S # {} /\ \A m \in S : HoldsAuthority(s, m)
    BY DEF ActiveProducers, HasOwner
  <1>2. S \subseteq Nat /\ IsFiniteSet(S)
    <2>1. S \subseteq Members
      BY <1>1 DEF Members
    <2> QED
      BY Zenon, <2>1, CoordinatorAssumption, FS_Subset
  <1> HIDE DEF S
  <1>3. n \in Nat /\ n # 0
    BY <1>1, <1>2, FS_CardinalityType, FS_EmptySet
  <1> HIDE DEF n
  <1>4. p \in Nat
    BY CoordinatorAssumption DEF Partitions
  <1>5. (p % n) + 1 \in 1 .. n
    BY <1>3, <1>4
  <1>6. Nth(S, (p % n) + 1) \in S
    BY Zenon, <1>2, <1>5, NthMember DEF n
  <1> QED
    BY <1>1, <1>6 DEF Owner, S, n

\* Replay ends in the last of any states that each record leads from one to the next of.
LEMMA ReplayedStates ==
    ASSUME NEW s, NEW records, Len(records) \in Nat, NEW F,
           Tabulated(F, Len(records)), F[0] = s,
           \A i \in 1 .. Len(records) : Apply(F[i - 1], records[i]) = F[i]
    PROVE  Replay(s, records) = F[Len(records)]
  <1> DEFINE n == Len(records)
             Def(f) == [i \in 0 .. n |-> IF i = 0 THEN s ELSE Apply(f[i - 1], records[i])]
             after == CHOOSE f : f = Def(f)
  <1>1. F = Def(F)
    <2>1. \A i \in 0 .. n : F[i] = Def(F)[i]
      BY DEF Tabulated
    <2> QED
      BY <2>1 DEF Tabulated
  <1>2. after = Def(after)
    BY <1>1, Zenon
  <1>3. Replay(s, records) = after[n]
    BY DEF Replay
  <1> HIDE DEF after
  <1>4. Tabulated(after, n)
    BY <1>2 DEF Tabulated
  <1>5. after[0] = s /\ \A i \in 1 .. n : after[i] = Apply(after[i - 1], records[i])
    BY <1>2
  <1>6. StepsWith(after, F, n)
    BY <1>5 DEF StepsWith
  <1>7. n \in Nat /\ Tabulated(F, n) /\ after[0] = F[0]
    BY <1>5
  <1> HIDE DEF n
  <1>8. after = F
    BY <1>4, <1>6, <1>7, RecursionUnique, Zenon
  <1> QED
    BY <1>3, <1>8 DEF n

LEMMA ReplayNothing ==
    ASSUME NEW s, NEW records, Len(records) = 0
    PROVE  Replay(s, records) = s
  <1> DEFINE F == [i \in 0 .. 0 |-> s]
  <1>1. Tabulated(F, Len(records)) /\ F[0] = s
    BY DEF Tabulated
  <1>2. \A i \in 1 .. Len(records) : Apply(F[i - 1], records[i]) = F[i]
    OBVIOUS
  <1> HIDE DEF F
  <1> QED
    BY <1>1, <1>2, ReplayedStates

LEMMA MembersReplayed ==
    ASSUME NEW x \in CoreType, SaneMembers(x),
           NEW s \in CoreType, s.ok, s.topology, s.members = [m \in Members |-> Unregistered]
    PROVE  Replay(s, MemberRecords(x)) = [s EXCEPT !.members = x.members]
  <1> DEFINE R == {m \in Members : Registered(x, m)}
             n == Cardinality(R)
             a == Ascending(R)
             records == MemberRecords(x)
             M(i) == [m \in Members |-> IF \E j \in 1 .. i : a[j] = m THEN x.members[m]
                                        ELSE Unregistered]
             F == [i \in 0 .. n |-> [s EXCEPT !.members = M(i)]]
  <1>1. R \subseteq Nat /\ IsFiniteSet(R)
    BY Zenon, CoordinatorAssumption, FS_Subset
  <1>2. /\ n \in Nat /\ a \in [1 .. n -> R]
        /\ \A i, j \in 1 .. n : a[i] = a[j] => i = j
        /\ \A m \in R : \E i \in 1 .. n : a[i] = m
    BY Zenon, <1>1, AscendingEnumerates
  <1>3. records = [i \in 1 .. n |-> RecordOf(x, a[i])] /\ Len(records) = n
    BY <1>2 DEF MemberRecords
  <1>4. Unregistered \in MemberType
    BY CoordinatorAssumption DEF Unregistered, MemberType, States
  <1>5. x.members \in [Members -> MemberType]
    BY DEF CoreType
  <1>6. \A i \in 0 .. n : M(i) \in [Members -> MemberType]
    BY <1>4, <1>5
  <1>7. M(0) = s.members /\ M(n) = x.members
    <2>1. M(0) = s.members
      OBVIOUS
    <2>2. ASSUME NEW m \in Members PROVE M(n)[m] = x.members[m]
      BY <1>2 DEF SaneMembers, Registered
    <2> QED
      BY <1>5, <2>1, <2>2
  <1>8. ASSUME NEW i \in 1 .. n
        PROVE  /\ i - 1 \in 0 .. n /\ a[i] \in Members /\ x.members[a[i]].incarnation # 0
               /\ M(i - 1)[a[i]] = Unregistered
               /\ M(i) = [M(i - 1) EXCEPT ![a[i]] = x.members[a[i]]]
    <2>1. i - 1 \in 0 .. n /\ a[i] \in R
      BY <1>2
    <2>2. \A j \in 1 .. i - 1 : a[j] # a[i]
      BY <1>2
    <2>3. \A m \in Members : (\E j \in 1 .. i : a[j] = m) <=>
                                 (m = a[i] \/ \E j \in 1 .. i - 1 : a[j] = m)
      <3>1. \A j \in 1 .. i : j = i \/ j \in 1 .. i - 1
        BY <1>2
      <3>2. i \in 1 .. i /\ \A j \in 1 .. i - 1 : j \in 1 .. i
        BY <1>2
      <3> QED
        BY <3>1, <3>2, Zenon
    <2> QED
      BY Zenon, <2>1, <2>2, <2>3 DEF Registered
  <1> HIDE DEF M, a, n, R, records
  <1>9. Tabulated(F, n) /\ F[0] = s /\ F[n] = [s EXCEPT !.members = x.members]
    <2>1. [s EXCEPT !.members = s.members] = s
      BY DEF CoreType
    <2> QED
      BY <1>2, <1>7, <2>1 DEF Tabulated
  <1>10. ASSUME NEW i \in 1 .. n PROVE Apply(F[i - 1], records[i]) = F[i]
    <2> DEFINE f == [s EXCEPT !.members = M(i - 1)]
    <2>1. M(i - 1) \in [Members -> MemberType]
      BY <1>6, <1>8
    <2>2. f \in CoreType /\ f.ok /\ f.topology /\ f.members = M(i - 1)
      BY <2>1 DEF CoreType
    <2>3. records[i] = ParticipantRecord(a[i], x.members[a[i]].incarnation,
                            x.members[a[i]].state, x.members[a[i]].selection)
      BY <1>3 DEF RecordOf
    <2>4. x.members[a[i]] \in MemberType
      BY <1>5, <1>8
    <2>5. F[i - 1] = f /\ F[i] = [s EXCEPT !.members = M(i)]
      BY <1>8
    <2>6. [f EXCEPT !.members = M(i)] = [s EXCEPT !.members = M(i)]
      <3>1. \A X, Y : [[s EXCEPT !.members = X] EXCEPT !.members = Y] = [s EXCEPT !.members = Y]
        BY Zenon DEF CoreType
      <3> QED
        BY Zenon, <3>1
    <2> DEFINE entry == x.members[a[i]]
    <2> HIDE DEF f, entry
    <2>7. Apply(f, ParticipantRecord(a[i], entry.incarnation, entry.state, entry.selection))
              = [f EXCEPT !.members = [f.members EXCEPT ![a[i]] = entry]]
      <3>1. a[i] \in Members /\ entry \in MemberType /\ entry.incarnation # 0
            /\ f.members[a[i]] = Unregistered
        BY <1>8, <2>2, <2>4 DEF entry
      <3> QED
        BY <2>2, <3>1, FirstEntry
    <2>8. Apply(f, records[i]) = [f EXCEPT !.members = M(i)]
      BY <1>8, <2>2, <2>3, <2>7 DEF entry
    <2> QED
      BY <2>5, <2>6, <2>8
  <1> HIDE DEF F
  <1>11. Replay(s, records) = F[n]
    BY <1>2, <1>3, <1>9, <1>10, ReplayedStates
  <1> QED
    BY <1>9, <1>11 DEF records

LEMMA ManifestsReplayed ==
    ASSUME NEW x \in CoreType, SaneManifests(x),
           NEW s \in CoreType, s.ok, s.topology,
           s.manifests = [p \in Partitions |-> NoManifest]
    PROVE  Replay(s, ManifestRecords(x)) = [s EXCEPT !.manifests = x.manifests]
  <1> DEFINE R == {p \in Partitions : x.manifests[p] # NoManifest}
             n == Cardinality(R)
             a == Ascending(R)
             records == ManifestRecords(x)
             M(i) == [p \in Partitions |-> IF \E j \in 1 .. i : a[j] = p THEN x.manifests[p]
                                           ELSE NoManifest]
             F == [i \in 0 .. n |-> [s EXCEPT !.manifests = M(i)]]
  <1>1. R \subseteq Nat /\ IsFiniteSet(R)
    <2>1. IsFiniteSet(Partitions) /\ Partitions \subseteq Nat
      BY CoordinatorAssumption, FS_Interval DEF Partitions
    <2> QED
      BY Zenon, <2>1, FS_Subset
  <1>2. /\ n \in Nat /\ a \in [1 .. n -> R]
        /\ \A i, j \in 1 .. n : a[i] = a[j] => i = j
        /\ \A p \in R : \E i \in 1 .. n : a[i] = p
    BY Zenon, <1>1, AscendingEnumerates
  <1>3. /\ records = [i \in 1 .. n |-> [kind |-> "manifest", partition |-> a[i],
                                        manifest |-> x.manifests[a[i]]]]
        /\ Len(records) = n
    BY <1>2 DEF ManifestRecords
  <1>4. NoManifest \in ManifestType /\ NoManifest.generation = 0
    BY CoordinatorAssumption DEF NoManifest, ManifestType
  <1>5. x.manifests \in [Partitions -> ManifestType]
    BY DEF CoreType
  <1>6. \A i \in 0 .. n : M(i) \in [Partitions -> ManifestType]
    BY <1>4, <1>5
  <1>7. M(0) = s.manifests /\ M(n) = x.manifests
    <2>1. M(0) = s.manifests
      OBVIOUS
    <2>2. ASSUME NEW p \in Partitions PROVE M(n)[p] = x.manifests[p]
      BY <1>2
    <2> QED
      BY Zenon, <1>5, <2>1, <2>2
  <1> HIDE DEF a, n, R
  <1>8. ASSUME NEW i \in 1 .. n
        PROVE  /\ i - 1 \in 0 .. n /\ a[i] \in Partitions /\ x.manifests[a[i]].generation # 0
               /\ M(i - 1)[a[i]] = NoManifest
               /\ M(i) = [M(i - 1) EXCEPT ![a[i]] = x.manifests[a[i]]]
    <2>1. i - 1 \in 0 .. n /\ a[i] \in R
      BY <1>2
    <2>2. \A j \in 1 .. i - 1 : a[j] # a[i]
      BY <1>2
    <2>3. \A p \in Partitions : (\E j \in 1 .. i : a[j] = p) <=>
                                    (p = a[i] \/ \E j \in 1 .. i - 1 : a[j] = p)
      <3>1. \A j \in 1 .. i : j = i \/ j \in 1 .. i - 1
        BY <1>2
      <3>2. i \in 1 .. i /\ \A j \in 1 .. i - 1 : j \in 1 .. i
        BY <1>2
      <3> QED
        BY <3>1, <3>2, Zenon
    <2> QED
      BY <2>1, <2>2, <2>3 DEF SaneManifests, R
  <1> HIDE DEF M, records
  <1>9. Tabulated(F, n) /\ F[0] = s /\ F[n] = [s EXCEPT !.manifests = x.manifests]
    <2>1. [s EXCEPT !.manifests = s.manifests] = s
      BY DEF CoreType
    <2> QED
      BY <1>2, <1>7, <2>1 DEF Tabulated
  <1>10. ASSUME NEW i \in 1 .. n PROVE Apply(F[i - 1], records[i]) = F[i]
    <2> DEFINE f == [s EXCEPT !.manifests = M(i - 1)]
               manifest == x.manifests[a[i]]
    <2>1. M(i - 1) \in [Partitions -> ManifestType]
      BY <1>6, <1>8
    <2>2. f \in CoreType /\ f.ok /\ f.topology /\ f.manifests = M(i - 1)
      BY <2>1 DEF CoreType
    <2>3. records[i] = [kind |-> "manifest", partition |-> a[i], manifest |-> manifest]
      BY <1>3
    <2>4. manifest \in ManifestType /\ manifest.generation # 0
      BY <1>5, <1>8
    <2>5. F[i - 1] = f /\ F[i] = [s EXCEPT !.manifests = M(i)]
      BY <1>8
    <2>6. [f EXCEPT !.manifests = M(i)] = [s EXCEPT !.manifests = M(i)]
      <3>1. \A X, Y : [[s EXCEPT !.manifests = X] EXCEPT !.manifests = Y]
                          = [s EXCEPT !.manifests = Y]
        BY Zenon DEF CoreType
      <3> QED
        BY Zenon, <3>1
    <2> HIDE DEF f
    <2>7. ~Older(f, a[i], manifest) /\ ~Divergent(f, a[i], manifest)
      BY <1>4, <1>8, <2>2, <2>4 DEF Older, Divergent, ManifestType
    <2>8. Apply(f, records[i]) = [f EXCEPT !.manifests = [f.manifests EXCEPT ![a[i]] = manifest]]
      BY <2>2, <2>3, <2>7 DEF Apply, ApplyManifest
    <2>9. Apply(f, records[i]) = [f EXCEPT !.manifests = M(i)]
      BY <1>8, <2>2, <2>8
    <2> QED
      BY <2>5, <2>6, <2>9
  <1> HIDE DEF F
  <1>11. Replay(s, records) = F[n]
    BY <1>2, <1>3, <1>9, <1>10, ReplayedStates
  <1> QED
    BY <1>9, <1>11 DEF records

\* A snapshot of a coordinator that is not finished rebuilds it.
LEMMA SnapshotReproduces ==
    ASSUME NEW s \in CoreType, s.ok, s.state \in {"Closed", "Open"},
           s.topology <=> s.state # "Closed", ~s.topology => Blank(s),
           SaneMembers(s), SaneManifests(s), NEW t, t = Snapshot(s)
    PROVE  /\ t \in CoreType /\ t.ok /\ t.state = s.state /\ t.topology = s.topology
           /\ t.epoch = s.epoch /\ t.members = s.members /\ t.manifests = s.manifests
           /\ SameLedger(s, t)
  <1> DEFINE epoch == Apply(Fresh, [kind |-> "epoch", epoch |-> s.epoch])
             state == IF s.state = "Closed" THEN epoch ELSE Apply(epoch, StateRecord(s.state))
             entered == Replay(state, MemberRecords(s))
             published == Replay(entered, ManifestRecords(s))
  <1>1. s.epoch \in Nat /\ s.members \in [Members -> MemberType]
        /\ s.manifests \in [Partitions -> ManifestType]
        /\ s.completed \in SUBSET Edges /\ s.failed \in SUBSET Edges
        /\ s.attempts \in [Edges -> 0 .. MaxAttempts]
    BY DEF CoreType
  <1>2. /\ epoch \in CoreType /\ epoch.ok /\ epoch.state = "Closed" /\ epoch.epoch = s.epoch
        /\ ~epoch.topology
        /\ epoch.members = [m \in Members |-> Unregistered]
        /\ epoch.manifests = [p \in Partitions |-> NoManifest]
    <2>1. /\ epoch \in CoreType /\ epoch.ok /\ epoch.state = Fresh.state
          /\ epoch.epoch = (IF s.epoch > Fresh.epoch THEN s.epoch ELSE Fresh.epoch)
          /\ SameTopology(Fresh, epoch)
      BY <1>1, FreshType, EpochApplied
    <2> HIDE DEF epoch
    <2> QED
      BY <1>1, <2>1, FreshType DEF SameTopology, Unregistered
  <1>3. /\ published \in CoreType /\ published.ok /\ published.state = s.state
        /\ published.topology = s.topology /\ published.epoch = s.epoch
        /\ published.members = s.members /\ published.manifests = s.manifests
    <2>1. CASE s.state = "Closed"
      <3>1. state = epoch
        BY <2>1
      <3>2. Blank(s)
        BY <2>1
      <3>3. \A m \in Members : ~Registered(s, m)
        BY <3>2 DEF Blank, Registered, Unregistered
      <3>4. \A p \in Partitions : s.manifests[p] = NoManifest
        BY <3>2 DEF Blank
      <3>5. Len(MemberRecords(s)) = 0
        <4>1. {m \in Members : Registered(s, m)} = {}
          BY <3>3
        <4> QED
          BY <4>1, FS_EmptySet DEF MemberRecords, Ascending
      <3>6. Len(ManifestRecords(s)) = 0
        <4>1. {p \in Partitions : s.manifests[p] # NoManifest} = {}
          BY <3>4
        <4> QED
          BY <4>1, FS_EmptySet DEF ManifestRecords, Ascending
      <3>7. published = epoch
        BY <3>1, <3>5, <3>6, ReplayNothing
      <3> HIDE DEF published, epoch
      <3> QED
        BY <1>2, <2>1, <3>2, <3>7 DEF Blank, CoreType
    <2>2. CASE s.state = "Open"
      <3>1. state = Apply(epoch, StateRecord("Open"))
        BY <2>2
      <3> HIDE DEF epoch, state
      <3>2. /\ state \in CoreType /\ state.ok /\ state.state = "Open" /\ state.epoch = s.epoch
            /\ state.topology
            /\ state.members = [m \in Members |-> Unregistered]
            /\ state.manifests = [p \in Partitions |-> NoManifest]
        <4>1. epoch.state \notin Finished
          BY <1>2 DEF Finished
        <4>2. /\ state \in CoreType /\ state.ok /\ state.state = "Open"
              /\ state.epoch = epoch.epoch /\ state.topology = (epoch.topology \/ "Open" = "Open")
              /\ state.members = epoch.members /\ state.manifests = epoch.manifests
          BY <1>2, <3>1, <4>1, StateApplied
        <4> QED
          BY Zenon, <1>2, <4>2
      <3>3. entered = [state EXCEPT !.members = s.members]
        BY <3>2, MembersReplayed
      <3> HIDE DEF entered
      <3>4. /\ entered \in CoreType /\ entered.ok /\ entered.topology
            /\ entered.state = state.state /\ entered.epoch = state.epoch
            /\ entered.members = s.members /\ entered.manifests = state.manifests
        BY <1>1, <3>2, <3>3 DEF CoreType
      <3>5. published = [entered EXCEPT !.manifests = s.manifests]
        BY <3>2, <3>4, ManifestsReplayed
      <3> HIDE DEF published
      <3> QED
        BY <1>1, <2>2, <3>2, <3>4, <3>5 DEF CoreType
    <2> QED
      BY <2>1, <2>2
  <1>4. t = [published EXCEPT !.completed = s.completed, !.failed = s.failed,
                              !.attempts = s.attempts]
    BY DEF Snapshot, Replayed
  <1> HIDE DEF published
  <1> QED
    BY Zenon, <1>1, <1>3, <1>4 DEF CoreType, SameLedger

\* Compaction, of a shuffle that is not finished.
LEMMA CompactStep == ASSUME ~CompactFinished, Inv, Compact PROVE Inv'
  <1>1. /\ up /\ core.state \notin Finished /\ stored' = Snapshot(core)
        /\ up' = up /\ core' = core /\ grants' = grants /\ next_attempt' = next_attempt
        /\ issued' = issued /\ acked' = acked /\ cancelled' = cancelled
        /\ demoted' = demoted /\ crossed' = crossed
    BY DEF Compact, history
  <1>2. /\ core \in CoreType /\ stored \in CoreType /\ Sane(stored) /\ Alike(core, stored)
    BY <1>1 DEF Inv, TypeInv, TypeOK, RecoveryInv
  <1>3. core.ok /\ core.state \in {"Closed", "Open"} /\ (core.topology <=> core.state # "Closed")
    BY <1>1, <1>2 DEF Sane, Alike, CoreType
  <1>4. core.members \in [Members -> MemberType] /\ stored.members \in [Members -> MemberType]
    BY SMTT(30), <1>2 DEF CoreType
  <1>5. ASSUME NEW m \in Members, stored.members[m] = Unregistered
        PROVE  core.members[m] = Unregistered
    <2>1. core.members[m].incarnation = 0 /\ core.members[m].selection = {}
          /\ SettledState(core.members[m].state) = SettledState("Pending")
      BY <1>2, <1>5 DEF Alike, AlikeMembers, Unregistered
    <2>2. core.members[m].state = "Pending"
      BY <2>1 DEF SettledState
    <2>3. core.members[m] \in MemberType
      BY SMTT(30), <1>4
    <2> QED
      BY SMTT(30), <2>1, <2>2, <2>3 DEF MemberType, Unregistered
  <1>6. SaneMembers(core)
    BY SMTT(30), <1>2, <1>5 DEF Sane, SaneMembers, Alike, AlikeMembers
  <1>7. SaneManifests(core) /\ core.manifests = stored.manifests
    BY <1>2 DEF Sane, SaneManifests, Alike
  <1>8. ~core.topology => Blank(core)
    <2> SUFFICES ASSUME ~core.topology PROVE Blank(core)
      OBVIOUS
    <2>1. Blank(stored)
      BY <1>2 DEF Sane, Alike
    <2>2. \A m \in Members : core.members[m] = Unregistered
      BY SMTT(30), <1>5, <2>1 DEF Blank
    <2> QED
      BY <1>4, <1>7, <2>1, <2>2 DEF Blank
  <1>9. /\ stored' \in CoreType /\ stored'.ok /\ stored'.state = core.state
        /\ stored'.topology = core.topology
        /\ stored'.epoch = core.epoch /\ stored'.members = core.members
        /\ stored'.manifests = core.manifests /\ SameLedger(core, stored')
    BY SMTT(30), <1>1, <1>2, <1>3, <1>6, <1>7, <1>8, SnapshotReproduces
  <1>10. Alike(core', stored')
    BY <1>1, <1>3, <1>9 DEF Alike, AlikeMembers, SameLedger
  <1>11. Sane(stored')
    <2>1. SaneMembers(stored') /\ SaneManifests(stored') /\ (~stored'.topology => Blank(stored'))
      BY SMTT(30), <1>6, <1>7, <1>8, <1>9 DEF SaneMembers, SaneManifests, Blank
    <2>2. stored'.completed \cap stored'.failed = {}
      BY <1>2, <1>9 DEF Sane, Alike, SameLedger
    <2>3. stored'.state # "Completed"
      BY <1>3, <1>9
    <2> QED
      BY Zenon, <1>3, <1>9, <2>1, <2>2, <2>3 DEF Sane
  <1>12. TypeInv' /\ RecoveryInv'
    BY <1>1, <1>9, <1>10, <1>11 DEF Inv, TypeInv, TypeOK, RecoveryInv
  <1>13. stored'.manifests = stored.manifests /\ stored'.state = stored.state
         /\ stored'.completed = stored.completed
         /\ \A m \in Members : stored'.members[m].incarnation = stored.members[m].incarnation
    BY SMTT(30), <1>2, <1>9 DEF Alike, AlikeMembers, SameLedger
  <1>14. ManifestInv'
    <2>1. \A g \in issued : Granted(g)'
      BY <1>13 DEF Inv, ManifestInv, Granted, Members
    <2>2. \A p \in Partitions : stored'.manifests[p] # NoManifest =>
               /\ stored'.manifests[p].producer \in Producers
               /\ stored'.manifests[p].incarnation =<
                      stored'.members[stored'.manifests[p].producer].incarnation
      BY SMTT(30), <1>13 DEF Inv, ManifestInv, Members
    <2> QED
      BY SMTT(30), <1>1, <1>13, <2>1, <2>2 DEF Inv, ManifestInv, AgreedContent
  <1>15. EpochInv'
    BY <1>1 DEF Inv, EpochInv, Retired, HoldsAuthority, CommitsOfThisEpoch
  <1>16. AckInv' /\ CancelInv' /\ GrantInv'
    BY Zenon, <1>1, <1>13 DEF Inv, AckInv, DemotedHoldNothing, HoldsAuthority, CancelInv, GrantInv,
       EdgeOf
  <1> QED
    BY <1>12, <1>14, <1>15, <1>16 DEF Inv

LEMMA InvNext == ASSUME ~CompactFinished, Inv, [Next]_vars PROVE Inv'
  <1>1. CASE UNCHANGED vars
    <2>1. /\ up' = up /\ core' = core /\ stored' = stored /\ grants' = grants
          /\ next_attempt' = next_attempt /\ issued' = issued /\ acked' = acked
          /\ cancelled' = cancelled /\ demoted' = demoted /\ crossed' = crossed
      BY <1>1 DEF vars, history
    <2>2. TypeInv' /\ RecoveryInv' /\ CancelInv'
      BY <2>1 DEF Inv, TypeInv, TypeOK, RecoveryInv, CancelInv
    <2>3. ManifestInv'
      BY Zenon, <2>1 DEF Inv, ManifestInv, Granted, AgreedContent
    <2>4. EpochInv' /\ AckInv' /\ GrantInv'
      BY <2>1 DEF Inv, EpochInv, Retired, HoldsAuthority, CommitsOfThisEpoch, AckInv,
         DemotedHoldNothing, GrantInv, EdgeOf
    <2> QED
      BY <2>2, <2>3, <2>4 DEF Inv
  <1>2. ASSUME NEW p \in Partitions, NEW n \in 1 .. MaxGeneration, PublishManifest(p, n)
        PROVE  Inv'
    <2>1. HasOwner(core)
      BY Zenon, <1>2 DEF PublishManifest
    <2> QED
      BY <1>2, <2>1, OwnerActive, PublishStep
  <1>3. ASSUME NEW report \in issued, NEW g \in grants, CommitTransfer(report, g)
        PROVE  Inv'
    <2>1. g.partition \in Partitions
      BY DEF Inv, TypeInv, TypeOK, GrantType
    <2> QED
      BY Zenon, <1>3, <2>1, OwnerActive, CommitStep
  <1> QED
    BY Zenon, <1>1, <1>2, <1>3, OpenStep, RegisterStep, SetStateStep, CancelStep, WaveStep,
       FailureStep, CompactStep, CrashStep, RecoverStep DEF Next

\* The invariant of the coordinator, for any members, partitions, selections and
\* bounds, as long as finished shuffles are not compacted.
THEOREM Invariant == ~CompactFinished => (Spec => []Inv)
  <1> SUFFICES ASSUME ~CompactFinished PROVE Spec => []Inv
    OBVIOUS
  <1>1. Inv /\ [Next]_vars => Inv'
    BY InvNext
  <1> QED
    BY <1>1, InvInit, PTL DEF Spec

\* Counting suffices as long as what is counted is required: the current resolved
\* edges map one to one into the requirement, and are as many.
LEMMA CountingSuffices ==
    ASSUME Inv PROVE CountedCompletion
  <1> SUFFICES ASSUME core.state = "Completed", NEW e \in Required(core),
                      \A x \in Current(core, core.completed \cup core.failed) :
                          <<x[1], x[3]>> \in Required(core)
               PROVE  CurrentEdge(e) \in core.completed \cup core.failed
    BY DEF CountedCompletion, CompleteMeansResolved
  <1> DEFINE A == Current(core, core.completed)
             B == Current(core, core.failed)
             C == A \cup B
             R == Required(core)
             f == [x \in C |-> <<x[1], x[3]>>]
  <1>1. up /\ core \in CoreType /\ Sane(stored) /\ Alike(core, stored)
    <2>1. up
      BY FreshType DEF Inv, RecoveryInv
    <2> QED
      BY <2>1 DEF Inv, RecoveryInv, TypeInv, TypeOK
  <1>2. Counted(core)
    <2>1. Counted(stored)
      BY SMTT(30), <1>1 DEF Sane, Alike
    <2> QED
      BY SMTT(30), <1>1, <2>1, CountedAlike DEF Alike, SameLedger
  <1>3. A \cap B = {} /\ C \subseteq core.completed \cup core.failed
        /\ C = Current(core, core.completed \cup core.failed)
    BY <1>1 DEF Current, Sane, Alike, SameLedger
  <1>4. \A x \in C : x \in Edges /\ x[2] = core.manifests[x[1]].generation
    BY <1>1 DEF Current, CoreType
  <1>5. IsFiniteSet(R) /\ R \subseteq Partitions \X Consumers
    <2>1. IsFiniteSet(Partitions) /\ IsFiniteSet(Consumers)
      BY CoordinatorAssumption, FS_Interval, FS_Subset DEF Partitions, Members
    <2>2. IsFiniteSet(Partitions \X Consumers)
      BY <2>1, FS_Product
    <2>3. R \subseteq Partitions \X Consumers
      BY DEF Required
    <2> QED
      BY <2>2, <2>3, FS_Subset
  <1> HIDE DEF A, B, R
  <1>6. f \in Injection(C, R)
    <2>1. \A x \in C : f[x] = <<x[1], x[3]>> /\ f[x] \in R
      BY Zenon, <1>3 DEF R
    <2>2. ASSUME NEW x \in C, NEW y \in C, f[x] = f[y] PROVE x = y
      <3>1. x[1] = y[1] /\ x[3] = y[3]
        BY <2>1, <2>2
      <3>2. x[2] = y[2]
        BY <1>4, <3>1
      <3> QED
        BY <1>4, <3>1, <3>2 DEF Edges
    <2>3. f \in [C -> R]
      BY Zenon, <2>1
    <2> QED
      BY Zenon, <2>2, <2>3 DEF Injection, IsInjective
  <1>7. IsFiniteSet(C) /\ Cardinality(C) =< Cardinality(R)
        /\ (Cardinality(C) = Cardinality(R) <=> f \in Surjection(C, R))
    BY <1>5, <1>6, FS_Injection
  <1>8. Cardinality(C) = Cardinality(A) + Cardinality(B)
    <2>1. IsFiniteSet(A) /\ IsFiniteSet(B)
      BY <1>7, FS_Subset
    <2> QED
      BY <1>3, <2>1, FS_Union, FS_EmptySet, FS_CardinalityType
  <1>9. Cardinality(C) = Cardinality(R)
    <2>1. Cardinality(A) + Cardinality(B) >= Cardinality(R)
      BY <1>2 DEF Counted, A, B, R
    <2>2. Cardinality(C) \in Nat /\ Cardinality(R) \in Nat
      BY <1>5, <1>7, FS_CardinalityType
    <2> QED
      BY <1>7, <1>8, <2>1, <2>2
  <1>10. PICK x \in C : f[x] = e
    <2>1. f \in Surjection(C, R)
      BY <1>7, <1>9
    <2> QED
      BY Zenon, <2>1 DEF Surjection, R
  <1>11. x = <<e[1], core.manifests[e[1]].generation, e[2]>>
    <2>1. x[1] = e[1] /\ x[3] = e[2]
      BY <1>10
    <2> QED
      BY <1>4, <2>1 DEF Edges
  <1> QED
    BY <1>3, <1>11 DEF CurrentEdge

\* The durable records rebuild the live coordinator, but for the authority a restart
\* takes away: recover() after any history of calls, compactions and crashes.
THEOREM Recovery == ~CompactFinished => (Spec => []RecoveryReproduces)
  BY Invariant, InvImplies, PTL

\* recover() never meets a record that apply_record() refuses.
THEOREM Recoverable == ~CompactFinished => (Spec => []RecoverySucceeds)
  BY Invariant, InvImplies, PTL

\* commit_transfer(): an acknowledged completion is in every later ledger.
THEOREM Acknowledged == ~CompactFinished => (Spec => []AckedSurvives)
  BY Invariant, InvImplies, PTL

\* cancel_shuffle(): an acknowledged cancellation is final.
THEOREM Cancelled == ~CompactFinished => (Spec => []CancellationSticks)
  BY Invariant, InvImplies, PTL

\* commit_transfer() never takes a report of an earlier epoch for a new attempt of
\* the same number.
THEOREM ThisEpoch == ~CompactFinished => (Spec => []CommitsOfThisEpoch)
  BY Invariant, InvImplies, PTL

\* recover(): a demoted participant holds no authority until it registers anew.
THEOREM Demotion == ~CompactFinished => (Spec => []DemotedHoldNothing)
  BY Invariant, InvImplies, PTL

\* commit_transfer() and report_failure(): no edge completes and fails, and no two
\* attempts of one edge are in flight.
THEOREM Once == ~CompactFinished => (Spec => []ResolvedOnce)
  BY Invariant, InvImplies, PTL

\* publish_manifest() and next_wave(): one generation of a partition has one content.
THEOREM OneContent == ~CompactFinished => (Spec => []AgreedContent)
  BY Invariant, InvImplies, PTL

\* note_completion(): the counts close the shuffle on the set, as long as no resolved
\* edge has left the requirement.
THEOREM Completion == ~CompactFinished => (Spec => []CountedCompletion)
  BY Invariant, CountingSuffices, PTL

============================================================================
