--------------------------- MODULE TrackerProofs ----------------------------
(***************************************************************************)
(* The theorems about Tracker: for any number of peers and indexes, every  *)
(* joint configuration and every order of the peers, what the quorums of   *)
(* the code compute is what their definitions say.                         *)
(***************************************************************************)
EXTENDS Tracker, FiniteSetTheorems, NaturalsInduction, WellFoundedInduction, TLAPS

\* A set of numbers that is not empty has a least one.
LEMMA LeastExists ==
    ASSUME NEW S \in SUBSET Nat, S # {}
    PROVE  \E i \in S : \A j \in S : i <= j
<1>1. PICK i \in S : \A j \in S : ~ (<<j, i>> \in OpToRel(<, Nat))
  BY NatLessThanWellFounded, WFMin
<1>2. \A j \in S : i \in Nat /\ j \in Nat
  OBVIOUS
<1>3. \A j \in S : ~(j < i)
  BY <1>1, <1>2, Zenon DEF OpToRel
<1> QED
  BY <1>2, <1>3

-----------------------------------------------------------------------------
\* The order of the voters

\* Voters can be put in the order of their indexes: committed_index of a half that is
\* not empty has a result.
LEMMA SortedExists ==
    ASSUME NEW V, IsFiniteSet(V), NEW index, \A v \in V : index[v] \in Nat
    PROVE  Sorted(V, index) # {}
<1> DEFINE Bad == {T \in SUBSET V : Sorted(T, index) = {}}
<1>1. SUFFICES ASSUME Bad # {} PROVE FALSE
  OBVIOUS
<1>2. PICK T \in Bad : \A U \in Bad : ~ (<<U, T>> \in StrictSubsetOrdering(V))
  <2>1. IsWellFoundedOn(StrictSubsetOrdering(V), FiniteSubsetsOf(V))
    BY FS_StrictSubsetOrderingWellFounded
  <2>2. Bad \subseteq FiniteSubsetsOf(V)
    BY FS_Subset DEF FiniteSubsetsOf
  <2> QED
    BY <1>1, <2>1, <2>2, WFMin
<1>3. T \subseteq V /\ IsFiniteSet(T) /\ Sorted(T, index) = {}
  BY FS_Subset
<1>4. T # {}
  <2>1. SUFFICES ASSUME T = {} PROVE FALSE
    OBVIOUS
  <2>2. Cardinality(T) = 0
    BY <2>1, FS_EmptySet
  <2>3. [i \in 1..0 |-> 0] \in Sorted(T, index)
    BY <2>1, <2>2 DEF Sorted
  <2> QED
    BY <1>3, <2>3
<1>5. PICK x \in T : \A y \in T : index[x] <= index[y]
  <2> DEFINE S == {index[v] : v \in T}
  <2>1. S \in SUBSET Nat /\ S # {}
    BY <1>3, <1>4
  <2>2. PICK k \in S : \A j \in S : k <= j
    <3> HIDE DEF S
    <3> QED
      BY <2>1, LeastExists
  <2> QED
    BY <2>2
<1> DEFINE U == T \ {x}
<1>6. Sorted(U, index) # {}
  <2>1. U \subseteq V /\ U # T /\ U \subseteq T
    BY <1>3
  <2>2. <<U, T>> \in StrictSubsetOrdering(V)
    BY <1>3, <2>1 DEF StrictSubsetOrdering
  <2>3. U \notin Bad
    BY <1>2, <2>2
  <2> QED
    BY <2>1, <2>3
<1>7. PICK s \in Sorted(U, index) : TRUE
  BY <1>6
<1>8. /\ Cardinality(U) \in Nat
      /\ Cardinality(T) = Cardinality(U) + 1
  <2>1. /\ IsFiniteSet(U)
        /\ Cardinality(U) = Cardinality(T) - 1
    BY <1>3, FS_RemoveElement
  <2>2. Cardinality(T) \in Nat /\ Cardinality(U) \in Nat
    BY <1>3, <2>1, FS_CardinalityType
  <2> HIDE DEF U
  <2> QED
    BY <2>1, <2>2
<1> DEFINE n == Cardinality(T)
           r == [i \in 1..n |-> IF i = n THEN x ELSE s[i]]
<1>9. r \in [1..n -> T]
  <2>1. s \in [1..Cardinality(U) -> U]
    BY <1>7 DEF Sorted
  <2> HIDE DEF U, n
  <2>2. ASSUME NEW i \in 1..n, i # n PROVE s[i] \in U
    BY <1>8, <2>1, <2>2 DEF n
  <2> QED
    BY <1>5, <2>2 DEF U
<1>10. ASSUME NEW i \in 1..n, NEW j \in 1..n, i < j
       PROVE  r[i] # r[j] /\ index[r[i]] >= index[r[j]]
  <2> HIDE DEF U
  <2>0. /\ s \in [1..Cardinality(U) -> U] /\ DOMAIN s = 1..Cardinality(U)
        /\ \A a, b \in DOMAIN s : a < b => s[a] # s[b] /\ index[s[a]] >= index[s[b]]
    BY <1>7 DEF Sorted
  <2>1. i \in 1..Cardinality(U) /\ r[i] = s[i] /\ s[i] \in U
    BY <1>8, <1>10, <2>0
  <2>2. CASE j = n
    <3>1. r[j] = x
      BY <2>2
    <3>2. s[i] \in T /\ s[i] # x
      BY <2>1 DEF U
    <3>3. index[x] \in Nat /\ index[s[i]] \in Nat /\ index[x] <= index[s[i]]
      BY <1>3, <1>5, <3>2
    <3> QED
      BY <2>1, <3>1, <3>2, <3>3
  <2>3. CASE j # n
    <3>1. j \in 1..Cardinality(U) /\ r[j] = s[j]
      BY <1>8, <2>3
    <3> QED
      BY <1>10, <2>0, <2>1, <3>1
  <2> QED
    BY <2>2, <2>3
<1>11. r \in Sorted(T, index)
  <2> HIDE DEF r
  <2>1. DOMAIN r = 1..n
    BY <1>9
  <2> QED
    BY <1>9, <1>10, <2>1 DEF Sorted
<1> QED
  BY <1>3, <1>11

\* An order has every voter in one place.
LEMMA OrderIsComplete ==
    ASSUME NEW V, IsFiniteSet(V), NEW index, NEW s \in Sorted(V, index)
    PROVE  /\ Cardinality(V) \in Nat
           /\ s \in Injection(1..Cardinality(V), V)
           /\ \A v \in V : \E i \in 1..Cardinality(V) : s[i] = v
<1> DEFINE n == Cardinality(V)
<1>1. n \in Nat
  BY FS_CardinalityType
<1>2. s \in [1..n -> V] /\ DOMAIN s = 1..n
  BY DEF Sorted
<1>3. ASSUME NEW i \in 1..n, NEW j \in 1..n, s[i] = s[j] PROVE i = j
  <2>1. ~ (i < j) /\ ~ (j < i)
    BY <1>2, <1>3 DEF Sorted
  <2> QED
    BY <1>1, <2>1
<1>4. s \in Injection(1..n, V)
  BY <1>2, <1>3 DEF Injection, IsInjective
<1>5. IsFiniteSet(1..n) /\ Cardinality(1..n) = n
  BY <1>1, FS_Interval
<1>6. s \in Surjection(1..n, V)
  BY <1>4, <1>5, FS_Injection
<1> QED
  BY <1>1, <1>4, <1>6 DEF Surjection

\* The voters before place q are q-1, and with the one there they are q.
LEMMA FirstOnes ==
    ASSUME NEW V, IsFiniteSet(V), NEW index, NEW s \in Sorted(V, index),
           NEW q \in 0..Cardinality(V)
    PROVE  LET first == {s[i] : i \in 1..q}
           IN  first \subseteq V /\ IsFiniteSet(first) /\ Cardinality(first) = q
<1> DEFINE n == Cardinality(V)
           first == {s[i] : i \in 1..q}
           f == [i \in 1..q |-> s[i]]
<1>1. n \in Nat /\ s \in Injection(1..n, V)
  BY OrderIsComplete
<1>2. q \in Nat /\ 1..q \subseteq 1..n
  BY <1>1
<1>3. first \subseteq V
  BY <1>1, <1>2 DEF Injection, IsInjective
<1>4. f \in Surjection(1..q, first) /\ f \in Injection(1..q, first)
  <2>1. f \in [1..q -> first]
    OBVIOUS
  <2>2. \A a, b \in 1..q : f[a] = f[b] => a = b
    BY <1>1, <1>2 DEF Injection, IsInjective
  <2>3. \A t \in first : \E i \in 1..q : f[i] = t
    OBVIOUS
  <2> QED
    BY <2>1, <2>2, <2>3 DEF Injection, IsInjective, Surjection
<1>5. IsFiniteSet(1..q) /\ Cardinality(1..q) = q
  BY <1>2, FS_Interval
<1> HIDE DEF first, f
<1>6. IsFiniteSet(first) /\ Cardinality(first) = q
  BY <1>4, <1>5, FS_Surjection
<1> QED
  BY <1>3, <1>6 DEF first

\* More than half of the voters have an index if and only if the one at the place of
\* the majority has it (MajorityConfig::committed_index).
LEMMA QuorumIndex ==
    ASSUME NEW V, IsFiniteSet(V), V # {}, NEW index, \A v \in V : index[v] \in Nat,
           NEW s \in Sorted(V, index), NEW k \in Nat,
           NEW q, q = Majority(Cardinality(V))
    PROVE  /\ q \in 1..Cardinality(V) /\ s[q] \in V
           /\ 2 * Cardinality({id \in V : index[id] >= k}) > Cardinality(V)
                <=> index[s[q]] >= k
<1> DEFINE n == Cardinality(V)
           have == {id \in V : index[id] >= k}
<1>1. /\ n \in Nat /\ n # 0
      /\ s \in [1..n -> V] /\ DOMAIN s = 1..n
      /\ \A v \in V : \E i \in 1..n : s[i] = v
      /\ \A i, j \in 1..n : i < j => index[s[i]] >= index[s[j]]
  <2>1. n \in Nat /\ \A v \in V : \E i \in 1..n : s[i] = v
    BY OrderIsComplete
  <2>2. n # 0
    BY FS_EmptySet
  <2>3. s \in [1..n -> V] /\ DOMAIN s = 1..n
    BY DEF Sorted
  <2>4. \A i, j \in DOMAIN s : i < j => index[s[i]] >= index[s[j]]
    BY DEF Sorted
  <2> QED
    BY <2>1, <2>2, <2>3, <2>4
<1>2. q \in 1..n /\ q - 1 \in 0..n /\ 2 * q > n /\ ~(2 * (q - 1) > n)
  <2> HIDE DEF n
  <2> QED
    BY <1>1 DEF Majority, n
<1>3. have \subseteq V /\ IsFiniteSet(have) /\ Cardinality(have) \in Nat
  <2>1. have \subseteq V
    OBVIOUS
  <2> QED
    BY <2>1, FS_Subset, FS_CardinalityType
<1>4. CASE index[s[q]] >= k
  <2> DEFINE first == {s[i] : i \in 1..q}
  <2>1. first \subseteq have
    <3>1. SUFFICES ASSUME NEW i \in 1..q PROVE s[i] \in have
      OBVIOUS
    <3>2. i \in 1..n /\ (i = q \/ i < q)
      BY <1>1, <1>2
    <3>3. s[i] \in V /\ index[s[i]] \in Nat /\ index[s[q]] \in Nat
      BY <1>1, <1>2, <3>2
    <3>4. index[s[i]] >= index[s[q]]
      BY <1>1, <1>2, <3>2, <3>3
    <3> QED
      BY <1>4, <3>3, <3>4
  <2>2. Cardinality(first) = q
    <3>1. q \in 0..Cardinality(V)
      BY <1>1, <1>2
    <3> QED
      BY <3>1, FirstOnes
  <2>3. q <= Cardinality(have)
    <3> HIDE DEF first, have
    <3> QED
      BY <1>3, <2>1, <2>2, FS_Subset
  <2> HIDE DEF have, n
  <2>4. 2 * Cardinality(have) > n
    BY <1>1, <1>2, <1>3, <2>3
  <2> QED
    BY <1>1, <1>2, <1>4, <2>4 DEF have, n
<1>5. CASE ~(index[s[q]] >= k)
  <2> DEFINE first == {s[i] : i \in 1..(q - 1)}
  <2>1. have \subseteq first
    <3>1. SUFFICES ASSUME NEW v \in have PROVE v \in first
      OBVIOUS
    <3>2. PICK i \in 1..n : s[i] = v
      BY <1>1
    <3>3. i < q
      <4>1. SUFFICES ASSUME ~(i < q) PROVE FALSE
        OBVIOUS
      <4>2. i = q \/ q < i
        BY <1>1, <1>2, <4>1
      <4>3. index[s[i]] \in Nat /\ index[s[q]] \in Nat /\ index[s[i]] >= k
        BY <1>1, <1>2, <3>2
      <4>4. index[s[q]] >= index[s[i]]
        BY <1>1, <1>2, <4>2, <4>3, SMTT(20)
      <4> QED
        BY <1>5, <4>3, <4>4
    <3>4. i \in 1..(q - 1)
      BY <1>1, <1>2, <3>3
    <3> QED
      BY <3>2, <3>4
  <2>2. Cardinality(first) = q - 1 /\ IsFiniteSet(first)
    <3>1. q - 1 \in 0..Cardinality(V)
      BY <1>1, <1>2
    <3> QED
      BY <3>1, FirstOnes
  <2>3. Cardinality(have) <= q - 1
    <3> HIDE DEF first, have
    <3> QED
      BY <1>3, <2>1, <2>2, FS_Subset
  <2> HIDE DEF have, n
  <2>4. ~(2 * Cardinality(have) > n)
    BY <1>1, <1>2, <1>3, <2>3
  <2> QED
    BY <1>1, <1>2, <1>5, <2>4 DEF have, n
<1> QED
  BY <1>4, <1>5

-----------------------------------------------------------------------------
\* One half of the configuration

TypeOK ==
    /\ electing \in BOOLEAN
    /\ incoming \in SUBSET Ids /\ incoming # {}
    /\ outgoing \in SUBSET Ids
    /\ matched \in [Ids -> 0..MaxMatched]
    /\ group \in [Ids -> Groups \cup {0}]
    /\ group_commit \in BOOLEAN
    /\ votes \in [Ids -> {"yes", "no", "none"}]

\* What of a half is known of the places of its voters.
LEMMA HalfInOrder ==
    ASSUME TypeOK, NEW half \in SUBSET Ids, half # {}, NEW s \in Sorted(half, matched)
    PROVE  /\ IsFiniteSet(half)
           /\ Cardinality(half) \in Nat /\ Cardinality(half) # 0
           /\ s \in [1..Cardinality(half) -> half] /\ DOMAIN s = 1..Cardinality(half)
           /\ \A v \in half : \E i \in 1..Cardinality(half) : s[i] = v
           /\ \A i, j \in 1..Cardinality(half) : i <= j => matched[s[i]] >= matched[s[j]]
           /\ \A v \in half : matched[v] \in Nat /\ matched[v] <= MaxMatched
<1>1. IsFiniteSet(half)
  BY TrackerAssumption, FS_Subset
<1>2. /\ Cardinality(half) \in Nat
      /\ \A v \in half : \E i \in 1..Cardinality(half) : s[i] = v
  BY <1>1, OrderIsComplete
<1>3. Cardinality(half) # 0
  BY <1>1, FS_EmptySet
<1>4. s \in [1..Cardinality(half) -> half] /\ DOMAIN s = 1..Cardinality(half)
  BY DEF Sorted
<1>5. \A v \in half : matched[v] \in Nat /\ matched[v] <= MaxMatched
  BY TrackerAssumption DEF TypeOK
<1>6. \A i, j \in 1..Cardinality(half) : i < j => matched[s[i]] >= matched[s[j]]
  <2>1. \A i, j \in DOMAIN s : i < j => matched[s[i]] >= matched[s[j]]
    BY DEF Sorted
  <2> QED
    BY <1>4, <2>1
<1>7. ASSUME NEW i \in 1..Cardinality(half), NEW j \in 1..Cardinality(half), i <= j
      PROVE  matched[s[i]] >= matched[s[j]]
  <2>1. matched[s[i]] \in Nat /\ matched[s[j]] \in Nat
    BY <1>4, <1>5
  <2>2. i < j \/ i = j
    BY <1>2, <1>7
  <2> QED
    BY <1>6, <2>1, <2>2
<1> QED
  BY <1>1, <1>2, <1>3, <1>4, <1>5, <1>7

\* More than half of a half acknowledged an index if and only if the voter at the
\* quorum's place did.
LEMMA AckedUpToQuorum ==
    ASSUME TypeOK, NEW half \in SUBSET Ids, half # {}, NEW s \in Sorted(half, matched),
           NEW q, q = Majority(Cardinality(half)), NEW k \in Nat
    PROVE  /\ q \in 1..Cardinality(half) /\ s[q] \in half
           /\ AckedByMost(half, k) <=> k <= matched[s[q]]
<1>1. /\ IsFiniteSet(half)
      /\ \A v \in half : matched[v] \in Nat
  BY HalfInOrder
<1>2. /\ q \in 1..Cardinality(half) /\ s[q] \in half
      /\ 2 * Cardinality({id \in half : matched[id] >= k}) > Cardinality(half)
            <=> matched[s[q]] >= k
  BY <1>1, QuorumIndex
<1>3. matched[s[q]] \in Nat
  BY <1>1, <1>2
<1> QED
  BY <1>2, <1>3 DEF AckedByMost

\* A half spans two groups if and only if a voter is of another group than the one
\* that the others are compared with; and that one comes first, or is the quorum's.
LEMMA OtherGroup ==
    ASSUME TypeOK, NEW half \in SUBSET Ids, half # {}, NEW s \in Sorted(half, matched),
           NEW q, q = Majority(Cardinality(half)),
           NEW g, g = CheckedGroup(s, group),
           NEW other, other = {i \in DOMAIN s : group[s[i]] \notin {0, g}}
    PROVE  /\ Spanned(half) <=> other # {}
           /\ other # {} => \E p \in DOMAIN s : /\ group[s[p]] = g /\ g # 0
                                                /\ p = q \/ \A j \in other : p <= j
<1> DEFINE n == Cardinality(half)
           grouped == {i \in DOMAIN s : group[s[i]] # 0}
           of == {group[id] : id \in half} \ {0}
<1>1. /\ IsFiniteSet(half) /\ n \in Nat /\ n # 0
      /\ s \in [1..n -> half] /\ DOMAIN s = 1..n
      /\ \A v \in half : \E i \in 1..n : s[i] = v
  BY HalfInOrder
<1>2. q \in 1..n
  <2>1. 0 \in Nat
    OBVIOUS
  <2> QED
    BY <2>1, AckedUpToQuorum
<1>3. Cardinality(DOMAIN s) = n
  BY <1>1, FS_Interval
<1>4. g = IF group[s[q]] # 0 \/ grouped = {} THEN group[s[q]]
          ELSE group[s[First(grouped)]]
  BY <1>3 DEF CheckedGroup
<1>5. ASSUME other # {}
      PROVE  \E p \in DOMAIN s : /\ group[s[p]] = g /\ g # 0
                                 /\ p = q \/ \A j \in other : p <= j
  <2>1. PICK i \in DOMAIN s : group[s[i]] \notin {0, g}
    BY <1>5
  <2>2. i \in grouped
    BY <2>1
  <2>3. CASE group[s[q]] # 0
    BY <1>1, <1>2, <1>4, <2>3
  <2>4. CASE group[s[q]] = 0
    <3> DEFINE p == First(grouped)
    <3>1. grouped \in SUBSET Nat /\ grouped # {}
      BY <1>1, <2>2
    <3>2. p \in grouped /\ \A k \in grouped : p <= k
      <4>1. \E j \in grouped : \A k \in grouped : j <= k
        <5> HIDE DEF grouped
        <5> QED
          BY <3>1, LeastExists
      <4> HIDE DEF grouped
      <4> QED
        BY <4>1 DEF First
    <3>3. g = group[s[p]]
      BY <1>4, <2>2, <2>4
    <3> HIDE DEF p
    <3>4. p \in DOMAIN s /\ group[s[p]] # 0
      BY <3>2
    <3>5. \A j \in other : p <= j
      BY <3>2
    <3> QED
      BY <3>3, <3>4, <3>5
  <2> QED
    BY <2>3, <2>4
<1>6. IsFiniteSet(of)
  <2> DEFINE all == {group[id] : id \in half}
             f == [id \in half |-> group[id]]
  <2>1. f \in [half -> all]
    OBVIOUS
  <2>2. \A t \in all : \E id \in half : f[id] = t
    OBVIOUS
  <2> HIDE DEF f, all
  <2>3. f \in Surjection(half, all)
    BY <2>1, <2>2 DEF Surjection
  <2>4. IsFiniteSet(all)
    BY <1>1, <2>3, FS_Surjection
  <2>5. of \in SUBSET all
    BY DEF all
  <2> HIDE DEF of
  <2> QED
    BY <2>4, <2>5, FS_Subset
<1>7. ASSUME other # {} PROVE Spanned(half)
  <2>1. PICK p \in DOMAIN s : group[s[p]] = g /\ g # 0
    BY <1>5, <1>7
  <2>2. PICK i \in DOMAIN s : group[s[i]] \notin {0, g}
    BY <1>7
  <2>3. PICK h : h = group[s[i]]
    OBVIOUS
  <2>4. {g} \cup {h} \in SUBSET of
    BY <1>1, <2>1, <2>2, <2>3
  <2>5. IsFiniteSet({g}) /\ Cardinality({g}) = 1
    BY FS_Singleton
  <2>6. Cardinality({g} \cup {h}) = 2
    <3>1. PICK S : S = {g}
      OBVIOUS
    <3>2. IsFiniteSet(S) /\ Cardinality(S) = 1 /\ h \notin S
      BY <2>2, <2>3, <2>5, <3>1
    <3>3. Cardinality(S \cup {h}) = IF h \in S THEN Cardinality(S) ELSE Cardinality(S) + 1
      BY <3>2, FS_AddElement
    <3> QED
      BY <3>1, <3>2, <3>3
  <2> HIDE DEF of
  <2>7. 2 <= Cardinality(of) /\ Cardinality(of) \in Nat
    BY <1>6, <2>4, <2>6, FS_Subset, FS_CardinalityType
  <2>8. Cardinality(of) >= 2
    BY <2>7
  <2> QED
    BY <2>8 DEF Spanned, of
<1>8. ASSUME other = {} PROVE ~Spanned(half)
  <2>1. of \in SUBSET {g}
    <3>1. SUFFICES ASSUME NEW id \in half, group[id] # 0 PROVE group[id] = g
      OBVIOUS
    <3>2. PICK i \in DOMAIN s : s[i] = id
      BY <1>1
    <3> QED
      BY <1>8, <3>1, <3>2
  <2> HIDE DEF of
  <2>2. Cardinality(of) <= 1 /\ Cardinality(of) \in Nat
    <3>1. IsFiniteSet({g}) /\ Cardinality({g}) = 1
      BY FS_Singleton
    <3> QED
      BY <1>6, <2>1, <3>1, FS_Subset, FS_CardinalityType
  <2>3. ~(Cardinality(of) >= 2)
    BY <2>2
  <2> QED
    BY <2>3 DEF Spanned, of
<1> QED
  BY <1>5, <1>7, <1>8

\* What GroupCommitted finds for a half is the highest index that may be committed by
\* groups (MajorityConfig::committed_index with use_group_commit).
LEMMA GroupCommittedIndex ==
    ASSUME TypeOK, NEW half \in SUBSET Ids, half # {}, NEW s \in Sorted(half, matched),
           NEW c, c = GroupCommitted(s, matched, group)
    PROVE  /\ c[1] \in 0..MaxMatched
           /\ c[2] <=> Spanned(half)
           /\ \A k \in Nat : MayCommit(half, k) <=> k <= c[1]
<1> DEFINE n == Cardinality(half)
<1>1. /\ n \in Nat /\ n # 0
      /\ s \in [1..n -> half] /\ DOMAIN s = 1..n
      /\ \A v \in half : \E i \in 1..n : s[i] = v
      /\ \A i, j \in 1..n : i <= j => matched[s[i]] >= matched[s[j]]
      /\ \A v \in half : matched[v] \in Nat /\ matched[v] <= MaxMatched
  BY HalfInOrder
<1>2. PICK q : q = Majority(n)
  OBVIOUS
<1>3. /\ q \in 1..n /\ s[q] \in half
      /\ \A k \in Nat : AckedByMost(half, k) <=> k <= matched[s[q]]
  <2>1. \A k \in Nat : /\ q \in 1..n /\ s[q] \in half
                       /\ AckedByMost(half, k) <=> k <= matched[s[q]]
    BY <1>2, AckedUpToQuorum
  <2>2. 0 \in Nat
    OBVIOUS
  <2> QED
    BY <2>1, <2>2
<1>4. PICK quorum \in Nat : quorum = matched[s[q]] /\ quorum <= MaxMatched
  BY <1>1, <1>3
<1>5. PICK g : g = CheckedGroup(s, group)
  OBVIOUS
<1>6. PICK other : other = {i \in DOMAIN s : group[s[i]] \notin {0, g}}
  OBVIOUS
<1>7. /\ Spanned(half) <=> other # {}
      /\ other # {} => \E p \in DOMAIN s : /\ group[s[p]] = g /\ g # 0
                                           /\ p = q \/ \A j \in other : p <= j
  BY <1>2, <1>5, <1>6, OtherGroup
<1>8. Majority(Cardinality(DOMAIN s)) = q /\ Cardinality(DOMAIN s) = n
  BY <1>1, <1>2, FS_Interval
<1>9. c = IF other # {}
          THEN <<Smaller(matched[s[First(other)]], quorum), TRUE>>
          ELSE IF \A i \in DOMAIN s : group[s[i]] # 0 THEN <<quorum, FALSE>>
          ELSE <<matched[s[n]], FALSE>>
  <2>1. other = {i \in DOMAIN s : group[s[i]] \notin {0, CheckedGroup(s, group)}}
    BY <1>5, <1>6
  <2>2. GroupCommitted(s, matched, group) =
          IF other # {}
          THEN <<Smaller(matched[s[First(other)]],
                         matched[s[Majority(Cardinality(DOMAIN s))]]), TRUE>>
          ELSE IF \A i \in DOMAIN s : group[s[i]] # 0
          THEN <<matched[s[Majority(Cardinality(DOMAIN s))]], FALSE>>
          ELSE <<matched[s[Cardinality(DOMAIN s)]], FALSE>>
    BY <2>1 DEF GroupCommitted
  <2> HIDE DEF n
  <2> QED
    BY <1>4, <1>8, <2>2
<1> HIDE DEF n
<1>10. CASE other # {}
  <2>1. PICK f \in other : /\ \A j \in other : f <= j
                           /\ c = <<Smaller(matched[s[f]], quorum), TRUE>>
    <3>1. other \in SUBSET Nat
      BY <1>1, <1>6
    <3>2. \E i \in other : \A j \in other : i <= j
      BY <1>10, <3>1, LeastExists
    <3> QED
      BY <1>9, <1>10, <3>2 DEF First
  <2>2. f \in 1..n /\ group[s[f]] \notin {0, g} /\ s[f] \in half
    BY <1>1, <1>6
  <2>3. PICK least \in Nat : least = matched[s[f]] /\ least <= MaxMatched
    BY <1>1, <2>2
  <2>4. c[1] = Smaller(least, quorum) /\ c[2]
    BY <2>1, <2>3
  <2>5. PICK p \in 1..n : /\ group[s[p]] = g /\ g # 0
                          /\ p = q \/ \A j \in other : p <= j
    BY <1>1, <1>7, <1>10
  <2>6. ASSUME NEW k \in Nat, k <= c[1] PROVE MayCommit(half, k)
    <3>1. k <= least /\ k <= quorum
      BY <2>4, <2>6 DEF Smaller
    <3>2. AckedByMost(half, k)
      BY <1>3, <1>4, <3>1
    <3>3. s[p] \in half /\ matched[s[p]] \in Nat
      BY <1>1
    <3>4. matched[s[p]] >= k
      <4>1. CASE p = q
        BY <1>4, <3>1, <4>1
      <4>2. CASE \A j \in other : p <= j
        <5>1. p <= f
          BY <4>2
        <5>2. matched[s[p]] >= least
          BY <1>1, <2>2, <2>3, <5>1
        <5> QED
          BY <3>1, <3>3, <5>2
      <4> QED
        BY <2>5, <4>1, <4>2
    <3>5. TwoGroups(half, k)
      <4>1. /\ 0 \notin {group[s[p]], group[s[f]]} /\ group[s[p]] # group[s[f]]
            /\ matched[s[p]] >= k /\ matched[s[f]] >= k
        BY <2>2, <2>3, <2>5, <3>1, <3>4
      <4> QED
        BY <2>2, <3>3, <4>1 DEF TwoGroups
    <3> QED
      BY <1>7, <1>10, <3>2, <3>5 DEF MayCommit
  <2>7. ASSUME NEW k \in Nat, MayCommit(half, k) PROVE k <= c[1]
    <3>1. k <= quorum
      BY <1>3, <1>4, <2>7 DEF MayCommit
    <3>2. PICK a \in half, b \in half : /\ 0 \notin {group[a], group[b]}
                                       /\ group[a] # group[b]
                                       /\ matched[a] >= k /\ matched[b] >= k
      BY <1>7, <1>10, <2>7 DEF MayCommit, TwoGroups
    <3>3. PICK d \in half : group[d] \notin {0, g} /\ matched[d] >= k
      BY <3>2
    <3>4. PICK i \in 1..n : s[i] = d
      BY <1>1
    <3>5. i \in other
      BY <1>1, <1>6, <3>3, <3>4
    <3>6. least >= matched[d] /\ matched[d] \in Nat
      BY <1>1, <2>1, <2>2, <2>3, <3>4, <3>5
    <3> QED
      BY <2>4, <3>1, <3>3, <3>6 DEF Smaller
  <2>8. c[1] \in 0..MaxMatched
    BY <1>4, <2>3, <2>4 DEF Smaller
  <2> QED
    BY <1>7, <1>10, <2>4, <2>6, <2>7, <2>8
<1>11. CASE other = {} /\ \A i \in DOMAIN s : group[s[i]] # 0
  <2>1. c[1] = quorum /\ c[2] = FALSE
    BY <1>9, <1>11
  <2>2. ~Spanned(half) /\ \A id \in half : group[id] # 0
    BY <1>1, <1>7, <1>11
  <2>3. \A k \in Nat : MayCommit(half, k) <=> k <= c[1]
    BY <1>3, <1>4, <2>1, <2>2 DEF MayCommit
  <2>4. c[1] \in 0..MaxMatched
    BY <1>4, <2>1
  <2> QED
    BY <2>1, <2>2, <2>3, <2>4
<1>12. CASE other = {} /\ ~ \A i \in DOMAIN s : group[s[i]] # 0
  <2>1. n \in 1..n /\ s[n] \in half
    BY <1>1
  <2>2. PICK lowest \in Nat : lowest = matched[s[n]] /\ lowest <= MaxMatched
    BY <1>1, <2>1
  <2>3. c[1] = lowest /\ c[2] = FALSE
    BY <1>9, <1>12, <2>2
  <2>4. ~Spanned(half) /\ \E id \in half : group[id] = 0
    BY <1>1, <1>7, <1>12
  <2>5. ASSUME NEW k \in Nat, MayCommit(half, k) PROVE k <= c[1]
    <3>1. matched[s[n]] >= k
      BY <2>1, <2>4, <2>5 DEF MayCommit
    <3> QED
      BY <2>2, <2>3, <3>1
  <2>6. ASSUME NEW k \in Nat, k <= c[1] PROVE MayCommit(half, k)
    <3>1. ASSUME NEW v \in half PROVE matched[v] >= k
      <4>1. PICK i \in 1..n : s[i] = v
        BY <1>1
      <4>2. i <= n
        BY <1>1
      <4>3. matched[v] >= lowest /\ matched[v] \in Nat
        BY <1>1, <2>1, <2>2, <4>1, <4>2
      <4> QED
        BY <2>3, <2>6, <4>3
    <3>2. k <= quorum
      BY <1>3, <1>4, <3>1
    <3>3. AckedByMost(half, k)
      BY <1>3, <1>4, <3>2
    <3> QED
      BY <2>4, <3>1, <3>3 DEF MayCommit
  <2>7. c[1] \in 0..MaxMatched
    BY <2>2, <2>3
  <2> QED
    BY <2>3, <2>4, <2>5, <2>6, <2>7
<1> QED
  BY <1>10, <1>11, <1>12

-----------------------------------------------------------------------------
\* Both halves

\* What a half may commit.
CanCommit(half, k) == IF group_commit THEN MayCommit(half, k) ELSE AckedByMost(half, k)

\* The result for one half, with group commit or without, in whatever order voters
\* of the same index stand.
LEMMA HalfCommitted ==
    ASSUME TypeOK, NEW half \in SUBSET Ids, half # {},
           NEW c \in CommittedIndexes(half, group_commit, matched, group)
    PROVE  /\ c[1] \in 0..MaxMatched
           /\ group_commit => (c[2] <=> Spanned(half))
           /\ \A k \in Nat : CanCommit(half, k) <=> k <= c[1]
<1>1. PICK s \in Sorted(half, matched) :
        c = IF group_commit THEN GroupCommitted(s, matched, group)
            ELSE <<matched[s[Majority(Cardinality(half))]], FALSE>>
  BY DEF CommittedIndexes
<1>2. CASE group_commit
  <2>1. c = GroupCommitted(s, matched, group)
    BY <1>1, <1>2
  <2> QED
    BY <1>2, <2>1, GroupCommittedIndex DEF CanCommit
<1>3. CASE ~group_commit
  <2>1. PICK q : q = Majority(Cardinality(half))
    OBVIOUS
  <2>2. c[1] = matched[s[q]]
    BY <1>1, <1>3, <2>1
  <2>3. \A k \in Nat : s[q] \in half /\ (AckedByMost(half, k) <=> k <= matched[s[q]])
    BY <2>1, AckedUpToQuorum
  <2>4. s[q] \in half
    <3>1. 0 \in Nat
      OBVIOUS
    <3> QED
      BY <2>3, <3>1
  <2>5. c[1] \in 0..MaxMatched
    BY <2>2, <2>4 DEF TypeOK
  <2> QED
    BY <1>3, <2>2, <2>3, <2>5 DEF CanCommit
<1> QED
  BY <1>2, <1>3

\* The result of both halves is the highest index that each of them may commit
\* (JointConfig::committed_index); an empty half does not count.
LEMMA BothCommitted ==
    ASSUME TypeOK, NEW c \in MaximalCommittedIndexes
    PROVE  /\ c[1] \in 0..MaxMatched
           /\ group_commit => (c[2] <=> \A half \in Halves : Spanned(half))
           /\ \A k \in Nat : (\A half \in Halves : CanCommit(half, k)) <=> k <= c[1]
<1>1. PICK i \in CommittedIndexes(incoming, group_commit, matched, group),
           o \in CommittedIndexes(outgoing, group_commit, matched, group) :
        c = <<Smaller(i[1], o[1]), i[2] /\ o[2]>>
  BY DEF MaximalCommittedIndexes, JointCommittedIndexes
<1>2. c[1] = Smaller(i[1], o[1]) /\ (c[2] <=> i[2] /\ o[2])
  BY <1>1
<1>3. /\ i[1] \in 0..MaxMatched
      /\ group_commit => (i[2] <=> Spanned(incoming))
      /\ \A k \in Nat : CanCommit(incoming, k) <=> k <= i[1]
  BY HalfCommitted DEF TypeOK
<1>4. CASE outgoing = {}
  <2>1. o = <<Infinity, TRUE>>
    BY <1>4 DEF CommittedIndexes
  <2>2. i[1] <= Infinity
    BY <1>3, TrackerAssumption DEF Infinity
  <2>3. c[1] = i[1] /\ (c[2] <=> i[2])
    BY <1>2, <2>1, <2>2 DEF Smaller
  <2>4. Halves = {incoming}
    BY <1>4 DEF Halves, TypeOK
  <2> QED
    BY <1>3, <2>3, <2>4
<1>5. CASE outgoing # {}
  <2>1. /\ o[1] \in 0..MaxMatched
        /\ group_commit => (o[2] <=> Spanned(outgoing))
        /\ \A k \in Nat : CanCommit(outgoing, k) <=> k <= o[1]
    BY <1>5, HalfCommitted DEF TypeOK
  <2>2. Halves = {incoming, outgoing}
    BY <1>5 DEF Halves, TypeOK
  <2>3. c[1] \in 0..MaxMatched /\ \A k \in Nat : k <= c[1] <=> k <= i[1] /\ k <= o[1]
    BY <1>2, <1>3, <2>1, TrackerAssumption DEF Smaller
  <2>4. ASSUME NEW k \in Nat
        PROVE  (\A half \in Halves : CanCommit(half, k)) <=> k <= c[1]
    BY <1>3, <2>1, <2>2, <2>3
  <2>5. group_commit => (c[2] <=> \A half \in Halves : Spanned(half))
    BY <1>2, <1>3, <2>1, <2>2
  <2> QED
    BY <2>3, <2>4, <2>5
<1> QED
  BY <1>4, <1>5

\* There is a result.
LEMMA CommittedExists ==
    ASSUME TypeOK
    PROVE  MaximalCommittedIndexes # {}
<1>1. ASSUME NEW half \in SUBSET Ids
      PROVE  CommittedIndexes(half, group_commit, matched, group) # {}
  <2>1. CASE half = {}
    BY <2>1 DEF CommittedIndexes
  <2>2. CASE half # {}
    <3>1. IsFiniteSet(half) /\ \A v \in half : matched[v] \in Nat
      BY TrackerAssumption, FS_Subset DEF TypeOK
    <3>2. Sorted(half, matched) # {}
      BY <3>1, SortedExists
    <3> QED
      BY <2>2, <3>2 DEF CommittedIndexes
  <2> QED
    BY <2>1, <2>2
<1>2. /\ CommittedIndexes(incoming, group_commit, matched, group) # {}
      /\ CommittedIndexes(outgoing, group_commit, matched, group) # {}
  BY <1>1 DEF TypeOK
<1>3. PICK i \in CommittedIndexes(incoming, group_commit, matched, group),
           o \in CommittedIndexes(outgoing, group_commit, matched, group) : TRUE
  BY <1>2
<1>4. <<Smaller(i[1], o[1]), i[2] /\ o[2]>> \in MaximalCommittedIndexes
  BY <1>3 DEF MaximalCommittedIndexes, JointCommittedIndexes
<1> QED
  BY <1>4

\* The committed index of a leader is the highest that more than half of both halves
\* acknowledged.
LEMMA MostAcked ==
    ASSUME TypeOK
    PROVE  CommittedByMost
<1>1. SUFFICES ASSUME ~group_commit
               PROVE  LET highest == {n \in 0..MaxMatched :
                                        /\ \A half \in Halves : AckedByMost(half, n)
                                        /\ \E half \in Halves : ~AckedByMost(half, n + 1)}
                      IN  /\ {c[1] : c \in MaximalCommittedIndexes} = highest
                          /\ Cardinality(highest) = 1
  BY DEF CommittedByMost
<1> DEFINE highest == {n \in 0..MaxMatched :
                         /\ \A half \in Halves : AckedByMost(half, n)
                         /\ \E half \in Halves : ~AckedByMost(half, n + 1)}
<1>2. \A half, k : CanCommit(half, k) <=> AckedByMost(half, k)
  BY <1>1 DEF CanCommit
<1>3. ASSUME NEW c \in MaximalCommittedIndexes PROVE highest = {c[1]}
  <2>1. /\ c[1] \in 0..MaxMatched
        /\ \A k \in Nat : (\A half \in Halves : AckedByMost(half, k)) <=> k <= c[1]
    BY <1>2, BothCommitted
  <2>2. PICK k \in Nat : k = c[1] /\ k \in 0..MaxMatched
    BY <2>1
  <2>3. ASSUME NEW n \in Nat
        PROVE  (\A half \in Halves : AckedByMost(half, n))
                 /\ ~(\A half \in Halves : AckedByMost(half, n + 1)) <=> n = k
    <3>1. n + 1 \in Nat
      OBVIOUS
    <3>2. n <= k /\ ~(n + 1 <= k) <=> n = k
      BY <2>2
    <3> QED
      BY <2>1, <2>2, <3>1, <3>2
  <2>4. \A n \in 0..MaxMatched : n \in highest <=> n = k
    BY <2>3
  <2> QED
    BY <2>2, <2>4
<1>4. PICK c \in MaximalCommittedIndexes : TRUE
  BY CommittedExists
<1>5. {d[1] : d \in MaximalCommittedIndexes} = highest
  <2> HIDE DEF highest
  <2>1. \A d \in MaximalCommittedIndexes : highest = {d[1]}
    BY <1>3
  <2>2. \A d \in MaximalCommittedIndexes : d[1] = c[1]
    BY <1>3, <2>1
  <2> QED
    BY <1>4, <2>1, <2>2
<1>6. Cardinality(highest) = 1
  <2> HIDE DEF highest
  <2> QED
    BY <1>3, <1>4, FS_Singleton
<1> QED
  BY <1>5, <1>6

\* With group commit it is the highest that two groups have too.
LEMMA GroupsSpanned ==
    ASSUME TypeOK
    PROVE  GroupCommitSpansGroups
<1>1. SUFFICES ASSUME group_commit, NEW c \in MaximalCommittedIndexes
               PROVE  /\ \A half \in Halves : MayCommit(half, c[1])
                      /\ \E half \in Halves : ~MayCommit(half, c[1] + 1)
                      /\ c[2] <=> \A half \in Halves : Spanned(half)
  BY DEF GroupCommitSpansGroups
<1>2. \A half, k : CanCommit(half, k) <=> MayCommit(half, k)
  BY <1>1 DEF CanCommit
<1>3. /\ c[1] \in 0..MaxMatched
      /\ c[2] <=> \A half \in Halves : Spanned(half)
      /\ \A k \in Nat : (\A half \in Halves : MayCommit(half, k)) <=> k <= c[1]
  BY <1>1, <1>2, BothCommitted
<1>4. c[1] \in Nat /\ c[1] + 1 \in Nat /\ c[1] <= c[1] /\ ~(c[1] + 1 <= c[1])
  BY <1>3
<1> QED
  BY <1>3, <1>4

-----------------------------------------------------------------------------
\* Votes

\* How the vote of a half stands.
LEMMA HalfVoted ==
    ASSUME TypeOK, NEW half \in SUBSET Ids
    PROVE  VoteResult(half, Yes, Missing) =
             IF half = {} \/ 2 * Cardinality(half \cap Yes) > Cardinality(half) THEN "won"
             ELSE IF 2 * Cardinality(half \cap (Yes \cup Missing)) > Cardinality(half)
             THEN "pending" ELSE "lost"
<1> DEFINE n == Cardinality(half)
           y == half \cap Yes
           m == half \cap Missing
<1>1. IsFiniteSet(half)
  BY TrackerAssumption, FS_Subset
<1>2. IsFiniteSet(y) /\ IsFiniteSet(m)
  BY <1>1, FS_Intersection
<1>3. n \in Nat /\ Cardinality(y) \in Nat /\ Cardinality(m) \in Nat
  BY <1>1, <1>2, FS_CardinalityType
<1>4. Cardinality(half \cap (Yes \cup Missing)) = Cardinality(y) + Cardinality(m)
  <2>1. half \cap (Yes \cup Missing) = y \cup m /\ y \cap m = {}
    BY DEF Yes, Missing
  <2>2. Cardinality(y \cap m) = 0
    BY <2>1, FS_EmptySet
  <2>3. PICK a, b : a = y /\ b = m
    OBVIOUS
  <2>4. Cardinality(a \cup b) = Cardinality(a) + Cardinality(b) - Cardinality(a \cap b)
    BY <1>2, <2>3, FS_Union
  <2>5. /\ Cardinality(a \cap b) = 0 /\ half \cap (Yes \cup Missing) = a \cup b
        /\ Cardinality(a) \in Nat /\ Cardinality(b) \in Nat
    BY <1>3, <2>1, <2>2, <2>3
  <2>6. Cardinality(a \cup b) = Cardinality(a) + Cardinality(b)
    BY <2>4, <2>5
  <2>7. Cardinality(half \cap (Yes \cup Missing)) = Cardinality(a) + Cardinality(b)
    BY <2>5, <2>6, Zenon
  <2> QED
    BY <2>3, <2>7
<1>5. \A k \in Nat : k >= Majority(n) <=> 2 * k > n
  <2> HIDE DEF n
  <2> QED
    BY <1>3 DEF Majority
<1>6. Cardinality(y) + Cardinality(m) \in Nat
  BY <1>3
<1> QED
  BY <1>3, <1>4, <1>5, <1>6 DEF VoteResult

\* Both halves have to be won, and one that is lost is enough to lose.
LEMMA VoteCounted ==
    ASSUME TypeOK
    PROVE  VoteStandsAsCast
<1>1. /\ incoming \in SUBSET Ids /\ incoming # {} /\ outgoing \in SUBSET Ids
  BY DEF TypeOK
<1> DEFINE won(half) == 2 * Cardinality(half \cap Yes) > Cardinality(half)
           can(half) == 2 * Cardinality(half \cap (Yes \cup Missing)) > Cardinality(half)
<1>2. ASSUME NEW half \in SUBSET Ids, won(half) PROVE can(half)
  <2>1. IsFiniteSet(half)
    BY TrackerAssumption, FS_Subset
  <2>2. PICK a, b : a = half \cap Yes /\ b = half \cap (Yes \cup Missing)
    OBVIOUS
  <2>3. IsFiniteSet(b) /\ a \in SUBSET b
    BY <2>1, <2>2, FS_Intersection
  <2>4. /\ IsFiniteSet(a) /\ Cardinality(a) <= Cardinality(b)
        /\ Cardinality(a) \in Nat /\ Cardinality(b) \in Nat /\ Cardinality(half) \in Nat
    BY <2>1, <2>3, FS_Subset, FS_CardinalityType
  <2>5. 2 * Cardinality(a) > Cardinality(half)
    BY <1>2, <2>2
  <2>6. 2 * Cardinality(b) > Cardinality(half)
    BY <2>4, <2>5
  <2> QED
    BY <2>2, <2>6
<1>3. /\ VoteResult(incoming, Yes, Missing) =
           IF won(incoming) THEN "won" ELSE IF can(incoming) THEN "pending" ELSE "lost"
      /\ VoteResult(outgoing, Yes, Missing) =
           IF outgoing = {} \/ won(outgoing) THEN "won"
           ELSE IF can(outgoing) THEN "pending" ELSE "lost"
  BY <1>1, HalfVoted
<1>4. /\ Elects(Yes) <=> won(incoming) /\ (outgoing = {} \/ won(outgoing))
      /\ Elects(Yes \cup Missing) <=> can(incoming) /\ (outgoing = {} \/ can(outgoing))
  BY <1>1 DEF Elects, Halves
<1>5. (won(incoming) => can(incoming)) /\ (won(outgoing) => can(outgoing))
  BY <1>1, <1>2
<1> HIDE DEF won, can
<1> QED
  BY <1>3, <1>4, <1>5 DEF VoteStandsAsCast, Result, JointVoteResult, BothHalves

-----------------------------------------------------------------------------
\* The specification

\* The types hold of every configuration to begin with.
LEMMA InitTypes == Init => TypeOK
<1>1. [id \in Ids |-> 0] \in [Ids -> 0..MaxMatched]
  BY TrackerAssumption
<1> QED
  BY <1>1 DEF Init, TypeOK, NoVotes

\* Every operation keeps the types.
LEMMA NextTypes == TypeOK /\ [Next]_vars => TypeOK'
<1>1. SUFFICES ASSUME TypeOK, [Next]_vars PROVE TypeOK'
  OBVIOUS
<1>2. ASSUME NEW id \in Ids, NEW n \in 1..MaxMatched, MaybeUpdate(id, n) PROVE TypeOK'
  BY <1>1, <1>2 DEF TypeOK, MaybeUpdate
<1>3. ASSUME NEW id \in Ids, NEW g \in Groups, AssignCommitGroup(id, g) PROVE TypeOK'
  BY <1>1, <1>3 DEF TypeOK, AssignCommitGroup
<1>4. ASSUME NEW id \in Ids, NEW v \in {"yes", "no"}, RecordVote(id, v) PROVE TypeOK'
  BY <1>1, <1>4 DEF TypeOK, RecordVote, RecordedVote
<1>5. CASE ClearCommitGroup
  BY <1>1, <1>5 DEF TypeOK, ClearCommitGroup
<1>6. ASSUME NEW enable \in BOOLEAN, EnableGroupCommit(enable) PROVE TypeOK'
  BY <1>1, <1>6 DEF TypeOK, EnableGroupCommit
<1>7. CASE BecomeLeader \/ BecomeCandidate
  <2>1. electing' \in BOOLEAN /\ Reset
    BY <1>7 DEF BecomeLeader, BecomeCandidate
  <2>2. [id \in Ids |-> 0] \in [Ids -> 0..MaxMatched]
    BY TrackerAssumption
  <2> QED
    BY <1>1, <2>1, <2>2 DEF TypeOK, Reset, NoVotes
<1>8. CASE UNCHANGED vars
  BY <1>1, <1>8 DEF TypeOK, vars
<1> QED
  BY <1>1, <1>2, <1>3, <1>4, <1>5, <1>6, <1>7, <1>8 DEF Next

\* Every variable of the tracker keeps its type.
THEOREM TrackerTypes == Spec => []TypeOK
BY InitTypes, NextTypes, PTL DEF Spec

\* What a leader commits, with and without group commit, is what the definition of its
\* quorum says: for any number of peers, single and joint configurations.
THEOREM CommittedIsReplicatedHolds == Spec => []CommittedIsReplicated
<1>1. TypeOK => CommittedIsReplicated
  BY MostAcked, GroupsSpanned DEF CommittedIsReplicated
<1> QED
  BY <1>1, TrackerTypes, PTL

\* The result of a vote is what the first votes of the peers make it.
THEOREM VoteStandsAsCastHolds == Spec => []VoteStandsAsCast
<1>1. TypeOK => VoteStandsAsCast
  BY VoteCounted
<1> QED
  BY <1>1, TrackerTypes, PTL

\* A vote that is recorded leaves a decided result as it is: who said yes stays, and
\* nobody who said no can say yes later.
LEMMA VoteAfterDecision ==
    ASSUME TypeOK, NEW id \in Ids, NEW v \in {"yes", "no"}, RecordVote(id, v),
           Result # "pending"
    PROVE  Result' = Result
<1>1. /\ TypeOK'
      /\ incoming' = incoming /\ outgoing' = outgoing
  <2>1. Next
    BY DEF Next
  <2> QED
    BY <2>1, NextTypes DEF RecordVote
<1>2. Halves' = Halves /\ \A half \in Halves : half \in SUBSET Ids
  BY <1>1 DEF Halves, TypeOK
<1>3. VoteStandsAsCast /\ VoteStandsAsCast'
  <2>1. VoteStandsAsCast
    BY VoteCounted
  <2>2. TypeOK' => VoteStandsAsCast'
    BY VoteCounted, PTL
  <2> QED
    BY <1>1, <2>1, <2>2
<1>4. Yes \subseteq Yes' /\ (Yes \cup Missing)' \subseteq Yes \cup Missing
  BY DEF Yes, Missing, RecordVote, RecordedVote, TypeOK
<1>5. ASSUME NEW half \in SUBSET Ids, NEW S, NEW T, S \subseteq T,
             2 * Cardinality(half \cap S) > Cardinality(half)
      PROVE  2 * Cardinality(half \cap T) > Cardinality(half)
  <2>1. IsFiniteSet(half)
    BY TrackerAssumption, FS_Subset
  <2>2. PICK a, b : a = half \cap S /\ b = half \cap T
    OBVIOUS
  <2>3. IsFiniteSet(b) /\ a \in SUBSET b
    BY <1>5, <2>1, <2>2, FS_Intersection
  <2>4. /\ IsFiniteSet(a) /\ Cardinality(a) <= Cardinality(b)
        /\ Cardinality(a) \in Nat /\ Cardinality(b) \in Nat /\ Cardinality(half) \in Nat
    BY <2>1, <2>3, FS_Subset, FS_CardinalityType
  <2>5. 2 * Cardinality(a) > Cardinality(half)
    BY <1>5, <2>2
  <2>6. 2 * Cardinality(b) > Cardinality(half)
    BY <2>4, <2>5
  <2> QED
    BY <2>2, <2>6
<1>6. Elects(Yes) => Elects(Yes)'
  BY <1>2, <1>4, <1>5 DEF Elects
<1>7. Elects(Yes \cup Missing)' => Elects(Yes \cup Missing)
  BY <1>2, <1>4, <1>5 DEF Elects
<1>8. /\ Result = IF Elects(Yes) THEN "won"
                  ELSE IF Elects(Yes \cup Missing) THEN "pending" ELSE "lost"
      /\ Result' = IF Elects(Yes)' THEN "won"
                   ELSE IF Elects(Yes \cup Missing)' THEN "pending" ELSE "lost"
  BY <1>3 DEF VoteStandsAsCast
<1>9. Elects(Yes)' => Elects(Yes \cup Missing)'
  <2>1. Yes' \subseteq (Yes \cup Missing)'
    OBVIOUS
  <2> QED
    BY <1>2, <1>5, <2>1 DEF Elects
<1> QED
  BY <1>6, <1>7, <1>8, <1>9

\* A decision stands until the votes are forgotten.
THEOREM DecidedStays == Spec => DecidedStaysDecided
<1>1. TypeOK /\ [Next]_vars =>
        [Result # "pending" /\ votes' # NoVotes => Result' = Result]_vars
  <2>1. SUFFICES ASSUME TypeOK, Next, Result # "pending", votes' # NoVotes
                 PROVE  Result' = Result
    BY DEF vars
  <2>2. ASSUME NEW id \in Ids, NEW v \in {"yes", "no"}, RecordVote(id, v)
        PROVE  Result' = Result
    BY <2>1, <2>2, VoteAfterDecision
  <2>3. CASE UNCHANGED <<incoming, outgoing, votes>>
    BY <2>3 DEF Result, Yes, Missing
  <2>4. CASE BecomeLeader \/ BecomeCandidate
    BY <2>1, <2>4 DEF BecomeLeader, BecomeCandidate, Reset
  <2> QED
    BY <2>1, <2>2, <2>3, <2>4 DEF Next, MaybeUpdate, AssignCommitGroup, ClearCommitGroup,
                                  EnableGroupCommit
<1> QED
  BY <1>1, TrackerTypes, PTL DEF Spec, DecidedStaysDecided
=============================================================================
