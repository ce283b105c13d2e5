--------------------------- MODULE FollowerProofs ---------------------------
(***************************************************************************)
(* Proofs about FollowerLog: IInv of module FollowerInv is inductive, and  *)
(* what follows from it, for logs, terms and records of any number, when   *)
(* the application stores the snapshot of a Ready.                         *)
(***************************************************************************)
EXTENDS FollowerInv, SequenceTheorems, WellFoundedInduction, TLAPS

\* The greater of two numbers.
LEMMA MaxOfTwo ==
    ASSUME NEW a \in Nat, NEW b \in Nat
    PROVE  /\ Max({a, b}) \in Nat
           /\ a <= Max({a, b}) /\ b <= Max({a, b})
           /\ Max({a, b}) = a \/ Max({a, b}) = b
<1>1. \E x \in {a, b} : \A y \in {a, b} : x >= y
  <2>1. a >= b \/ b >= a
    OBVIOUS
  <2> QED
    BY <2>1
<1>2. Max({a, b}) \in {a, b} /\ \A y \in {a, b} : Max({a, b}) >= y
  BY <1>1 DEF Max
<1> QED
  BY <1>2

\* A set of numbers up to n has a greatest one.
LEMMA MaxOfSet ==
    ASSUME NEW n \in Nat, NEW S \in SUBSET (0..n), S # {}
    PROVE  Max(S) \in S /\ \A k \in S : k <= Max(S)
<1> DEFINE T == {i \in Nat : n - i \in S}
<1>1. T # {}
  <2>1. PICK k \in S : TRUE
    OBVIOUS
  <2>2. n - k \in Nat /\ n - (n - k) = k
    OBVIOUS
  <2> QED
    BY <2>1, <2>2
<1>2. \E x \in T : \A y \in T : ~ (<<y, x>> \in OpToRel(<, Nat))
  <2>1. T \subseteq Nat
    OBVIOUS
  <2> HIDE DEF T
  <2> QED
    BY <1>1, <2>1, NatLessThanWellFounded, WFMin
<1>3. PICK x \in T : \A y \in T : ~ (<<y, x>> \in OpToRel(<, Nat))
  BY <1>2
<1>4. ASSUME NEW k \in S
      PROVE  n - x >= k
  <2>1. k \in Nat /\ n - k \in Nat /\ n - (n - k) = k /\ x \in Nat
    OBVIOUS
  <2>2. n - k \in T
    BY <2>1
  <2>3. ~ (n - k < x)
    <3>1. ~ (<<n - k, x>> \in OpToRel(<, Nat))
      BY <1>3, <2>2
    <3> QED
      BY <2>1, <3>1 DEF OpToRel
  <2> QED
    BY <2>1, <2>3
<1>5. n - x \in S
  OBVIOUS
<1>6. \E m \in S : \A k \in S : m >= k
  BY <1>4, <1>5
<1>7. Max(S) \in S /\ \A k \in S : Max(S) >= k
  BY <1>6 DEF Max
<1> QED
  BY <1>7

\* An empty segment is a segment.
LEMMA EmptyAtType ==
    ASSUME NEW i \in Nat \ {0}
    PROVE  /\ IsSegment(EmptyAt(i)) /\ IsEmpty(EmptyAt(i))
           /\ EmptyAt(i).lo = i /\ EmptyAt(i).hi = i - 1
<1>1. EmptyAt(i).lo = i /\ EmptyAt(i).hi = i - 1
  BY DEF EmptyAt
<1>2. EmptyAt(i).ent \in [i..(i-1) -> Entry]
  <2>1. i..(i-1) = {}
    OBVIOUS
  <2> QED
    BY <2>1 DEF EmptyAt
<1>3. IsSegment(EmptyAt(i))
  BY <1>1, <1>2 DEF EmptyAt, IsSegment
<1> QED
  BY <1>1, <1>3 DEF IsEmpty

\* Splice keeps what is below t and then holds t.
LEMMA SpliceType ==
    ASSUME NEW s, NEW t, IsSegment(s), IsSegment(t),
           s.lo <= t.lo, t.lo <= s.hi + 1
    PROVE  /\ IsSegment(Splice(s, t))
           /\ Splice(s, t).lo = s.lo /\ Splice(s, t).hi = t.hi
           /\ \A i \in s.lo..(t.lo - 1) : Splice(s, t).ent[i] = s.ent[i]
           /\ \A i \in t.lo..t.hi : Splice(s, t).ent[i] = t.ent[i]
BY DEF Splice, IsSegment

-----------------------------------------------------------------------------
\* What the follower sees of its log

\* The places of storage, snapshot and unstable entries: these end where the log ends.
LEMMA Places ==
    ASSUME NodeTypes, LogShape
    PROVE  /\ store.log.lo \in Nat \ {0} /\ store.log.hi \in Nat
           /\ unstable.lo \in Nat \ {0} /\ unstable.hi \in Nat
           /\ snap.index \in Nat /\ store.meta.index \in Nat
           /\ FirstIndex \in Nat \ {0} /\ LastIdx \in Nat
           /\ unstable.hi = LastIdx
           /\ FirstIndex <= unstable.lo /\ unstable.lo <= LastIdx + 1
           /\ FirstIndex - 1 = IF snap # NoSnap THEN snap.index ELSE store.meta.index
<1>1. /\ store.log.lo \in Nat \ {0} /\ store.log.hi \in Nat
      /\ unstable.lo \in Nat \ {0} /\ unstable.hi \in Nat
      /\ unstable.lo <= unstable.hi + 1
      /\ snap.index \in Nat /\ store.meta.index \in Nat
  BY DEF NodeTypes, IsSegment
<1>2. CASE snap # NoSnap
  BY <1>1, <1>2 DEF LogShape, FirstIndex, LastIdx, IsEmpty
<1>3. CASE snap = NoSnap
  BY <1>1, <1>3 DEF LogShape, FirstIndex, LastIdx, IsEmpty
<1> QED
  BY <1>1, <1>2, <1>3

\* The term of every index.
LEMMA TermView ==
    ASSUME NodeTypes, LogShape, NEW i \in Nat
    PROVE  /\ TermAt(i) \in Nat
           /\ i < FirstIndex - 1 \/ i > LastIdx => TermAt(i) = 0
           /\ i = FirstIndex - 1 =>
                 TermAt(i) = IF snap # NoSnap THEN snap.term ELSE store.meta.term
           /\ i \in FirstIndex..LastIdx /\ i < unstable.lo =>
                 /\ snap = NoSnap /\ Has(store.log, i)
                 /\ TermAt(i) = store.log.ent[i].term
           /\ i \in FirstIndex..LastIdx /\ i >= unstable.lo =>
                 Has(unstable, i) /\ TermAt(i) = unstable.ent[i].term
<1>1. /\ store.log.lo \in Nat \ {0} /\ store.log.hi \in Nat
      /\ unstable.lo \in Nat \ {0} /\ unstable.hi \in Nat
      /\ snap.index \in Nat /\ store.meta.index \in Nat
      /\ FirstIndex \in Nat \ {0} /\ LastIdx \in Nat
      /\ unstable.hi = LastIdx
      /\ FirstIndex <= unstable.lo /\ unstable.lo <= LastIdx + 1
      /\ FirstIndex - 1 = IF snap # NoSnap THEN snap.index ELSE store.meta.index
  BY Places
<1>2. /\ snap.term \in Nat /\ store.meta.term \in Nat
      /\ store.log.ent \in [store.log.lo..store.log.hi -> Entry]
      /\ unstable.ent \in [unstable.lo..unstable.hi -> Entry]
  BY DEF NodeTypes, IsSegment
<1>3. CASE i < FirstIndex - 1 \/ i > LastIdx
  BY <1>1, <1>3 DEF TermAt
<1>4. CASE i = FirstIndex - 1
  <2>1. ~Has(unstable, i)
    BY <1>1, <1>4 DEF Has
  <2> QED
    BY <1>1, <1>2, <1>4, <2>1 DEF TermAt, StoreTerm
<1>5. CASE i \in FirstIndex..LastIdx /\ i < unstable.lo
  <2>1. ~Has(unstable, i) /\ snap = NoSnap
    BY <1>1, <1>5 DEF Has, LogShape
  <2>2. Has(store.log, i) /\ i # store.meta.index
    BY <1>1, <1>5, <2>1 DEF Has, LogShape
  <2>3. TermAt(i) = store.log.ent[i].term
    BY <1>1, <1>5, <2>1, <2>2 DEF TermAt, StoreTerm
  <2>4. store.log.ent[i] \in Entry
    BY <1>1, <1>2, <2>2 DEF Has
  <2> QED
    BY <1>1, <1>5, <2>1, <2>2, <2>3, <2>4 DEF Entry
<1>6. CASE i \in FirstIndex..LastIdx /\ i >= unstable.lo
  <2>1. Has(unstable, i)
    BY <1>1, <1>6 DEF Has
  <2>2. TermAt(i) = unstable.ent[i].term
    BY <1>1, <1>6, <2>1 DEF TermAt
  <2>3. unstable.ent[i] \in Entry
    BY <1>1, <1>2, <2>1 DEF Has
  <2> QED
    BY <1>1, <1>6, <2>1, <2>2, <2>3 DEF Entry
<1> QED
  BY <1>1, <1>3, <1>4, <1>5, <1>6

-----------------------------------------------------------------------------
\* The group

\* Every log there is goes on in a log there will be.
LogsGrow ==
    \A log \in Logs : \E new \in Logs' :
        Len(log) <= Len(new) /\ \A i \in 1..Len(log) : new[i] = log[i]

\* A leader that appends an entry.
LEMMA LeaderAppendGroup ==
    ASSUME GroupInv, LeaderAppend
    PROVE  /\ GroupInv' /\ LogsGrow
           /\ Len(leader_log') = Len(leader_log) + 1
           /\ \A i \in 1..Len(leader_log) : leader_log'[i] = leader_log[i]
<1>1. /\ leader_log \in Seq(Nat) /\ past \subseteq Seq(Nat) /\ term \in Nat \ {0}
      /\ leader_commit \in 0..Len(leader_log) /\ Len(leader_log) \in Nat
  BY DEF GroupInv, GroupTypes
<1>2. leader_log' = Append(leader_log, term) /\ UNCHANGED <<term, leader_commit, past>>
  BY DEF LeaderAppend
<1>3. /\ leader_log' \in Seq(Nat) /\ Len(leader_log') = Len(leader_log) + 1
      /\ \A i \in 1..Len(leader_log) : leader_log'[i] = leader_log[i]
      /\ leader_log'[Len(leader_log) + 1] = term
  BY <1>1, <1>2
<1>4. GroupTypes'
  BY <1>1, <1>2, <1>3 DEF GroupTypes
<1>5. /\ \A log \in Logs : \A i \in 1..Len(log) : log[i] \in 1..term
      /\ \A log \in past : \A i \in 1..Len(log) : log[i] < term
      /\ \A log \in Logs : \A i, j \in 1..Len(log) : i <= j => log[i] <= log[j]
  BY DEF GroupInv, TermsOrdered
<1>6. \A i \in 1..Len(leader_log') :
         leader_log'[i] = (IF i <= Len(leader_log) THEN leader_log[i] ELSE term)
  BY <1>1, <1>3
<1>7. TermsOrdered'
  <2>1. \A i \in 1..Len(leader_log') : leader_log'[i] \in 1..term
    BY <1>1, <1>3, <1>5, <1>6 DEF Logs
  <2>2. \A i, j \in 1..Len(leader_log') : i <= j => leader_log'[i] <= leader_log'[j]
    BY <1>1, <1>3, <1>5, <1>6 DEF Logs
  <2> QED
    BY <1>2, <1>5, <2>1, <2>2 DEF TermsOrdered, Logs
<1>8. LogsMatch'
  <2>0. \A a, b \in Logs : \A i \in 1..Len(a) :
           i <= Len(b) /\ a[i] = b[i] => \A j \in 1..i : a[j] = b[j]
    BY DEF GroupInv, LogsMatch
  <2>1. \A b \in past : \A i \in 1..Len(leader_log') :
           i <= Len(b) /\ leader_log'[i] = b[i] =>
              i <= Len(leader_log) /\ \A j \in 1..i : leader_log'[j] = b[j]
    <3> TAKE b \in past
    <3> TAKE i \in 1..Len(leader_log')
    <3> SUFFICES ASSUME i <= Len(b), leader_log'[i] = b[i]
                 PROVE  i <= Len(leader_log) /\ \A j \in 1..i : leader_log'[j] = b[j]
      OBVIOUS
    <3>1. b \in Seq(Nat) /\ Len(b) \in Nat /\ i \in 1..Len(b) /\ b[i] \in Nat
      BY <1>1, <1>3
    <3>2. b[i] < term
      BY <1>5, <3>1
    <3>3. i <= Len(leader_log)
      BY <1>1, <1>3, <1>6, <3>1, <3>2
    <3>4. i \in 1..Len(leader_log) /\ leader_log[i] = b[i]
      BY <1>1, <1>3, <3>3, SMTT(20)
    <3>5. \A j \in 1..i : leader_log[j] = b[j]
      BY <2>0, <3>1, <3>4 DEF Logs
    <3> QED
      BY <1>1, <1>3, <3>3, <3>5
  <2>2. \A a \in past : \A i \in 1..Len(a) :
           i <= Len(leader_log') /\ a[i] = leader_log'[i] =>
              \A j \in 1..i : a[j] = leader_log'[j]
    <3> TAKE a \in past
    <3> TAKE i \in 1..Len(a)
    <3> SUFFICES ASSUME i <= Len(leader_log'), a[i] = leader_log'[i]
                 PROVE  \A j \in 1..i : a[j] = leader_log'[j]
      OBVIOUS
    <3>1. a \in Seq(Nat) /\ Len(a) \in Nat /\ i \in 1..Len(leader_log') /\ i <= Len(a)
      BY <1>1, <1>3
    <3> QED
      BY <2>1, <3>1
  <2>3. \A a, b \in past : \A i \in 1..Len(a) :
           i <= Len(b) /\ a[i] = b[i] => \A j \in 1..i : a[j] = b[j]
    BY <2>0 DEF Logs
  <2>4. Logs' = past \cup {leader_log'}
    BY <1>2 DEF Logs
  <2> QED
    BY <2>1, <2>2, <2>3, <2>4 DEF LogsMatch
<1>9. LogsGrow
  <2>1. ASSUME NEW log \in past
        PROVE  log \in Logs' /\ Len(log) <= Len(log)
    <3>1. Len(log) \in Nat
      BY <1>1
    <3> QED
      BY <1>2, <3>1 DEF Logs
  <2>2. leader_log' \in Logs' /\ Len(leader_log) <= Len(leader_log')
    BY <1>1, <1>3 DEF Logs
  <2> QED
    BY <1>3, <2>1, <2>2 DEF LogsGrow, Logs
<1> QED
  BY <1>3, <1>4, <1>7, <1>8, <1>9 DEF GroupInv

\* A new leader with a beginning of an earlier log that has all that is committed.
LEMMA NewLeaderGroup ==
    ASSUME GroupInv, NewLeader
    PROVE  /\ GroupInv' /\ LogsGrow
           /\ leader_commit <= Len(leader_log')
           /\ \A i \in 1..leader_commit : leader_log'[i] = leader_log[i]
<1>1. /\ leader_log \in Seq(Nat) /\ past \subseteq Seq(Nat) /\ term \in Nat \ {0}
      /\ leader_commit \in 0..Len(leader_log) /\ Len(leader_log) \in Nat
  BY DEF GroupInv, GroupTypes
<1>2. /\ term' = term + 1 /\ past' = Logs /\ leader_commit' = leader_commit
      /\ Logs \subseteq Seq(Nat)
  BY <1>1 DEF NewLeader, Logs
<1>3. PICK log \in Logs : \E n \in leader_commit..Len(log) :
         /\ SubSeq(log, 1, leader_commit) = SubSeq(leader_log, 1, leader_commit)
         /\ leader_log' = Append(SubSeq(log, 1, n), term')
  BY <1>2 DEF NewLeader
<1>15. PICK n \in leader_commit..Len(log) :
         /\ SubSeq(log, 1, leader_commit) = SubSeq(leader_log, 1, leader_commit)
         /\ leader_log' = Append(SubSeq(log, 1, n), term')
  BY <1>3
<1>4. log \in Seq(Nat) /\ Len(log) \in Nat /\ n \in Nat /\ n <= Len(log)
  BY <1>1, <1>2
<1>5. /\ SubSeq(log, 1, n) \in Seq(Nat) /\ Len(SubSeq(log, 1, n)) = n
      /\ \A i \in 1..n : SubSeq(log, 1, n)[i] = log[i]
  BY <1>4
<1>6. /\ leader_log' \in Seq(Nat) /\ Len(leader_log') = n + 1
      /\ \A i \in 1..n : leader_log'[i] = log[i]
      /\ leader_log'[n + 1] = term + 1
  BY <1>1, <1>2, <1>15, <1>4, <1>5
<1>7. \A i \in 1..(n + 1) : leader_log'[i] = IF i <= n THEN log[i] ELSE term + 1
  BY <1>4, <1>6
<1>8. GroupTypes'
  BY <1>1, <1>2, <1>4, <1>6 DEF GroupTypes
<1>9. /\ \A a \in Logs : \A i \in 1..Len(a) : a[i] \in 1..term
      /\ \A a \in Logs : \A i, j \in 1..Len(a) : i <= j => a[i] <= a[j]
  BY DEF GroupInv, TermsOrdered
<1>10. \A i \in 1..n : i \in 1..Len(log) /\ log[i] \in 1..term
  BY <1>4, <1>9
<1>11. TermsOrdered'
  <2>1. \A i \in 1..Len(leader_log') : leader_log'[i] \in 1..(term + 1)
    <3> TAKE i \in 1..Len(leader_log')
    <3>1. i \in 1..(n + 1)
      BY <1>6
    <3>2. CASE i <= n
      <4>1. i \in 1..n
        BY <1>4, <3>1, <3>2
      <4>2. leader_log'[i] \in 1..term
        BY <1>6, <1>10, <4>1
      <4> QED
        BY <1>1, <4>2
    <3>3. CASE i = n + 1
      BY <1>1, <1>6, <3>3
    <3> QED
      BY <1>4, <3>1, <3>2, <3>3
  <2>2. \A i, j \in 1..Len(leader_log') : i <= j => leader_log'[i] <= leader_log'[j]
    <3> TAKE i, j \in 1..Len(leader_log')
    <3> HAVE i <= j
    <3>1. i \in 1..(n + 1) /\ j \in 1..(n + 1)
      BY <1>6
    <3>2. CASE j <= n
      <4>1. i \in 1..Len(log) /\ j \in 1..Len(log)
        BY <1>4, <3>1, <3>2
      <4>2. log[i] <= log[j]
        BY <1>9, <4>1
      <4>3. i \in 1..n /\ j \in 1..n
        BY <1>4, <3>1, <3>2
      <4> QED
        BY <1>6, <4>2, <4>3
    <3>3. CASE j = n + 1
      <4>1. leader_log'[j] = term + 1
        BY <1>6, <3>3
      <4>2. leader_log'[i] = term + 1 \/ leader_log'[i] \in 1..term
        BY <1>4, <1>6, <1>10, <3>1, SMTT(20)
      <4> QED
        BY <1>1, <4>1, <4>2
    <3> QED
      BY <1>4, <3>1, <3>2, <3>3
  <2>3. \A a \in Logs : \A i \in 1..Len(a) : a[i] \in 1..(term + 1) /\ a[i] < term + 1
    BY <1>1, <1>9
  <2> QED
    BY <1>2, <1>9, <2>1, <2>2, <2>3 DEF TermsOrdered, Logs
<1>12. LogsMatch'
  <2>0. \A a, b \in Logs : \A i \in 1..Len(a) :
           i <= Len(b) /\ a[i] = b[i] => \A j \in 1..i : a[j] = b[j]
    BY DEF GroupInv, LogsMatch
  <2>1. \A b \in Logs : \A i \in 1..Len(leader_log') :
           i <= Len(b) /\ leader_log'[i] = b[i] => \A j \in 1..i : leader_log'[j] = b[j]
    <3> TAKE b \in Logs
    <3> TAKE i \in 1..Len(leader_log')
    <3> SUFFICES ASSUME i <= Len(b), leader_log'[i] = b[i]
                 PROVE  \A j \in 1..i : leader_log'[j] = b[j]
      OBVIOUS
    <3>1. b \in Seq(Nat) /\ Len(b) \in Nat /\ i \in 1..Len(b) /\ b[i] \in 1..term
      BY <1>2, <1>4, <1>6, <1>9
    <3>2. i <= n
      BY <1>1, <1>4, <1>6, <1>7, <3>1
    <3>3. i \in 1..Len(log) /\ log[i] = b[i]
      BY <1>4, <1>6, <3>2
    <3>4. \A j \in 1..i : log[j] = b[j]
      BY <2>0, <3>1, <3>3
    <3> QED
      BY <1>4, <1>6, <3>2, <3>4
  <2>2. \A a \in Logs : \A i \in 1..Len(a) :
           i <= Len(leader_log') /\ a[i] = leader_log'[i] =>
              \A j \in 1..i : a[j] = leader_log'[j]
    <3> TAKE a \in Logs
    <3> TAKE i \in 1..Len(a)
    <3> SUFFICES ASSUME i <= Len(leader_log'), a[i] = leader_log'[i]
                 PROVE  \A j \in 1..i : a[j] = leader_log'[j]
      OBVIOUS
    <3>1. a \in Seq(Nat) /\ Len(a) \in Nat /\ i \in 1..Len(leader_log') /\ i <= Len(a)
      BY <1>2, <1>4, <1>6
    <3> QED
      BY <2>1, <3>1
  <2>3. Logs' = Logs \cup {leader_log'}
    BY <1>2 DEF Logs
  <2> QED
    BY <2>0, <2>1, <2>2, <2>3 DEF LogsMatch
<1>13. LogsGrow
  <2>1. ASSUME NEW a \in Logs
        PROVE  a \in Logs' /\ Len(a) <= Len(a)
    <3>1. Len(a) \in Nat
      BY <1>2
    <3> QED
      BY <1>2, <3>1 DEF Logs
  <2> QED
    BY <2>1 DEF LogsGrow
<1>14. \A i \in 1..leader_commit : leader_log'[i] = leader_log[i]
  <2>1. \A i \in 1..leader_commit :
           SubSeq(log, 1, leader_commit)[i] = log[i]
           /\ SubSeq(leader_log, 1, leader_commit)[i] = leader_log[i]
    BY <1>1, <1>15, <1>4
  <2> QED
    BY <1>1, <1>15, <1>4, <1>6, <2>1
<1> QED
  BY <1>1, <1>4, <1>6, <1>8, <1>11, <1>12, <1>13, <1>14 DEF GroupInv

-----------------------------------------------------------------------------
\* What a step makes of the log of the follower

\* Places and TermView in one formula, to have it after a step too.
Viewed ==
    /\ /\ FirstIndex \in Nat \ {0} /\ LastIdx \in Nat
       /\ unstable.lo \in Nat \ {0} /\ unstable.hi = LastIdx
       /\ FirstIndex <= unstable.lo /\ unstable.lo <= LastIdx + 1
       /\ FirstIndex - 1 = IF snap # NoSnap THEN snap.index ELSE store.meta.index
    /\ \A i \in Nat :
          /\ TermAt(i) \in Nat
          /\ i < FirstIndex - 1 \/ i > LastIdx => TermAt(i) = 0
          /\ i = FirstIndex - 1 =>
                TermAt(i) = IF snap # NoSnap THEN snap.term ELSE store.meta.term
          /\ i \in FirstIndex..LastIdx /\ i < unstable.lo =>
                /\ snap = NoSnap /\ Has(store.log, i)
                /\ TermAt(i) = store.log.ent[i].term
          /\ i \in FirstIndex..LastIdx /\ i >= unstable.lo =>
                Has(unstable, i) /\ TermAt(i) = unstable.ent[i].term

\* It holds for every log that is well formed.
LEMMA View == NodeTypes /\ LogShape => Viewed
<1> SUFFICES ASSUME NodeTypes, LogShape
             PROVE  Viewed
  OBVIOUS
<1> QED
  BY Places, TermView DEF Viewed

\* So it does after a step.
LEMMA ViewNext == (NodeTypes /\ LogShape)' => Viewed'
BY View, PTL

\* The log of the follower is as it was.
Kept ==
    /\ FirstIndex' = FirstIndex /\ LastIdx' = LastIdx
    /\ \A i \in (FirstIndex - 1)..LastIdx : TermAt(i)' = TermAt(i)

\* That is so when none of its parts changes.
LEMMA KeptView ==
    ASSUME UNCHANGED <<store, unstable, snap>>
    PROVE  Kept
BY DEF Kept, FirstIndex, LastIdx, TermAt, StoreTerm

\* Where the follower has the term of the leader's entry, the logs agree up to there.
LEMMA AgreeUpTo ==
    ASSUME GroupInv, NodeTypes, LogShape, MirrorsOne,
           NEW i \in (FirstIndex - 1)..LastIdx, i <= Len(leader_log),
           TermAt(i) = LeaderTerm(i)
    PROVE  \A j \in (FirstIndex - 1)..i : TermAt(j) = LeaderTerm(j)
<1>1. PICK log \in Logs : Mirrors(log)
  BY DEF MirrorsOne
<1>2. /\ FirstIndex \in Nat \ {0} /\ LastIdx \in Nat /\ i \in Nat /\ i <= LastIdx
      /\ LastIdx <= Len(log)
      /\ \A j \in (FirstIndex - 1)..LastIdx : TermAt(j) = TermIn(log, j)
      /\ log \in Seq(Nat) /\ leader_log \in Seq(Nat)
      /\ Len(log) \in Nat /\ Len(leader_log) \in Nat
  BY <1>1, Places DEF Mirrors, GroupInv, GroupTypes, Logs
<1>3. CASE i = 0
  BY <1>2, <1>3 DEF LeaderTerm
<1>4. CASE i > 0
  <2>1. TermAt(i) = log[i] /\ LeaderTerm(i) = leader_log[i]
    BY <1>2, <1>4 DEF TermIn, LeaderTerm
  <2>2. i \in 1..Len(log) /\ i <= Len(leader_log)
    BY <1>2, <1>4
  <2>3. \A j \in 1..i : log[j] = leader_log[j]
    BY <2>1, <2>2 DEF GroupInv, LogsMatch, Logs
  <2>4. ASSUME NEW j \in (FirstIndex - 1)..i
        PROVE  TermAt(j) = LeaderTerm(j)
    <3>1. j \in Nat /\ j <= i /\ j \in (FirstIndex - 1)..LastIdx
      BY <1>2
    <3>2. TermAt(j) = TermIn(log, j)
      BY <1>2, <3>1
    <3> QED
      BY <2>3, <3>1, <3>2 DEF TermIn, LeaderTerm
  <2> QED
    BY <2>4
<1> QED
  BY <1>2, <1>3, <1>4

\* A message that matches at or above the commit index matches within the log.
LEMMA MatchInLog ==
    ASSUME GroupInv, NodeTypes, LogShape, Watermarks,
           NEW i \in 0..Len(leader_log), i >= committed,
           TermAt(i) = LeaderTerm(i)
    PROVE  i \in (FirstIndex - 1)..LastIdx
<1>1. /\ FirstIndex \in Nat \ {0} /\ LastIdx \in Nat /\ i \in Nat
      /\ FirstIndex <= LastIdx + 1
      /\ FirstIndex - 1 = IF snap # NoSnap THEN snap.index ELSE store.meta.index
      /\ i < FirstIndex - 1 \/ i > LastIdx => TermAt(i) = 0
  <2>1. Viewed /\ i \in Nat
    BY View DEF GroupInv, GroupTypes
  <2>2. /\ FirstIndex \in Nat \ {0} /\ LastIdx \in Nat
        /\ unstable.lo \in Nat \ {0}
        /\ FirstIndex <= unstable.lo /\ unstable.lo <= LastIdx + 1
        /\ FirstIndex - 1 = IF snap # NoSnap THEN snap.index ELSE store.meta.index
    BY <2>1 DEF Viewed
  <2>3. i < FirstIndex - 1 \/ i > LastIdx => TermAt(i) = 0
    BY <2>1 DEF Viewed
  <2>4. FirstIndex <= LastIdx + 1
    BY <2>2
  <2> QED
    BY <2>1, <2>2, <2>3, <2>4
<1>2. FirstIndex - 1 <= i
  BY <1>1 DEF Watermarks, NodeTypes
<1>3. CASE i = 0
  BY <1>1, <1>2, <1>3
<1>4. CASE i > 0
  <2>1. LeaderTerm(i) = leader_log[i] /\ i \in 1..Len(leader_log)
    BY <1>1, <1>4 DEF LeaderTerm
  <2>2. leader_log[i] \in 1..term
    BY <2>1 DEF GroupInv, TermsOrdered, Logs
  <2>3. term \in Nat
    BY DEF GroupInv, GroupTypes
  <2> QED
    BY <1>1, <1>2, <2>1, <2>2, <2>3
<1> QED
  BY <1>1, <1>3, <1>4

\* The entries of an append message.
LEMMA LeaderEntriesType ==
    ASSUME GroupInv, NEW idx \in Nat, NEW n \in Nat \ {0}, idx + n <= Len(leader_log)
    PROVE  /\ IsSegment(LeaderEntries(idx, n)) /\ ~IsEmpty(LeaderEntries(idx, n))
           /\ LeaderEntries(idx, n).lo = idx + 1 /\ LeaderEntries(idx, n).hi = idx + n
           /\ \A i \in (idx + 1)..(idx + n) :
                 LeaderEntries(idx, n).ent[i].term = leader_log[i]
<1> DEFINE E == LeaderEntries(idx, n)
<1>1. E.lo = idx + 1 /\ E.hi = idx + n /\ E = [lo |-> E.lo, hi |-> E.hi, ent |-> E.ent]
  BY DEF LeaderEntries
<1>2. leader_log \in Seq(Nat) /\ Len(leader_log) \in Nat
  BY DEF GroupInv, GroupTypes
<1>3. E.ent = [i \in (idx + 1)..(idx + n) |->
                 [term |-> leader_log[i], type |-> "normal", size |-> 0]]
  BY DEF LeaderEntries
<1>4. \A i \in (idx + 1)..(idx + n) : leader_log[i] \in Nat
  <2> TAKE i \in (idx + 1)..(idx + n)
  <2>1. i \in 1..Len(leader_log)
    BY <1>2
  <2> QED
    BY <1>2, <2>1
<1>5. E.ent \in [(idx + 1)..(idx + n) -> Entry]
  BY <1>3, <1>4 DEF Entry
<1> HIDE DEF E
<1>6. IsSegment(E) /\ ~IsEmpty(E)
  BY <1>1, <1>5 DEF IsSegment, IsEmpty
<1>7. \A i \in (idx + 1)..(idx + n) : E.ent[i].term = leader_log[i]
  BY <1>3
<1> QED
  BY <1>1, <1>6, <1>7 DEF E

\* The log after an append with entries: up to idx as it was, then the leader's.
LEMMA AppendView ==
    ASSUME GroupInv, NodeTypes, LogShape,
           NEW idx \in (FirstIndex - 1)..LastIdx, NEW n \in Nat \ {0},
           idx + n <= Len(leader_log),
           unstable' = TruncateAndAppend(unstable, LeaderEntries(idx, n)),
           UNCHANGED <<store, snap>>
    PROVE  /\ IsSegment(unstable') /\ LogShape'
           /\ unstable'.lo = idx + 1 \/ unstable'.lo = unstable.lo
           /\ FirstIndex' = FirstIndex /\ LastIdx' = idx + n
           /\ \A i \in (FirstIndex - 1)..idx : TermAt(i)' = TermAt(i)
           /\ \A i \in (idx + 1)..(idx + n) : TermAt(i)' = leader_log[i]
<1>1. Viewed
  BY View
<1>2. /\ FirstIndex \in Nat \ {0} /\ LastIdx \in Nat /\ idx \in Nat
      /\ unstable.lo \in Nat \ {0} /\ unstable.hi = LastIdx
      /\ FirstIndex <= unstable.lo /\ unstable.lo <= LastIdx + 1
  BY <1>1 DEF Viewed
<1> DEFINE E == LeaderEntries(idx, n)
<1>3. /\ IsSegment(E) /\ ~IsEmpty(E) /\ E.lo = idx + 1 /\ E.hi = idx + n
      /\ \A i \in (idx + 1)..(idx + n) : E.ent[i].term = leader_log[i]
  BY <1>2, LeaderEntriesType
<1>4. unstable' = TruncateAndAppend(unstable, E)
  OBVIOUS
<1> HIDE DEF E
<1>5. /\ IsSegment(unstable')
      /\ unstable'.lo = IF idx + 1 <= unstable.lo THEN idx + 1 ELSE unstable.lo
      /\ unstable'.hi = idx + n
      /\ \A i \in (idx + 1)..(idx + n) : unstable'.ent[i].term = leader_log[i]
      /\ \A i \in unstable.lo..idx : unstable'.ent[i] = unstable.ent[i]
  <2>1. CASE idx + 1 <= unstable.lo
    <3>1. unstable' = E
      BY <1>3, <1>4, <2>1 DEF TruncateAndAppend
    <3> QED
      BY <1>2, <1>3, <2>1, <3>1
  <2>2. CASE idx + 1 > unstable.lo
    <3>1. unstable' = Splice(unstable, E)
      BY <1>2, <1>3, <1>4, <2>2 DEF TruncateAndAppend
    <3>2. IsSegment(unstable)
      BY DEF NodeTypes
    <3>3. /\ IsSegment(unstable')
          /\ unstable'.lo = unstable.lo /\ unstable'.hi = E.hi
          /\ \A i \in unstable.lo..(E.lo - 1) : unstable'.ent[i] = unstable.ent[i]
          /\ \A i \in E.lo..E.hi : unstable'.ent[i] = E.ent[i]
      BY <1>2, <1>3, <2>2, <3>1, <3>2, SpliceType, SMTT(20)
    <3> QED
      BY <1>2, <1>3, <2>2, <3>3
  <2> QED
    BY <1>2, <2>1, <2>2
<1>6. ~IsEmpty(unstable')
  BY <1>2, <1>5 DEF IsEmpty
<1>7. FirstIndex' = FirstIndex /\ LastIdx' = idx + n
  BY <1>5, <1>6 DEF FirstIndex, LastIdx
<1>8. LogShape'
  <2>1. CASE snap # NoSnap
    BY <1>2, <1>5, <1>6, <2>1 DEF LogShape, FirstIndex
  <2>2. CASE snap = NoSnap
    <3>1. store.log.lo \in Nat /\ store.log.hi \in Nat /\ FirstIndex = store.log.lo
      BY <2>2 DEF NodeTypes, IsSegment, FirstIndex
    <3>2. /\ store.log.lo = store.meta.index + 1 /\ store.log.lo <= unstable.lo
          /\ unstable.lo <= store.log.hi + 1
      BY <2>2 DEF LogShape
    <3>3. /\ unstable'.lo = IF idx + 1 <= unstable.lo THEN idx + 1 ELSE unstable.lo
          /\ idx \in Nat /\ unstable.lo \in Nat
      BY <1>2, <1>5
    <3>4. store.log.lo <= idx + 1
      <4>1. FirstIndex - 1 <= idx
        BY <1>2
      <4> QED
        BY <1>2, <3>1, <4>1
    <3>5. store.log.lo <= unstable'.lo /\ unstable'.lo <= store.log.hi + 1
      <4>1. CASE idx + 1 <= unstable.lo
        BY <3>1, <3>2, <3>3, <3>4, <4>1
      <4>2. CASE ~ (idx + 1 <= unstable.lo)
        BY <3>1, <3>2, <3>3, <4>2
      <4> QED
        BY <4>1, <4>2
    <3> QED
      BY <1>6, <2>2, <3>2, <3>5 DEF LogShape
  <2> QED
    BY <2>1, <2>2
<1>9. ASSUME NEW i \in (FirstIndex - 1)..idx
      PROVE  TermAt(i)' = TermAt(i)
  <2>1. i \in Nat /\ i <= idx /\ i <= LastIdx /\ i <= idx + n /\ i >= FirstIndex - 1
    BY <1>2
  <2>2. CASE i >= unstable.lo
    <3>1. Has(unstable, i) /\ Has(unstable, i)' /\ unstable'.ent[i] = unstable.ent[i]
      BY <1>2, <1>5, <2>1, <2>2 DEF Has
    <3> QED
      BY <1>2, <1>7, <2>1, <3>1 DEF TermAt
  <2>3. CASE i < unstable.lo
    <3>1. ~Has(unstable, i) /\ ~Has(unstable, i)'
      BY <1>2, <1>5, <2>1, <2>3 DEF Has
    <3> QED
      BY <1>2, <1>7, <2>1, <3>1 DEF TermAt, StoreTerm
  <2> QED
    BY <1>2, <2>1, <2>2, <2>3
<1>10. ASSUME NEW i \in (idx + 1)..(idx + n)
       PROVE  TermAt(i)' = leader_log[i]
  <2>1. i \in Nat /\ i >= idx + 1 /\ i <= idx + n /\ i >= FirstIndex - 1
    BY <1>2
  <2>2. Has(unstable, i)'
    BY <1>2, <1>5, <2>1 DEF Has
  <2>3. unstable'.ent[i].term = leader_log[i]
    BY <1>5
  <2> QED
    BY <1>2, <1>7, <2>1, <2>2, <2>3 DEF TermAt
<1> QED
  BY <1>2, <1>5, <1>7, <1>8, <1>9, <1>10

\* The log after a snapshot that replaces it: the snapshot alone.
LEMMA RestoreView ==
    ASSUME GroupInv, NodeTypes, LogShape, NEW i \in 1..Len(leader_log),
           unstable' = EmptyAt(i + 1),
           snap' = [index |-> i, term |-> leader_log[i]],
           store' = store
    PROVE  /\ IsSegment(unstable') /\ unstable'.lo = i + 1
           /\ snap' # NoSnap /\ snap'.index = i /\ snap' \in [index : Nat, term : Nat]
           /\ LogShape'
           /\ FirstIndex' = i + 1 /\ LastIdx' = i
           /\ TermAt(i)' = leader_log[i]
<1>1. leader_log \in Seq(Nat) /\ i \in Nat \ {0} /\ leader_log[i] \in Nat
  BY DEF GroupInv, GroupTypes
<1>2. /\ IsSegment(unstable') /\ IsEmpty(unstable')
      /\ unstable'.lo = i + 1 /\ unstable'.hi = i
  <2>1. i + 1 \in Nat \ {0} /\ (i + 1) - 1 = i
    BY <1>1
  <2> QED
    BY <2>1, EmptyAtType
<1>3. /\ snap' # NoSnap /\ snap'.index = i /\ snap'.term = leader_log[i]
      /\ snap' \in [index : Nat, term : Nat]
  BY <1>1 DEF NoSnap
<1>4. FirstIndex' = i + 1 /\ LastIdx' = i
  BY <1>2, <1>3 DEF FirstIndex, LastIdx
<1>5. LogShape'
  BY <1>1, <1>2, <1>3 DEF LogShape
<1>6. TermAt(i)' = leader_log[i]
  <2>1. ~Has(unstable, i)'
    BY <1>1, <1>2 DEF Has
  <2> QED
    BY <1>1, <1>3, <1>4, <2>1 DEF TermAt
<1> QED
  BY <1>2, <1>3, <1>4, <1>5, <1>6

\* The storage that holds the snapshot of the Ready goes on with the unstable entries.
LEMMA RestoredView ==
    ASSUME NodeTypes, LogShape, ReadySnapshot = FALSE
    PROVE  /\ Restored = [log |-> Restored.log, meta |-> Restored.meta]
           /\ IsSegment(Restored.log) /\ Restored.meta \in [index : Nat, term : Nat]
           /\ Restored.log.lo = FirstIndex /\ Restored.meta.index = FirstIndex - 1
           /\ Restored.meta.term = TermAt(FirstIndex - 1)
           /\ unstable.lo <= Restored.log.hi + 1
           /\ IsEmpty(unstable) => unstable.lo = Restored.log.hi + 1
           /\ \A i \in FirstIndex..(unstable.lo - 1) :
                 Restored.log.ent[i].term = TermAt(i)
           /\ snap = NoSnap => Restored = store
<1>1. Viewed
  BY View
<1>2. /\ FirstIndex \in Nat \ {0} /\ LastIdx \in Nat
      /\ unstable.lo \in Nat \ {0} /\ unstable.hi = LastIdx
      /\ FirstIndex <= unstable.lo /\ unstable.lo <= LastIdx + 1
      /\ FirstIndex - 1 = IF snap # NoSnap THEN snap.index ELSE store.meta.index
  BY <1>1 DEF Viewed
<1>3. FirstIndex - 1 \in Nat /\ (FirstIndex - 1) + 1 = FirstIndex
  BY <1>2
<1>4. TermAt(FirstIndex - 1) = IF snap # NoSnap THEN snap.term ELSE store.meta.term
  BY <1>1, <1>3 DEF Viewed
<1>5. CASE snap = NoSnap
  <2>1. Restored = store
    BY <1>5 DEF Restored
  <2>2. ASSUME NEW i \in FirstIndex..(unstable.lo - 1)
        PROVE  store.log.ent[i].term = TermAt(i)
    <3>1. i \in Nat /\ i \in FirstIndex..LastIdx /\ i < unstable.lo
      BY <1>2
    <3> QED
      BY <1>1, <3>1 DEF Viewed
  <2>3. store = [log |-> store.log, meta |-> store.meta] /\ IsSegment(store.log)
        /\ store.meta \in [index : Nat, term : Nat]
    BY DEF NodeTypes
  <2>4. /\ store.log.lo = FirstIndex /\ store.meta.index = FirstIndex - 1
        /\ store.meta.term = TermAt(FirstIndex - 1)
    BY <1>2, <1>4, <1>5 DEF FirstIndex
  <2>5. /\ unstable.lo <= store.log.hi + 1
        /\ IsEmpty(unstable) => unstable.lo = store.log.hi + 1
    BY <1>5 DEF LogShape
  <2> QED
    BY <2>1, <2>2, <2>3, <2>4, <2>5
<1>6. CASE snap # NoSnap
  <2>1. Restored = [log |-> EmptyAt(snap.index + 1), meta |-> snap]
    BY <1>6 DEF Restored
  <2>2. snap \in [index : Nat, term : Nat] /\ snap.index \in Nat
    BY DEF NodeTypes
  <2>3. /\ IsSegment(EmptyAt(snap.index + 1))
        /\ EmptyAt(snap.index + 1).lo = snap.index + 1
        /\ EmptyAt(snap.index + 1).hi = snap.index
    <3>1. snap.index + 1 \in Nat \ {0} /\ (snap.index + 1) - 1 = snap.index
      BY <2>2
    <3> QED
      BY <3>1, EmptyAtType
  <2>4. unstable.lo = snap.index + 1 /\ FirstIndex = snap.index + 1
    BY <1>6 DEF LogShape, FirstIndex
  <2>5. FirstIndex..(unstable.lo - 1) = {}
    BY <1>2, <2>4, <2>2
  <2> QED
    BY <1>2, <1>4, <1>6, <2>1, <2>2, <2>3, <2>4, <2>5
<1> QED
  BY <1>5, <1>6

\* A Ready that is written leaves the log as it is, all of it in storage.
LEMMA StabilizeView ==
    ASSUME NodeTypes, LogShape, ReadySnapshot = FALSE,
           store' = StorageAppend(Restored, unstable),
           snap' = NoSnap, unstable' = StableEntries(unstable)
    PROVE  /\ store' = [log |-> store'.log, meta |-> store'.meta]
           /\ IsSegment(store'.log) /\ store'.meta \in [index : Nat, term : Nat]
           /\ IsSegment(unstable') /\ LogShape'
           /\ CanAppend(Restored, unstable)
           /\ unstable'.lo = LastIdx + 1
           /\ store'.log.lo = FirstIndex /\ store'.log.hi = LastIdx
           /\ store'.meta.index = FirstIndex - 1
           /\ FirstIndex' = FirstIndex /\ LastIdx' = LastIdx
           /\ \A i \in (FirstIndex - 1)..LastIdx : TermAt(i)' = TermAt(i)
           /\ \A i \in FirstIndex..LastIdx : store'.log.ent[i].term = TermAt(i)
           /\ snap = NoSnap /\ IsEmpty(unstable) => store' = store
<1>1. Viewed
  BY View
<1>2. /\ FirstIndex \in Nat \ {0} /\ LastIdx \in Nat
      /\ unstable.lo \in Nat \ {0} /\ unstable.hi = LastIdx
      /\ FirstIndex <= unstable.lo /\ unstable.lo <= LastIdx + 1
  BY <1>1 DEF Viewed
<1> DEFINE R == Restored
<1>3. /\ R = [log |-> R.log, meta |-> R.meta]
      /\ IsSegment(R.log) /\ R.meta \in [index : Nat, term : Nat]
      /\ R.log.lo = FirstIndex /\ R.meta.index = FirstIndex - 1
      /\ R.meta.term = TermAt(FirstIndex - 1)
      /\ unstable.lo <= R.log.hi + 1
      /\ IsEmpty(unstable) => unstable.lo = R.log.hi + 1
      /\ \A i \in FirstIndex..(unstable.lo - 1) : R.log.ent[i].term = TermAt(i)
      /\ snap = NoSnap => R = store
  BY RestoredView
<1>4. store' = StorageAppend(R, unstable)
  OBVIOUS
<1>5. CanAppend(Restored, unstable)
  BY <1>2, <1>3 DEF CanAppend
<1> HIDE DEF R
<1>6. R.log.hi \in Nat
  BY <1>3 DEF IsSegment
<1>7. /\ store' = [log |-> store'.log, meta |-> store'.meta]
      /\ IsSegment(store'.log) /\ store'.meta = R.meta
      /\ store'.log.lo = FirstIndex /\ store'.log.hi = LastIdx
      /\ \A i \in FirstIndex..LastIdx : store'.log.ent[i].term = TermAt(i)
      /\ IsEmpty(unstable) => store' = R
  <2>1. CASE IsEmpty(unstable)
    <3>1. store' = R
      BY <1>4, <2>1 DEF StorageAppend
    <3>2. R.log.hi = LastIdx /\ unstable.lo - 1 = LastIdx
      BY <1>2, <1>3, <1>6, <2>1 DEF IsEmpty
    <3> QED
      BY <1>3, <3>1, <3>2
  <2>2. CASE ~IsEmpty(unstable)
    <3> DEFINE S == Splice(R.log, unstable)
    <3>1. store' = [R EXCEPT !.log = S]
      BY <1>4, <2>2 DEF StorageAppend
    <3>2. IsSegment(unstable)
      BY DEF NodeTypes
    <3>3. /\ IsSegment(S) /\ S.lo = R.log.lo /\ S.hi = unstable.hi
          /\ \A i \in R.log.lo..(unstable.lo - 1) : S.ent[i] = R.log.ent[i]
          /\ \A i \in unstable.lo..unstable.hi : S.ent[i] = unstable.ent[i]
      BY <1>2, <1>3, <3>2, SpliceType
    <3> HIDE DEF S
    <3>4. store'.log = S /\ store'.meta = R.meta
          /\ store' = [log |-> store'.log, meta |-> store'.meta]
      BY <1>3, <3>1
    <3>5. ASSUME NEW i \in FirstIndex..LastIdx
          PROVE  S.ent[i].term = TermAt(i)
      <4>1. i \in Nat
        BY <1>2
      <4>2. CASE i < unstable.lo
        <5>1. i \in FirstIndex..(unstable.lo - 1)
          BY <1>2, <4>1, <4>2
        <5> QED
          BY <1>3, <3>3, <5>1
      <4>3. CASE i >= unstable.lo
        <5>1. i \in unstable.lo..unstable.hi
          BY <1>2, <4>1, <4>3
        <5>2. TermAt(i) = unstable.ent[i].term
          BY <1>1, <4>1, <4>3 DEF Viewed
        <5> QED
          BY <3>3, <5>1, <5>2
      <4> QED
        BY <1>2, <4>1, <4>2, <4>3
    <3> QED
      BY <1>2, <1>3, <2>2, <3>3, <3>4, <3>5
  <2> QED
    BY <2>1, <2>2
<1>8. /\ IsSegment(unstable') /\ IsEmpty(unstable')
      /\ unstable'.lo = LastIdx + 1 /\ unstable'.hi = LastIdx
  <2>1. unstable' = EmptyAt(LastIdx + 1) /\ LastIdx + 1 \in Nat \ {0}
        /\ (LastIdx + 1) - 1 = LastIdx
    BY <1>2 DEF StableEntries
  <2> QED
    BY <2>1, EmptyAtType
<1>9. FirstIndex' = FirstIndex /\ LastIdx' = LastIdx
  BY <1>7, <1>8 DEF FirstIndex, LastIdx
<1>10. store'.meta.index = FirstIndex - 1 /\ store'.meta.term = TermAt(FirstIndex - 1)
  BY <1>3, <1>7
<1>11. LogShape'
  BY <1>2, <1>7, <1>8, <1>10 DEF LogShape
<1>12. ASSUME NEW i \in (FirstIndex - 1)..LastIdx
       PROVE  TermAt(i)' = TermAt(i)
  <2>1. i \in Nat /\ i >= FirstIndex - 1 /\ i <= LastIdx
    BY <1>2
  <2>2. ~Has(unstable, i)'
    BY <1>2, <1>8, <2>1 DEF Has
  <2>3. TermAt(i)' = IF i = store'.meta.index THEN store'.meta.term
                     ELSE IF Has(store.log, i)' THEN store'.log.ent[i].term ELSE NoTerm
    BY <1>2, <1>9, <2>1, <2>2 DEF TermAt, StoreTerm
  <2>4. CASE i = FirstIndex - 1
    BY <1>10, <2>3, <2>4
  <2>5. CASE i # FirstIndex - 1
    <3>1. i \in FirstIndex..LastIdx /\ Has(store.log, i)'
      BY <1>2, <1>7, <2>1, <2>5 DEF Has
    <3> QED
      BY <1>7, <1>10, <2>3, <2>5, <3>1
  <2> QED
    BY <2>4, <2>5
<1> QED
  BY <1>3, <1>5, <1>7, <1>8, <1>9, <1>10, <1>11, <1>12

-----------------------------------------------------------------------------
\* What stays true of the log while the follower keeps it

\* A log that is kept mirrors a log of the group for as long as these only grow.
LEMMA MirrorsKept ==
    ASSUME GroupInv, GroupInv', NodeTypes, LogShape, MirrorsOne, LogsGrow, Kept
    PROVE  MirrorsOne'
<1>1. PICK old \in Logs : Mirrors(old)
  BY DEF MirrorsOne
<1>2. PICK new \in Logs' :
         Len(old) <= Len(new) /\ \A i \in 1..Len(old) : new[i] = old[i]
  BY DEF LogsGrow
<1>3. /\ FirstIndex \in Nat \ {0} /\ LastIdx \in Nat /\ LastIdx <= Len(old)
      /\ \A i \in (FirstIndex - 1)..LastIdx : TermAt(i) = TermIn(old, i)
      /\ Len(old) \in Nat
  BY <1>1, Places DEF Mirrors, GroupInv, GroupTypes, Logs
<1>4. Len(new) \in Nat
  BY DEF GroupInv, GroupTypes, Logs
<1>5. ASSUME NEW i \in (FirstIndex - 1)..LastIdx
      PROVE  TermAt(i)' = TermIn(new, i)
  <2>1. i \in Nat /\ i <= Len(old) /\ TermAt(i)' = TermAt(i) /\ TermAt(i) = TermIn(old, i)
    BY <1>3 DEF Kept
  <2>2. i # 0 => new[i] = old[i]
    BY <1>2, <2>1
  <2> QED
    BY <2>1, <2>2 DEF TermIn
<1> QED
  BY <1>2, <1>3, <1>4, <1>5 DEF MirrorsOne, Mirrors, Kept

\* What is committed stays chosen when the leader keeps it.
LEMMA ChosenKept ==
    ASSUME GroupInv, NodeTypes, LogShape, CommittedIsChosen, Kept,
           committed' = committed, leader_commit' \in Nat, leader_commit <= leader_commit',
           \A i \in 1..leader_commit : leader_log'[i] = leader_log[i]
    PROVE  CommittedIsChosen'
<1>1. /\ FirstIndex \in Nat \ {0} /\ LastIdx \in Nat /\ committed \in Nat
      /\ leader_commit \in Nat /\ committed <= leader_commit
      /\ FirstIndex' = FirstIndex /\ LastIdx' = LastIdx
  BY Places DEF NodeTypes, GroupInv, GroupTypes, CommittedIsChosen, Kept
<1>2. ASSUME NEW i \in (FirstIndex - 1)..committed, i <= LastIdx
      PROVE  TermAt(i)' = (IF i = 0 THEN 0 ELSE leader_log'[i])
  <2>1. i \in Nat /\ i <= committed /\ i \in (FirstIndex - 1)..LastIdx
    BY <1>1, <1>2
  <2>2. TermAt(i)' = TermAt(i) /\ TermAt(i) = LeaderTerm(i)
    BY <1>2, <2>1 DEF Kept, CommittedIsChosen
  <2>3. i # 0 => leader_log'[i] = leader_log[i]
    BY <1>1, <2>1
  <2> QED
    BY <2>2, <2>3 DEF LeaderTerm
<1> QED
  BY <1>1, <1>2 DEF CommittedIsChosen, LeaderTerm

\* What was answered stays the leader's when the leader keeps it.
LEMMA AckedKept ==
    ASSUME NodeTypes, LogShape, AckedIsLeaders, Kept, answered' = answered,
           \A i \in 1..answered : leader_log'[i] = leader_log[i]
    PROVE  AckedIsLeaders'
<1>1. /\ FirstIndex \in Nat \ {0} /\ LastIdx \in Nat /\ answered \in Nat
      /\ FirstIndex' = FirstIndex /\ LastIdx' = LastIdx
      /\ Least(LastIdx, answered) \in Nat /\ Least(LastIdx, answered) <= LastIdx
      /\ Least(LastIdx, answered) <= answered
  BY Places DEF NodeTypes, Kept, Least
<1>2. ASSUME NEW i \in FirstIndex..Least(LastIdx, answered)
      PROVE  TermAt(i)' = leader_log'[i]
  <2>1. i \in 1..answered /\ i \in (FirstIndex - 1)..LastIdx
    BY <1>1
  <2> QED
    BY <2>1 DEF Kept, AckedIsLeaders
<1> QED
  BY <1>1, <1>2 DEF AckedIsLeaders

\* The parts of the node that a step of the group leaves alone.
LEMMA NodeKept ==
    ASSUME NodeInv, UNCHANGED <<store, unstable, snap, committed, persisted, applied,
                                records, panics, answered, acked>>,
           answered <= Len(leader_log')
    PROVE  /\ Kept /\ NodeTypes' /\ LogShape' /\ Watermarks' /\ RecordPlaces'
           /\ FollowerNoPanic'
<1>1. Kept
  BY KeptView
<1>2. NodeTypes' /\ LogShape'
  BY DEF NodeInv, NodeTypes, LogShape
<1>3. Watermarks'
  BY <1>1 DEF NodeInv, Watermarks, Alive, Kept
<1>4. RecordPlaces'
  BY DEF NodeInv, RecordPlaces
<1>5. FollowerNoPanic'
  BY DEF NodeInv, FollowerNoPanic
<1> QED
  BY <1>1, <1>2, <1>3, <1>4, <1>5

-----------------------------------------------------------------------------
\* The steps of the group

\* The leader appends.
LEMMA LeaderAppendStep ==
    ASSUME NodeInv, LeaderAppend
    PROVE  NodeInv'
<1>1. /\ GroupInv /\ NodeTypes /\ LogShape /\ MirrorsOne /\ CommittedIsChosen
      /\ AckedIsLeaders
  BY DEF NodeInv
<1>2. UNCHANGED <<term, leader_commit, past, store, unstable, snap, committed, persisted,
                  applied, records, panics, answered, acked>>
  BY DEF LeaderAppend, ackVars
<1>3. /\ GroupInv' /\ LogsGrow /\ Len(leader_log') = Len(leader_log) + 1
      /\ \A i \in 1..Len(leader_log) : leader_log'[i] = leader_log[i]
  BY <1>1, LeaderAppendGroup
<1>4. /\ Len(leader_log) \in Nat /\ leader_commit \in Nat
      /\ leader_commit <= Len(leader_log)
      /\ answered \in Nat /\ answered <= Len(leader_log)
  BY DEF NodeInv, GroupInv, GroupTypes, NodeTypes, Watermarks
<1>5. answered <= Len(leader_log')
  BY <1>3, <1>4
<1>6. /\ Kept /\ NodeTypes' /\ LogShape' /\ Watermarks' /\ RecordPlaces'
      /\ FollowerNoPanic'
  BY <1>2, <1>5, NodeKept
<1>7. MirrorsOne'
  BY <1>1, <1>3, <1>6, MirrorsKept
<1>8. CommittedIsChosen'
  <2>1. \A i \in 1..leader_commit : leader_log'[i] = leader_log[i]
    BY <1>3, <1>4
  <2> QED
    BY <1>1, <1>2, <1>4, <1>6, <2>1, ChosenKept
<1>9. AckedIsLeaders'
  <2>1. \A i \in 1..answered : leader_log'[i] = leader_log[i]
    BY <1>3, <1>4
  <2> QED
    BY <1>1, <1>2, <1>6, <2>1, AckedKept
<1> QED
  BY <1>3, <1>6, <1>7, <1>8, <1>9 DEF NodeInv

\* The logs that do not change grow too.
LEMMA LogsStay ==
    ASSUME GroupInv, UNCHANGED <<leader_log, past>>
    PROVE  LogsGrow
<1>1. Logs' = Logs /\ \A log \in Logs : Len(log) \in Nat
  BY DEF Logs, GroupInv, GroupTypes
<1>2. \A log \in Logs : Len(log) <= Len(log)
  BY <1>1
<1> QED
  BY <1>1, <1>2 DEF LogsGrow

\* The leader commits an entry of its term.
LEMMA LeaderCommitsStep ==
    ASSUME NodeInv, LeaderCommits
    PROVE  NodeInv'
<1>1. /\ GroupInv /\ NodeTypes /\ LogShape /\ MirrorsOne /\ CommittedIsChosen
      /\ AckedIsLeaders
  BY DEF NodeInv
<1>2. UNCHANGED <<leader_log, term, past, store, unstable, snap, committed, persisted,
                  applied, records, panics, answered, acked>>
  BY DEF LeaderCommits, ackVars
<1>3. /\ Len(leader_log) \in Nat /\ leader_commit \in 0..Len(leader_log)
      /\ answered <= Len(leader_log)
  BY DEF NodeInv, GroupInv, GroupTypes, Watermarks
<1>4. leader_commit' \in (leader_commit + 1)..Len(leader_log)
  BY DEF LeaderCommits
<1>5. GroupInv'
  BY <1>1, <1>2, <1>3, <1>4 DEF GroupInv, GroupTypes, TermsOrdered, LogsMatch, Logs
<1>6. LogsGrow
  BY <1>1, <1>2, LogsStay
<1>7. answered <= Len(leader_log')
  BY <1>2, <1>3
<1>8. /\ Kept /\ NodeTypes' /\ LogShape' /\ Watermarks' /\ RecordPlaces'
      /\ FollowerNoPanic'
  BY <1>2, <1>7, NodeKept
<1>9. MirrorsOne'
  BY <1>1, <1>5, <1>6, <1>8, MirrorsKept
<1>10. CommittedIsChosen'
  <2>1. leader_commit' \in Nat /\ leader_commit <= leader_commit'
    BY <1>3, <1>4
  <2>2. \A i \in 1..leader_commit : leader_log'[i] = leader_log[i]
    BY <1>2
  <2> QED
    BY <1>1, <1>2, <1>8, <2>1, <2>2, ChosenKept
<1>11. AckedIsLeaders'
  <2>1. \A i \in 1..answered : leader_log'[i] = leader_log[i]
    BY <1>2
  <2> QED
    BY <1>1, <1>2, <1>8, <2>1, AckedKept
<1> QED
  BY <1>5, <1>8, <1>9, <1>10, <1>11 DEF NodeInv

\* A new leader, to which nothing was answered yet.
LEMMA NewLeaderStep ==
    ASSUME NodeInv, NewLeader
    PROVE  NodeInv'
<1>1. /\ GroupInv /\ NodeTypes /\ LogShape /\ MirrorsOne /\ Watermarks /\ RecordPlaces
      /\ FollowerNoPanic /\ CommittedIsChosen
  BY DEF NodeInv
<1>2. /\ UNCHANGED <<leader_commit, store, unstable, snap, committed, persisted, applied,
                     panics>>
      /\ answered' = 0 /\ acked' = 0
      /\ records' = [j \in DOMAIN records |-> [records[j] EXCEPT !.ack = 0]]
  BY DEF NewLeader
<1>3. /\ GroupInv' /\ LogsGrow
      /\ leader_commit <= Len(leader_log')
      /\ \A i \in 1..leader_commit : leader_log'[i] = leader_log[i]
  BY <1>1, NewLeaderGroup
<1>4. Kept
  BY <1>2, KeptView
<1>5. /\ records \in Seq(Elements(records))
      /\ \A j \in DOMAIN records : IsRecord(records[j])
      /\ DOMAIN records = 1..Len(records) /\ Len(records) \in Nat
  BY <1>1 DEF NodeTypes
<1>6. /\ DOMAIN records' = DOMAIN records
      /\ \A j \in DOMAIN records :
            /\ IsRecord(records'[j]) /\ records'[j].ack = 0
            /\ records'[j].snap = records[j].snap
  <2>1. ASSUME NEW r, IsRecord(r)
        PROVE  LET new == [r EXCEPT !.ack = 0]
               IN  IsRecord(new) /\ new.ack = 0 /\ new.snap = r.snap
    <3> DEFINE new == [r EXCEPT !.ack = 0]
    <3>1. r = [snap |-> r.snap, image |-> r.image, ack |-> r.ack,
               index |-> r.index, term |-> r.term]
      BY <2>1 DEF IsRecord
    <3>2. new = [snap |-> r.snap, image |-> r.image, ack |-> 0,
                 index |-> r.index, term |-> r.term]
      BY <3>1
    <3> HIDE DEF new
    <3>3. IsRecord(new) /\ new.ack = 0 /\ new.snap = r.snap
      BY <2>1, <3>2 DEF IsRecord
    <3> QED
      BY <3>3 DEF new
  <2>2. \A j \in DOMAIN records : records'[j] = [records[j] EXCEPT !.ack = 0]
    BY <1>2
  <2>3. DOMAIN records' = DOMAIN records
    BY <1>2
  <2>4. ASSUME NEW j \in DOMAIN records
        PROVE  /\ IsRecord(records'[j]) /\ records'[j].ack = 0
               /\ records'[j].snap = records[j].snap
    <3>1. IsRecord(records[j])
      BY <1>5
    <3>2. /\ IsRecord([records[j] EXCEPT !.ack = 0])
          /\ [records[j] EXCEPT !.ack = 0].ack = 0
          /\ [records[j] EXCEPT !.ack = 0].snap = records[j].snap
      BY <2>1, <3>1
    <3> QED
      BY <2>2, <3>2
  <2> QED
    BY <2>3, <2>4
<1>7. records' \in Seq(Elements(records'))
  <2> DEFINE S == Elements(records')
  <2>1. records' \in [1..Len(records) -> S]
    BY <1>2, <1>5, <1>6 DEF Elements
  <2> HIDE DEF S
  <2>2. records' \in Seq(S)
    BY <1>5, <2>1
  <2> QED
    BY <2>2 DEF S
<1>8. NodeTypes' /\ LogShape'
  BY <1>1, <1>2, <1>6, <1>7 DEF NodeTypes, LogShape
<1>9. Watermarks'
  <2>1. Len(leader_log') \in Nat
    BY <1>3 DEF GroupInv, GroupTypes
  <2> QED
    BY <1>1, <1>2, <1>4, <2>1 DEF Watermarks, Alive, Kept
<1>10. RecordPlaces'
  BY <1>1, <1>2, <1>6 DEF RecordPlaces
<1>11. FollowerNoPanic'
  BY <1>1, <1>2 DEF FollowerNoPanic
<1>12. MirrorsOne'
  BY <1>1, <1>3, <1>4, MirrorsKept
<1>13. CommittedIsChosen'
  <2>1. leader_commit' \in Nat /\ leader_commit <= leader_commit'
    BY <1>1, <1>2 DEF GroupInv, GroupTypes
  <2> QED
    BY <1>1, <1>2, <1>3, <1>4, <2>1, ChosenKept
<1>14. AckedIsLeaders'
  <2>1. FirstIndex' \in Nat \ {0} /\ LastIdx' \in Nat
    BY <1>1, <1>4, Places DEF Kept
  <2>2. Least(LastIdx', answered') <= 0
    BY <1>2, <2>1 DEF Least
  <2>3. FirstIndex'..Least(LastIdx', answered') = {}
    BY <1>2, <2>1, <2>2 DEF Least
  <2> QED
    BY <2>3 DEF AckedIsLeaders, Least
<1> QED
  BY <1>3, <1>8, <1>9, <1>10, <1>11, <1>12, <1>13, <1>14 DEF NodeInv

-----------------------------------------------------------------------------
\* Messages

\* What an append that is taken does: up to its last index the log is the leader's.
LEMMA AppendEffect ==
    ASSUME NodeInv, NEW idx \in 0..Len(leader_log),
           NEW n \in 0..(Len(leader_log) - idx), NEW c \in 0..leader_commit,
           AppendEntries(idx, n, c)
    PROVE  /\ IsSegment(unstable') /\ LogShape'
           /\ unstable'.lo = idx + 1 \/ unstable'.lo = unstable.lo
           /\ FirstIndex' = FirstIndex /\ LastIdx' \in Nat /\ idx + n <= LastIdx'
           /\ FirstIndex - 1 <= idx /\ committed <= idx
           /\ \A i \in (FirstIndex - 1)..(idx + n) : TermAt(i)' = LeaderTerm(i)
           /\ n = 0 => Kept
           /\ n # 0 => LastIdx' = idx + n
           /\ panics' = {}
           /\ committed' \in Nat /\ committed <= committed'
           /\ committed' <= idx + n /\ committed' <= leader_commit
           /\ persisted' \in Nat /\ persisted' <= persisted
           /\ answered' = answered \/ answered' = idx + n
           /\ answered <= answered'
<1>1. /\ GroupInv /\ NodeTypes /\ LogShape /\ MirrorsOne /\ Watermarks
      /\ CommittedIsChosen
  BY DEF NodeInv
<1>2. /\ leader_log \in Seq(Nat) /\ Len(leader_log) \in Nat /\ leader_commit \in Nat
      /\ idx \in Nat /\ n \in Nat /\ c \in Nat /\ c <= leader_commit
      /\ idx + n <= Len(leader_log)
      /\ committed \in Nat /\ persisted \in Nat /\ answered \in Nat
      /\ committed <= leader_commit
  BY <1>1 DEF GroupInv, GroupTypes, NodeTypes, CommittedIsChosen
<1>3. /\ Alive /\ idx >= committed /\ TermAt(idx) = LeaderTerm(idx)
      /\ UNCHANGED <<store, snap>>
  BY DEF AppendEntries, MatchTerm
<1>4. idx \in (FirstIndex - 1)..LastIdx
  BY <1>1, <1>3, MatchInLog
<1>5. /\ FirstIndex \in Nat \ {0} /\ LastIdx \in Nat /\ unstable.hi = LastIdx
      /\ FirstIndex - 1 <= idx /\ idx <= LastIdx
  BY <1>1, <1>2, <1>4, Places
<1>6. \A i \in (FirstIndex - 1)..idx : TermAt(i) = LeaderTerm(i)
  BY <1>1, <1>2, <1>3, <1>4, AgreeUpTo
<1> DEFINE E == LeaderEntries(idx, n)
<1>7. E.lo = idx + 1 /\ E.hi = idx + n
  BY DEF LeaderEntries
<1>8. FindConflict(E) = IF n = 0 THEN 0 ELSE idx + 1
  BY <1>2, <1>7 DEF FindConflict, IsEmpty
<1>9. /\ panics' = Check("maybe_append_committed",
                         FindConflict(E) = 0 \/ FindConflict(E) > committed)
                   \cup Check("truncate_and_append_out_of_bound",
                         FindConflict(E) = 0 \/ FindConflict(E) <= unstable.hi + 1)
                   \cup CommitToChecks("commit_to_of_append",
                         IF FindConflict(E) = 0 THEN LastIdx ELSE idx + n,
                         CommitOfAppend(c, idx + n))
      /\ unstable' = IF FindConflict(E) = 0 THEN unstable
                     ELSE TruncateAndAppend(unstable, E)
      /\ persisted' = IF FindConflict(E) # 0 /\ persisted > FindConflict(E) + 1
                      THEN FindConflict(E) - 1 ELSE persisted
      /\ committed' = CommitTo(CommitOfAppend(c, idx + n))
      /\ answered' = Max({answered, idx + n})
  BY DEF AppendEntries
<1>10. /\ CommitOfAppend(c, idx + n) \in Nat
       /\ CommitOfAppend(c, idx + n) <= idx + n
       /\ CommitOfAppend(c, idx + n) <= leader_commit
  BY <1>2 DEF CommitOfAppend, Least
<1>11. /\ committed' \in Nat /\ committed <= committed'
       /\ committed' <= idx + n /\ committed' <= leader_commit
  BY <1>2, <1>3, <1>9, <1>10 DEF CommitTo
<1>12. /\ answered' = answered \/ answered' = idx + n
       /\ answered <= answered'
  BY <1>2, <1>9, MaxOfTwo
<1>13. CASE n = 0
  <2>1. FindConflict(E) = 0
    BY <1>8, <1>13
  <2>2. unstable' = unstable /\ persisted' = persisted
    BY <1>9, <2>1
  <2>3. Kept
    BY <1>3, <2>2, KeptView
  <2>4. IsSegment(unstable') /\ LogShape'
    BY <1>1, <1>3, <2>2 DEF NodeTypes, LogShape
  <2>5. \A i \in (FirstIndex - 1)..(idx + n) : TermAt(i)' = LeaderTerm(i)
    <3> TAKE i \in (FirstIndex - 1)..(idx + n)
    <3>1. i \in (FirstIndex - 1)..idx /\ i \in (FirstIndex - 1)..LastIdx
      BY <1>2, <1>5, <1>13
    <3> QED
      BY <1>6, <2>3, <3>1 DEF Kept
  <2>6. panics' = {}
    <3>1. CommitOfAppend(c, idx + n) <= LastIdx
      BY <1>2, <1>5, <1>10, <1>13
    <3> QED
      BY <1>9, <2>1, <3>1 DEF Check, CommitToChecks
  <2>7. LastIdx' = LastIdx /\ FirstIndex' = FirstIndex
    BY <2>3 DEF Kept
  <2> QED
    BY <1>2, <1>3, <1>5, <1>11, <1>12, <1>13, <2>2, <2>3, <2>4, <2>5, <2>6, <2>7
<1>14. CASE n # 0
  <2>1. n \in Nat \ {0} /\ FindConflict(E) = idx + 1 /\ FindConflict(E) # 0
    BY <1>2, <1>8, <1>14
  <2>2. unstable' = TruncateAndAppend(unstable, LeaderEntries(idx, n))
    BY <1>9, <2>1
  <2>3. /\ IsSegment(unstable') /\ LogShape'
        /\ unstable'.lo = idx + 1 \/ unstable'.lo = unstable.lo
        /\ FirstIndex' = FirstIndex /\ LastIdx' = idx + n
        /\ \A i \in (FirstIndex - 1)..idx : TermAt(i)' = TermAt(i)
        /\ \A i \in (idx + 1)..(idx + n) : TermAt(i)' = leader_log[i]
    BY <1>1, <1>2, <1>3, <1>4, <2>1, <2>2, AppendView
  <2>4. \A i \in (FirstIndex - 1)..(idx + n) : TermAt(i)' = LeaderTerm(i)
    <3> TAKE i \in (FirstIndex - 1)..(idx + n)
    <3>1. i \in Nat
      BY <1>2, <1>5
    <3>2. CASE i <= idx
      <4>1. i \in (FirstIndex - 1)..idx
        BY <1>2, <1>5, <3>1, <3>2
      <4> QED
        BY <1>6, <2>3, <4>1
    <3>3. CASE i > idx
      <4>1. i \in (idx + 1)..(idx + n) /\ i # 0
        BY <1>2, <1>5, <3>1, <3>3
      <4> QED
        BY <2>3, <4>1 DEF LeaderTerm
    <3> QED
      BY <1>2, <3>1, <3>2, <3>3
  <2>5. panics' = {}
    <3>1. /\ FindConflict(E) > committed /\ FindConflict(E) <= unstable.hi + 1
      BY <1>2, <1>3, <1>5, <2>1
    <3> QED
      BY <1>9, <1>10, <2>1, <3>1 DEF Check, CommitToChecks
  <2>6. persisted' \in Nat /\ persisted' <= persisted
    BY <1>2, <1>9, <2>1
  <2> QED
    BY <1>2, <1>3, <1>5, <1>11, <1>12, <1>14, <2>3, <2>4, <2>5, <2>6
<1> QED
  BY <1>13, <1>14

\* An append message that is taken.
LEMMA ReceiveAppendStep ==
    ASSUME NodeInv, ReceiveAppend
    PROVE  NodeInv'
<1>1. /\ GroupInv /\ NodeTypes /\ LogShape /\ MirrorsOne /\ Watermarks /\ RecordPlaces
      /\ CommittedIsChosen /\ AckedIsLeaders
  BY DEF NodeInv
<1>2. PICK idx \in 0..Len(leader_log) : \E n \in 0..(Len(leader_log) - idx) :
         \E c \in 0..leader_commit : AppendEntries(idx, n, c)
  BY DEF ReceiveAppend
<1>3. PICK n \in 0..(Len(leader_log) - idx) :
         \E c \in 0..leader_commit : AppendEntries(idx, n, c)
  BY <1>2
<1>4. PICK c \in 0..leader_commit : AppendEntries(idx, n, c)
  BY <1>3
<1>5. UNCHANGED <<leader_log, term, leader_commit, past, acked, store, snap, applied,
                  records>>
  BY <1>4 DEF AppendEntries, groupVars
<1>6. /\ IsSegment(unstable') /\ LogShape'
      /\ unstable'.lo = idx + 1 \/ unstable'.lo = unstable.lo
      /\ FirstIndex' = FirstIndex /\ LastIdx' \in Nat /\ idx + n <= LastIdx'
      /\ FirstIndex - 1 <= idx /\ committed <= idx
      /\ \A i \in (FirstIndex - 1)..(idx + n) : TermAt(i)' = LeaderTerm(i)
      /\ n = 0 => Kept
      /\ n # 0 => LastIdx' = idx + n
      /\ panics' = {}
      /\ committed' \in Nat /\ committed <= committed'
      /\ committed' <= idx + n /\ committed' <= leader_commit
      /\ persisted' \in Nat /\ persisted' <= persisted
      /\ answered' = answered \/ answered' = idx + n
      /\ answered <= answered'
  BY <1>4, AppendEffect
<1>7. /\ leader_log \in Seq(Nat) /\ Len(leader_log) \in Nat /\ leader_commit \in Nat
      /\ idx \in Nat /\ n \in Nat /\ idx + n <= Len(leader_log)
      /\ committed \in Nat /\ persisted \in Nat /\ answered \in Nat
      /\ FirstIndex \in Nat \ {0} /\ LastIdx \in Nat
      /\ snap.index \in Nat /\ store.meta.index \in Nat
      /\ unstable.lo \in Nat \ {0}
  <2>1. /\ FirstIndex \in Nat \ {0} /\ LastIdx \in Nat
        /\ snap.index \in Nat /\ store.meta.index \in Nat
        /\ unstable.lo \in Nat \ {0}
    BY <1>1, Places
  <2>2. leader_log \in Seq(Nat) /\ Len(leader_log) \in Nat /\ leader_commit \in Nat
    BY <1>1 DEF GroupInv, GroupTypes
  <2>3. committed \in Nat /\ persisted \in Nat /\ answered \in Nat
    BY <1>1 DEF NodeTypes
  <2> QED
    BY <2>1, <2>2, <2>3
<1>8. GroupInv'
  BY <1>1, <1>5 DEF GroupInv, GroupTypes, TermsOrdered, LogsMatch, Logs
<1>9. NodeTypes'
  <2>1. answered' \in Nat
    BY <1>6, <1>7
  <2>2. NodeTypes
    BY <1>1
  <2>3. IsSegment(unstable') /\ committed' \in Nat /\ persisted' \in Nat
    BY <1>6
  <2> QED
    BY <1>5, <2>1, <2>2, <2>3 DEF NodeTypes
<1>10. MirrorsOne'
  <2>1. CASE n = 0
    <3>1. LogsGrow
      BY <1>1, <1>5, LogsStay
    <3> QED
      BY <1>1, <1>6, <1>8, <2>1, <3>1, MirrorsKept
  <2>2. CASE n # 0
    <3>1. /\ LastIdx' <= Len(leader_log)
          /\ \A i \in (FirstIndex' - 1)..LastIdx' : TermAt(i)' = TermIn(leader_log, i)
      BY <1>6, <1>7, <2>2 DEF TermIn, LeaderTerm
    <3>2. leader_log \in Logs'
      BY <1>5 DEF Logs
    <3> QED
      BY <3>1, <3>2 DEF MirrorsOne, Mirrors
  <2> QED
    BY <2>1, <2>2
<1>11. Watermarks'
  <2>1. committed' <= LastIdx'
    BY <1>6, <1>7
  <2>2. store'.meta.index <= committed' /\ snap'.index <= committed'
    BY <1>1, <1>5, <1>6, <1>7, SMTT(20) DEF Watermarks
  <2>3. snap' # NoSnap => store'.meta.index < snap'.index /\ persisted' <= snap'.index
    BY <1>1, <1>5, <1>6, <1>7 DEF Watermarks
  <2>4. acked' <= answered' /\ answered' <= Len(leader_log')
    <3>1. acked \in Nat
      BY <1>1 DEF NodeTypes
    <3>2. acked <= answered /\ answered <= Len(leader_log)
      BY <1>1 DEF Watermarks
    <3> QED
      BY <1>5, <1>6, <1>7, <3>1, <3>2
  <2> QED
    BY <2>1, <2>2, <2>3, <2>4 DEF Watermarks
<1>12. RecordPlaces'
  <2> SUFFICES ASSUME NEW j \in DOMAIN records
               PROVE  /\ records[j].ack <= answered'
                      /\ records[j].snap <= committed'
                      /\ records[j].snap < unstable'.lo
                      /\ snap # NoSnap => records[j].snap <= snap.index
    BY <1>5 DEF RecordPlaces
  <2>1. /\ records[j].ack \in Nat /\ records[j].snap \in Nat
        /\ records[j].ack <= answered /\ records[j].snap <= committed
        /\ records[j].snap < unstable.lo
        /\ snap # NoSnap => records[j].snap <= snap.index
    <3>1. records[j].ack \in Nat /\ records[j].snap \in Nat
      BY <1>1 DEF NodeTypes, IsRecord
    <3> QED
      BY <1>1, <3>1 DEF RecordPlaces
  <2>2. /\ answered' \in Nat /\ answered <= answered' /\ answered \in Nat
        /\ committed \in Nat /\ committed' \in Nat /\ committed <= committed'
        /\ committed <= idx /\ idx \in Nat
        /\ unstable'.lo = idx + 1 \/ unstable'.lo = unstable.lo
    BY <1>6, <1>7
  <2>3. records[j].ack <= answered' /\ records[j].snap <= committed'
    BY <2>1, <2>2
  <2>4. records[j].snap < unstable'.lo
    BY <2>1, <2>2
  <2> QED
    BY <2>1, <2>3, <2>4
<1>13. FollowerNoPanic'
  BY <1>6 DEF FollowerNoPanic
<1>14. CommittedIsChosen'
  <2>1. ASSUME NEW i \in (FirstIndex - 1)..committed'
        PROVE  TermAt(i)' = LeaderTerm(i)
    <3>1. i \in (FirstIndex - 1)..(idx + n)
      BY <1>6, <1>7
    <3> QED
      BY <1>6, <3>1
  <2> QED
    BY <1>5, <1>6, <2>1 DEF CommittedIsChosen, LeaderTerm
<1>15. AckedIsLeaders'
  <2> SUFFICES ASSUME NEW i \in FirstIndex'..Least(LastIdx', answered')
               PROVE  TermAt(i)' = leader_log[i]
    BY <1>5 DEF AckedIsLeaders, Least
  <2>1. /\ i \in Nat /\ i # 0 /\ i >= FirstIndex /\ i <= LastIdx' /\ i <= answered'
    BY <1>6, <1>7 DEF Least
  <2>2. CASE i <= idx + n
    <3>1. i \in (FirstIndex - 1)..(idx + n)
      BY <1>7, <2>1, <2>2
    <3> QED
      BY <1>6, <2>1, <3>1 DEF LeaderTerm
  <2>3. CASE i > idx + n
    <3>1. n = 0 /\ answered' = answered
      BY <1>6, <1>7, <2>1, <2>3
    <3>2. Kept /\ LastIdx' = LastIdx
      BY <1>6, <3>1 DEF Kept
    <3>3. i \in FirstIndex..Least(LastIdx, answered) /\ i \in (FirstIndex - 1)..LastIdx
      BY <1>7, <2>1, <3>1, <3>2 DEF Least
    <3> QED
      BY <1>1, <3>2, <3>3 DEF Kept, AckedIsLeaders
  <2> QED
    BY <1>7, <2>1, <2>2, <2>3
<1> QED
  BY <1>6, <1>8, <1>9, <1>10, <1>11, <1>12, <1>13, <1>14, <1>15 DEF NodeInv

\* An answer with the commit index.
LEMMA AnswerCommittedStep ==
    ASSUME NodeInv, AnswerCommitted
    PROVE  NodeInv'
<1>1. /\ GroupInv /\ NodeTypes /\ LogShape /\ MirrorsOne /\ Watermarks /\ RecordPlaces
      /\ FollowerNoPanic /\ CommittedIsChosen /\ AckedIsLeaders
  BY DEF NodeInv
<1>2. /\ Alive /\ answered < committed /\ answered' = committed
      /\ UNCHANGED <<leader_log, term, leader_commit, past, acked, store, unstable, snap,
                     committed, persisted, applied, records, panics>>
  BY DEF AnswerCommitted, groupVars
<1>3. /\ Kept /\ LogsGrow
  BY <1>1, <1>2, KeptView, LogsStay
<1>4. /\ FirstIndex \in Nat \ {0} /\ LastIdx \in Nat /\ committed \in Nat
      /\ leader_commit \in Nat /\ Len(leader_log) \in Nat
      /\ leader_commit <= Len(leader_log) /\ committed <= leader_commit
      /\ answered \in Nat /\ acked \in Nat /\ acked <= answered
  <2>1. FirstIndex \in Nat \ {0} /\ LastIdx \in Nat
    BY <1>1, Places
  <2>2. leader_commit \in Nat /\ Len(leader_log) \in Nat
        /\ leader_commit <= Len(leader_log)
    BY <1>1 DEF GroupInv, GroupTypes
  <2>3. committed \in Nat /\ answered \in Nat /\ acked \in Nat
    BY <1>1 DEF NodeTypes
  <2> QED
    BY <1>1, <2>1, <2>2, <2>3 DEF CommittedIsChosen, Watermarks
<1>5. GroupInv'
  BY <1>1, <1>2 DEF GroupInv, GroupTypes, TermsOrdered, LogsMatch, Logs
<1>6. NodeTypes' /\ LogShape'
  BY <1>1, <1>2, <1>4 DEF NodeTypes, LogShape
<1>7. MirrorsOne'
  BY <1>1, <1>3, <1>5, MirrorsKept
<1>8. Watermarks'
  <2>1. acked <= committed /\ committed <= Len(leader_log)
    BY <1>2, <1>4
  <2> QED
    BY <1>1, <1>2, <1>3, <2>1 DEF Watermarks, Alive, Kept
<1>9. RecordPlaces'
  <2>1. ASSUME NEW j \in DOMAIN records
        PROVE  records[j].ack <= committed
    <3>1. records[j].ack \in Nat
      BY <1>1 DEF NodeTypes, IsRecord
    <3>2. records[j].ack <= answered
      BY <1>1 DEF RecordPlaces
    <3> QED
      BY <1>2, <1>4, <3>1, <3>2
  <2> QED
    BY <1>1, <1>2, <2>1 DEF RecordPlaces
<1>10. FollowerNoPanic'
  BY <1>1, <1>2 DEF FollowerNoPanic
<1>11. CommittedIsChosen'
  <2>1. \A i \in 1..leader_commit : leader_log'[i] = leader_log[i]
    BY <1>2
  <2> QED
    BY <1>1, <1>2, <1>3, <1>4, <2>1, ChosenKept
<1>12. AckedIsLeaders'
  <2> SUFFICES ASSUME NEW i \in FirstIndex'..Least(LastIdx', answered')
               PROVE  TermAt(i)' = leader_log[i]
    BY <1>2 DEF AckedIsLeaders, Least
  <2>1. /\ i \in (FirstIndex - 1)..LastIdx /\ i \in (FirstIndex - 1)..committed
        /\ i \in Nat /\ i # 0 /\ i <= LastIdx
    BY <1>2, <1>3, <1>4 DEF Kept, Least
  <2>2. TermAt(i) = leader_log[i]
    BY <1>1, <2>1 DEF CommittedIsChosen, LeaderTerm
  <2> QED
    BY <1>3, <2>1, <2>2 DEF Kept
<1> QED
  BY <1>5, <1>6, <1>7, <1>8, <1>9, <1>10, <1>11, <1>12 DEF NodeInv

\* A heartbeat commits what the leader has an answer for.
LEMMA HeartbeatStep ==
    ASSUME NodeInv, Heartbeat
    PROVE  NodeInv'
<1>1. /\ GroupInv /\ NodeTypes /\ LogShape /\ MirrorsOne /\ Watermarks /\ RecordPlaces
      /\ FollowerNoPanic /\ CommittedIsChosen /\ AckedIsLeaders
  BY DEF NodeInv
<1>2. PICK c \in (committed + 1)..Least(acked, leader_commit) :
         /\ panics' = CommitToChecks("commit_to_of_heartbeat", LastIdx, c)
         /\ committed' = CommitTo(c)
  BY DEF Heartbeat
<1>3. UNCHANGED <<leader_log, term, leader_commit, past, answered, acked, store, unstable,
                  snap, persisted, applied, records>>
  BY DEF Heartbeat, groupVars, ackVars
<1>4. /\ Kept /\ LogsGrow
  BY <1>1, <1>3, KeptView, LogsStay
<1>5. /\ FirstIndex \in Nat \ {0} /\ LastIdx \in Nat
      /\ FirstIndex - 1 = IF snap # NoSnap THEN snap.index ELSE store.meta.index
      /\ snap.index \in Nat /\ store.meta.index \in Nat
  BY <1>1, Places
<1>6. /\ committed \in Nat /\ answered \in Nat /\ acked \in Nat /\ leader_commit \in Nat
      /\ acked <= answered
  <2>1. leader_commit \in Nat
    BY <1>1 DEF GroupInv, GroupTypes
  <2>2. committed \in Nat /\ answered \in Nat /\ acked \in Nat
    BY <1>1 DEF NodeTypes
  <2> QED
    BY <1>1, <2>1, <2>2 DEF Watermarks
<1>7. /\ c \in Nat /\ committed < c /\ c <= leader_commit /\ c <= answered
      /\ committed' = c
  BY <1>2, <1>6 DEF Least, CommitTo
<1>8. Alive' => c <= LastIdx
  BY <1>2, <1>6, <1>7 DEF Alive, CommitToChecks, Check
<1>9. GroupInv'
  BY <1>1, <1>3 DEF GroupInv, GroupTypes, TermsOrdered, LogsMatch, Logs
<1>10. NodeTypes' /\ LogShape'
  BY <1>1, <1>3, <1>7 DEF NodeTypes, LogShape
<1>11. MirrorsOne'
  BY <1>1, <1>4, <1>9, MirrorsKept
<1>12. /\ store.meta.index <= c /\ snap.index <= c
  BY <1>1, <1>5, <1>6, <1>7 DEF Watermarks
<1>13. Watermarks'
  <2>1. Alive' => committed' <= LastIdx'
    BY <1>4, <1>7, <1>8 DEF Kept
  <2> QED
    BY <1>1, <1>3, <1>7, <1>12, <2>1 DEF Watermarks
<1>14. RecordPlaces'
  <2>1. ASSUME NEW j \in DOMAIN records
        PROVE  records[j].snap <= c
    <3>1. records[j].snap \in Nat
      BY <1>1 DEF NodeTypes, IsRecord
    <3>2. records[j].snap <= committed
      BY <1>1 DEF RecordPlaces
    <3> QED
      BY <1>6, <1>7, <3>1, <3>2
  <2> QED
    BY <1>1, <1>3, <1>7, <2>1 DEF RecordPlaces
<1>15. FollowerNoPanic'
  BY <1>2 DEF FollowerNoPanic, CommitToChecks, Check
<1>16. CommittedIsChosen'
  <2>1. ASSUME NEW i \in (FirstIndex - 1)..c, i <= LastIdx
        PROVE  TermAt(i)' = LeaderTerm(i)
    <3>1. i \in (FirstIndex - 1)..LastIdx /\ i \in Nat /\ i <= c
      BY <1>5, <1>7, <2>1
    <3>2. CASE i = FirstIndex - 1
      <4>1. i \in (FirstIndex - 1)..committed
        BY <1>1, <1>5, <1>6, <3>1, <3>2 DEF Watermarks
      <4> QED
        BY <1>1, <1>4, <2>1, <3>1, <4>1 DEF CommittedIsChosen, Kept
    <3>3. CASE i # FirstIndex - 1
      <4>1. i \in FirstIndex..Least(LastIdx, answered) /\ i # 0
        BY <1>5, <1>6, <1>7, <3>1, <3>3 DEF Least
      <4> QED
        BY <1>1, <1>4, <3>1, <4>1 DEF AckedIsLeaders, Kept, LeaderTerm
    <3> QED
      BY <3>2, <3>3
  <2> QED
    BY <1>3, <1>4, <1>7, <2>1 DEF CommittedIsChosen, LeaderTerm, Kept
<1>17. AckedIsLeaders'
  <2>1. \A i \in 1..answered : leader_log'[i] = leader_log[i]
    BY <1>3
  <2> QED
    BY <1>1, <1>3, <1>4, <2>1, AckedKept
<1> QED
  BY <1>9, <1>10, <1>11, <1>13, <1>14, <1>15, <1>16, <1>17 DEF NodeInv

\* A snapshot whose entry the log has: the commit index moves to it.
LEMMA RestoreKnown ==
    ASSUME NodeInv, NEW i \in 1..leader_commit, Restore(i),
           TermAt(i) = leader_log[i]
    PROVE  NodeInv'
<1>1. /\ GroupInv /\ NodeTypes /\ LogShape /\ MirrorsOne /\ Watermarks /\ RecordPlaces
      /\ CommittedIsChosen /\ AckedIsLeaders
  BY DEF NodeInv
<1>2. /\ Alive /\ i >= committed
      /\ panics' = CommitToChecks("commit_to_of_snapshot", LastIdx, i)
      /\ committed' = CommitTo(i)
      /\ answered' = Max({answered, i})
      /\ UNCHANGED <<leader_log, term, leader_commit, past, acked, store, unstable, snap,
                     persisted, applied, records>>
  BY DEF Restore, MatchTerm, groupVars
<1>3. /\ Kept /\ LogsGrow
  BY <1>1, <1>2, KeptView, LogsStay
<1>4. /\ i \in Nat \ {0} /\ i <= leader_commit /\ leader_commit \in Nat
      /\ Len(leader_log) \in Nat /\ leader_commit <= Len(leader_log)
      /\ i \in 0..Len(leader_log) /\ LeaderTerm(i) = leader_log[i]
  BY <1>1 DEF GroupInv, GroupTypes, LeaderTerm
<1>5. committed \in Nat /\ answered \in Nat /\ acked \in Nat
      /\ acked <= answered /\ answered <= Len(leader_log)
  BY <1>1 DEF NodeTypes, Watermarks
<1>6. i \in (FirstIndex - 1)..LastIdx
  BY <1>1, <1>2, <1>4, MatchInLog
<1>7. \A j \in (FirstIndex - 1)..i : TermAt(j) = LeaderTerm(j)
  BY <1>1, <1>4, <1>6, AgreeUpTo
<1>8. FirstIndex \in Nat \ {0} /\ LastIdx \in Nat /\ i <= LastIdx
      /\ snap.index \in Nat /\ store.meta.index \in Nat
  <2>1. FirstIndex \in Nat \ {0} /\ LastIdx \in Nat
        /\ snap.index \in Nat /\ store.meta.index \in Nat
    BY <1>1, Places
  <2> QED
    BY <1>4, <1>6, <2>1
<1>9. committed' = i
  BY <1>2, <1>4, <1>5 DEF CommitTo
<1>10. panics' = {}
  BY <1>2, <1>8 DEF CommitToChecks, Check
<1>11. /\ answered' \in Nat /\ answered <= answered' /\ answered' <= Len(leader_log)
       /\ answered' = answered \/ answered' = i
  BY <1>2, <1>4, <1>5, MaxOfTwo
<1>12. GroupInv'
  BY <1>1, <1>2 DEF GroupInv, GroupTypes, TermsOrdered, LogsMatch, Logs
<1>13. NodeTypes' /\ LogShape'
  BY <1>1, <1>2, <1>4, <1>9, <1>11 DEF NodeTypes, LogShape
<1>14. MirrorsOne'
  BY <1>1, <1>3, <1>12, MirrorsKept
<1>15. Watermarks'
  <2>1. store.meta.index <= i /\ snap.index <= i
    BY <1>1, <1>2, <1>4, <1>5, <1>8 DEF Watermarks
  <2>2. acked <= answered'
    BY <1>5, <1>11
  <2>3. i <= LastIdx'
    BY <1>3, <1>8 DEF Kept
  <2> QED
    BY <1>1, <1>2, <1>9, <1>11, <2>1, <2>2, <2>3 DEF Watermarks
<1>16. RecordPlaces'
  <2>1. ASSUME NEW j \in DOMAIN records
        PROVE  records[j].snap <= i /\ records[j].ack <= answered'
    <3>1. records[j].snap \in Nat /\ records[j].ack \in Nat
      BY <1>1 DEF NodeTypes, IsRecord
    <3>2. records[j].snap <= committed /\ records[j].ack <= answered
      BY <1>1 DEF RecordPlaces
    <3> QED
      BY <1>2, <1>4, <1>5, <1>11, <3>1, <3>2
  <2> QED
    BY <1>1, <1>2, <1>9, <2>1 DEF RecordPlaces
<1>17. FollowerNoPanic'
  BY <1>10 DEF FollowerNoPanic
<1>18. CommittedIsChosen'
  <2>1. ASSUME NEW j \in (FirstIndex - 1)..i
        PROVE  TermAt(j)' = LeaderTerm(j)
    <3>1. j \in (FirstIndex - 1)..LastIdx
      BY <1>8
    <3> QED
      BY <1>3, <1>7, <3>1 DEF Kept
  <2> QED
    BY <1>2, <1>3, <1>4, <1>9, <2>1 DEF CommittedIsChosen, LeaderTerm, Kept
<1>19. AckedIsLeaders'
  <2> SUFFICES ASSUME NEW j \in FirstIndex'..Least(LastIdx', answered')
               PROVE  TermAt(j)' = leader_log[j]
    BY <1>2 DEF AckedIsLeaders, Least
  <2>1. /\ j \in Nat /\ j # 0 /\ j \in (FirstIndex - 1)..LastIdx
        /\ j >= FirstIndex /\ j <= LastIdx /\ j <= answered'
    BY <1>3, <1>8, <1>11 DEF Kept, Least
  <2>2. CASE j <= i
    <3>1. j \in (FirstIndex - 1)..i
      BY <1>4, <1>8, <2>1, <2>2
    <3>2. TermAt(j) = LeaderTerm(j)
      BY <1>7, <3>1
    <3> QED
      BY <1>3, <2>1, <3>2 DEF LeaderTerm, Kept
  <2>3. CASE j > i
    <3>1. answered' = answered
      BY <1>4, <1>11, <2>1, <2>3
    <3>2. j \in FirstIndex..Least(LastIdx, answered)
      BY <1>5, <1>8, <2>1, <3>1 DEF Least
    <3> QED
      BY <1>1, <1>3, <2>1, <3>2 DEF AckedIsLeaders, Kept
  <2> QED
    BY <1>4, <2>1, <2>2, <2>3
<1> QED
  BY <1>12, <1>13, <1>14, <1>15, <1>16, <1>17, <1>18, <1>19 DEF NodeInv

\* A snapshot that replaces the log.  It lies beyond the commit index: there the log has
\* the leader's entry.
LEMMA RestoreReplaces ==
    ASSUME NodeInv, NEW i \in 1..leader_commit, Restore(i),
           TermAt(i) # leader_log[i]
    PROVE  NodeInv'
<1>1. /\ GroupInv /\ NodeTypes /\ LogShape /\ MirrorsOne /\ Watermarks /\ RecordPlaces
      /\ CommittedIsChosen /\ AckedIsLeaders
  BY DEF NodeInv
<1>2. /\ Alive /\ i >= committed
      /\ panics' = Check("restore_committed", i >= committed)
      /\ committed' = i
      /\ persisted' = PersistedOnRestore
      /\ unstable' = EmptyAt(i + 1)
      /\ snap' = [index |-> i, term |-> leader_log[i]]
      /\ answered' = Max({answered, i})
      /\ UNCHANGED <<leader_log, term, leader_commit, past, acked, store, applied, records>>
  BY DEF Restore, MatchTerm, groupVars
<1>3. /\ i \in Nat \ {0} /\ i <= leader_commit /\ leader_commit \in Nat
      /\ Len(leader_log) \in Nat /\ leader_commit <= Len(leader_log)
      /\ i \in 1..Len(leader_log) /\ LeaderTerm(i) = leader_log[i]
  BY <1>1 DEF GroupInv, GroupTypes, LeaderTerm
<1>4. committed \in Nat /\ answered \in Nat /\ acked \in Nat /\ persisted \in Nat
      /\ acked <= answered /\ answered <= Len(leader_log)
  BY <1>1 DEF NodeTypes, Watermarks
<1>5. /\ IsSegment(unstable') /\ unstable'.lo = i + 1
      /\ snap' # NoSnap /\ snap'.index = i /\ snap' \in [index : Nat, term : Nat]
      /\ LogShape'
      /\ FirstIndex' = i + 1 /\ LastIdx' = i
      /\ TermAt(i)' = leader_log[i]
  BY <1>1, <1>2, <1>3, RestoreView
<1>6. /\ FirstIndex \in Nat \ {0} /\ LastIdx \in Nat
      /\ FirstIndex - 1 = IF snap # NoSnap THEN snap.index ELSE store.meta.index
      /\ snap.index \in Nat /\ store.meta.index \in Nat
  BY <1>1, Places
<1>7. store.meta.index <= committed /\ snap.index <= committed /\ committed <= LastIdx
  BY <1>1, <1>2 DEF Watermarks
<1>8. i > committed
  <2> SUFFICES ASSUME i = committed
               PROVE  FALSE
    BY <1>2, <1>3, <1>4
  <2>1. i \in (FirstIndex - 1)..committed /\ i <= LastIdx
    BY <1>3, <1>4, <1>6, <1>7
  <2>2. TermAt(i) = LeaderTerm(i)
    BY <1>1, <2>1 DEF CommittedIsChosen
  <2> QED
    BY <1>3, <2>2
<1>9. /\ answered' \in Nat /\ answered <= answered' /\ answered' <= Len(leader_log)
  BY <1>2, <1>3, <1>4, MaxOfTwo
<1>10. persisted' \in Nat /\ persisted' <= committed
  BY <1>2, <1>4 DEF PersistedOnRestore, Least
<1>11. GroupInv'
  BY <1>1, <1>2 DEF GroupInv, GroupTypes, TermsOrdered, LogsMatch, Logs
<1>12. NodeTypes'
  <2>1. NodeTypes /\ committed' \in Nat
    BY <1>1, <1>2, <1>3
  <2> QED
    BY <1>2, <1>5, <1>9, <1>10, <2>1 DEF NodeTypes
<1>13. MirrorsOne'
  <2>1. leader_log \in Logs'
    BY <1>2 DEF Logs
  <2>2. ASSUME NEW j \in (FirstIndex' - 1)..LastIdx'
        PROVE  TermAt(j)' = TermIn(leader_log, j)
    <3>1. j = i
      BY <1>3, <1>5
    <3> QED
      BY <1>3, <1>5, <3>1 DEF TermIn
  <2>3. LastIdx' <= Len(leader_log)
    BY <1>3, <1>5
  <2> QED
    BY <2>1, <2>2, <2>3 DEF MirrorsOne, Mirrors
<1>14. Watermarks'
  <2>1. i <= LastIdx' /\ store.meta.index < i /\ persisted' <= i
    BY <1>3, <1>4, <1>5, <1>6, <1>7, <1>8, <1>10
  <2>2. acked <= answered' /\ answered' <= Len(leader_log)
    BY <1>4, <1>9
  <2>3. store.meta.index <= i /\ i <= i
    BY <1>3, <1>6, <2>1
  <2> QED
    BY <1>2, <1>5, <2>1, <2>2, <2>3 DEF Watermarks
<1>15. RecordPlaces'
  <2>1. ASSUME NEW j \in DOMAIN records
        PROVE  records[j].snap <= i /\ records[j].snap < i + 1 /\ records[j].ack <= answered'
    <3>1. records[j].snap \in Nat /\ records[j].ack \in Nat
      BY <1>1 DEF NodeTypes, IsRecord
    <3>2. records[j].snap <= committed /\ records[j].ack <= answered
      BY <1>1 DEF RecordPlaces
    <3> QED
      BY <1>2, <1>3, <1>4, <1>9, <3>1, <3>2
  <2> QED
    BY <1>2, <1>5, <2>1 DEF RecordPlaces
<1>16. FollowerNoPanic'
  BY <1>2 DEF FollowerNoPanic, Check
<1>17. CommittedIsChosen'
  <2>1. ASSUME NEW j \in (FirstIndex' - 1)..committed'
        PROVE  TermAt(j)' = LeaderTerm(j)
    <3>1. j = i
      BY <1>2, <1>3, <1>5
    <3> QED
      BY <1>3, <1>5, <3>1
  <2> QED
    BY <1>2, <1>3, <2>1 DEF CommittedIsChosen, LeaderTerm
<1>18. AckedIsLeaders'
  <2>1. FirstIndex'..Least(LastIdx', answered') = {}
    BY <1>3, <1>5, <1>9 DEF Least
  <2> QED
    BY <2>1 DEF AckedIsLeaders, Least
<1> QED
  BY <1>5, <1>11, <1>12, <1>13, <1>14, <1>15, <1>16, <1>17, <1>18 DEF NodeInv

\* A snapshot.
LEMMA RestoreStep ==
    ASSUME NodeInv, NEW i \in 1..leader_commit, Restore(i)
    PROVE  NodeInv'
BY RestoreKnown, RestoreReplaces

-----------------------------------------------------------------------------
\* The Ready pipeline

\* The record of the Ready that is written.
WrittenRecord ==
    [snap  |-> snap.index,
     image |-> store'.log,
     ack   |-> answered,
     index |-> IF IsEmpty(unstable) THEN 0 ELSE unstable.hi,
     term  |-> IF IsEmpty(unstable) THEN 0 ELSE unstable.ent[unstable.hi].term]

\* What Stabilize does, for its parts to be used one by one.
LEMMA StabilizeParts ==
    ASSUME Stabilize
    PROVE  /\ Alive
           /\ panics' = Check("ready_has_next_entries",
                              snap = NoSnap \/ NextTo(committed, persisted) <= snap.index)
                        \cup Check("apply_snapshot_out_of_date",
                              snap = NoSnap \/ store.log.lo <= snap.index)
                        \cup Check("append", CanAppend(Restored, unstable))
           /\ store' = StorageAppend(Restored, unstable)
           /\ records' = Append(records, WrittenRecord)
           /\ snap' = NoSnap
           /\ unstable' = StableEntries(unstable)
           /\ UNCHANGED <<leader_log, term, leader_commit, past, answered, acked,
                          committed, persisted, applied>>
BY DEF Stabilize, WrittenRecord, groupVars, ackVars

\* A Ready is had and written.
LEMMA StabilizeStep ==
    ASSUME NodeInv, ReadySnapshot = FALSE, Stabilize
    PROVE  NodeInv'
<1>1. /\ GroupInv /\ NodeTypes /\ LogShape /\ MirrorsOne /\ Watermarks /\ RecordPlaces
      /\ CommittedIsChosen /\ AckedIsLeaders
  BY DEF NodeInv
<1>2. /\ Alive
      /\ panics' = Check("ready_has_next_entries",
                         snap = NoSnap \/ NextTo(committed, persisted) <= snap.index)
                   \cup Check("apply_snapshot_out_of_date",
                         snap = NoSnap \/ store.log.lo <= snap.index)
                   \cup Check("append", CanAppend(Restored, unstable))
      /\ store' = StorageAppend(Restored, unstable)
      /\ records' = Append(records, WrittenRecord)
      /\ snap' = NoSnap
      /\ unstable' = StableEntries(unstable)
      /\ UNCHANGED <<leader_log, term, leader_commit, past, answered, acked,
                     committed, persisted, applied>>
  BY StabilizeParts
<1>3. /\ store' = [log |-> store'.log, meta |-> store'.meta]
      /\ IsSegment(store'.log) /\ store'.meta \in [index : Nat, term : Nat]
      /\ IsSegment(unstable') /\ LogShape'
      /\ CanAppend(Restored, unstable)
      /\ unstable'.lo = LastIdx + 1
      /\ store'.meta.index = FirstIndex - 1
      /\ FirstIndex' = FirstIndex /\ LastIdx' = LastIdx
      /\ \A i \in (FirstIndex - 1)..LastIdx : TermAt(i)' = TermAt(i)
  BY <1>1, <1>2, StabilizeView
<1>4. /\ FirstIndex \in Nat \ {0} /\ LastIdx \in Nat
      /\ unstable.lo \in Nat \ {0} /\ unstable.hi = LastIdx
      /\ unstable.lo <= LastIdx + 1
      /\ FirstIndex - 1 = IF snap # NoSnap THEN snap.index ELSE store.meta.index
      /\ snap.index \in Nat /\ store.meta.index \in Nat
      /\ store.log.lo = store.meta.index + 1
  BY <1>1, Places DEF LogShape
<1>5. /\ committed \in Nat /\ persisted \in Nat /\ answered \in Nat /\ acked \in Nat
      /\ IsSegment(unstable)
  BY <1>1 DEF NodeTypes
<1>6. Kept /\ LogsGrow
  BY <1>1, <1>2, <1>3, LogsStay DEF Kept
<1>7. snap' = NoSnap /\ NoSnap \in [index : Nat, term : Nat] /\ NoSnap.index = 0
  BY <1>2 DEF NoSnap
<1> DEFINE r == WrittenRecord
<1>8. /\ r = [snap |-> r.snap, image |-> r.image, ack |-> r.ack,
              index |-> r.index, term |-> r.term]
      /\ r.snap = snap.index /\ r.ack = answered /\ r.image = store'.log
      /\ r.index = IF IsEmpty(unstable) THEN 0 ELSE unstable.hi
      /\ r.term = IF IsEmpty(unstable) THEN 0 ELSE unstable.ent[unstable.hi].term
  BY DEF WrittenRecord
<1>9. r.index \in Nat /\ r.term \in Nat
  <2>1. CASE IsEmpty(unstable)
    BY <1>8, <2>1
  <2>2. CASE ~IsEmpty(unstable)
    <3>1. unstable.ent \in [unstable.lo..unstable.hi -> Entry]
          /\ unstable.hi \in unstable.lo..unstable.hi
      BY <1>4, <1>5, <2>2 DEF IsSegment, IsEmpty
    <3>2. unstable.ent[unstable.hi].term \in Nat
      BY <3>1 DEF Entry
    <3> QED
      BY <1>4, <1>8, <2>2, <3>2
  <2> QED
    BY <2>1, <2>2
<1>10. IsRecord(r)
  BY <1>3, <1>4, <1>5, <1>8, <1>9 DEF IsRecord
<1>11. records' = Append(records, r)
  BY <1>2
<1> HIDE DEF r
<1>12. /\ records \in Seq(Elements(records))
       /\ \A j \in DOMAIN records : IsRecord(records[j])
       /\ DOMAIN records = 1..Len(records) /\ Len(records) \in Nat
  BY <1>1 DEF NodeTypes
<1>13. /\ Len(records') = Len(records) + 1
       /\ DOMAIN records' = 1..(Len(records) + 1)
       /\ \A j \in DOMAIN records : records'[j] = records[j]
       /\ records'[Len(records) + 1] = r
  BY <1>11, <1>12
<1>14. \A j \in DOMAIN records' : j \in DOMAIN records \/ records'[j] = r
  BY <1>12, <1>13
<1>15. records' \in Seq(Elements(records'))
  <2> DEFINE S == Elements(records')
  <2>1. r \in S /\ \A j \in DOMAIN records : records[j] \in S
    BY <1>12, <1>13 DEF Elements
  <2> HIDE DEF S
  <2>2. records \in Seq(S)
    <3>1. records \in [1..Len(records) -> S]
      BY <1>12, <2>1
    <3> QED
      BY <1>12, <3>1
  <2>3. records' \in Seq(S)
    BY <1>11, <2>1, <2>2
  <2> QED
    BY <2>3 DEF S
<1>16. NodeTypes'
  <2>1. \A j \in DOMAIN records' : IsRecord(records'[j])
    BY <1>10, <1>12, <1>13, <1>14
  <2> QED
    BY <1>1, <1>2, <1>3, <1>7, <1>15, <2>1 DEF NodeTypes
<1>17. GroupInv'
  BY <1>1, <1>2 DEF GroupInv, GroupTypes, TermsOrdered, LogsMatch, Logs
<1>18. MirrorsOne'
  BY <1>1, <1>6, <1>17, MirrorsKept
<1>19. Watermarks'
  <2>1. store'.meta.index <= committed
    BY <1>1, <1>3, <1>4 DEF Watermarks
  <2>2. Alive' => committed' <= LastIdx'
    BY <1>1, <1>2, <1>3 DEF Watermarks
  <2>3. snap'.index <= committed'
    BY <1>2, <1>5, <1>7
  <2> QED
    BY <1>1, <1>2, <2>1, <2>2, <2>3 DEF Watermarks
<1>20. snap.index <= committed /\ snap.index < LastIdx + 1
  <2>1. snap.index <= committed
    BY <1>1 DEF Watermarks
  <2>2. CASE snap = NoSnap
    BY <1>4, <1>7, <2>1, <2>2
  <2>3. CASE snap # NoSnap
    BY <1>1, <1>4, <2>1, <2>3 DEF LogShape
  <2> QED
    BY <2>2, <2>3
<1>21. RecordPlaces'
  <2>1. ASSUME NEW j \in DOMAIN records
        PROVE  /\ records[j].ack <= answered /\ records[j].snap <= committed
               /\ records[j].snap < LastIdx + 1
    <3>1. records[j].snap \in Nat
      BY <1>12 DEF IsRecord
    <3>2. records[j].ack <= answered /\ records[j].snap <= committed
          /\ records[j].snap < unstable.lo
      BY <1>1 DEF RecordPlaces
    <3> QED
      BY <1>4, <3>1, <3>2
  <2>2. r.ack <= answered /\ r.snap <= committed /\ r.snap < LastIdx + 1
    BY <1>5, <1>8, <1>20
  <2>3. \A j \in DOMAIN records' :
           /\ records'[j].ack <= answered /\ records'[j].snap <= committed
           /\ records'[j].snap < LastIdx + 1
    BY <1>13, <1>14, <2>1, <2>2
  <2> QED
    BY <1>2, <1>3, <2>3 DEF RecordPlaces
<1>22. FollowerNoPanic'
  <2>1. snap = NoSnap \/ NextTo(committed, persisted) <= snap.index
    BY <1>1, <1>4, <1>5 DEF Watermarks, NextTo
  <2>2. snap = NoSnap \/ store.log.lo <= snap.index
    BY <1>1, <1>4 DEF Watermarks
  <2>3. panics' = {}
    BY <1>2, <1>3, <2>1, <2>2 DEF Check
  <2> QED
    BY <2>3 DEF FollowerNoPanic
<1>23. CommittedIsChosen'
  <2>1. leader_commit' \in Nat /\ leader_commit <= leader_commit'
    BY <1>1, <1>2 DEF GroupInv, GroupTypes
  <2>2. \A i \in 1..leader_commit : leader_log'[i] = leader_log[i]
    BY <1>2
  <2> QED
    BY <1>1, <1>2, <1>6, <2>1, <2>2, ChosenKept
<1>24. AckedIsLeaders'
  <2>1. \A i \in 1..answered : leader_log'[i] = leader_log[i]
    BY <1>2
  <2> QED
    BY <1>1, <1>2, <1>6, <2>1, AckedKept
<1> QED
  BY <1>3, <1>16, <1>17, <1>18, <1>19, <1>21, <1>22, <1>23, <1>24 DEF NodeInv

\* The reports of on_persist_ready(k): the last snapshot among the first k records, its
\* index, and the last entry from there on.
SnapAt(k) == Max({0} \cup {j \in 1..k : records[j].snap # 0})
SnapOf(k) == IF SnapAt(k) = 0 THEN 0 ELSE records[SnapAt(k)].snap
EntAt(k) == Max({0} \cup {j \in 1..k : j >= SnapAt(k) /\ records[j].index # 0})
PersistedSnap(k) == Max({persisted, SnapOf(k)})

\* What OnPersistReady does, in these terms.
LEMMA PersistParts ==
    ASSUME NEW k, OnPersistReady(k)
    PROVE  /\ Alive
           /\ panics' = Check("maybe_persist_snap",
                              SnapOf(k) <= persisted
                              \/ (SnapOf(k) <= committed /\ SnapOf(k) < unstable.lo))
           /\ persisted' = IF EntAt(k) = 0 THEN PersistedSnap(k)
                           ELSE MaybePersistEntries(records[EntAt(k)].index,
                                                    records[EntAt(k)].term, PersistedSnap(k))
           /\ acked' = Max({acked, records[k].ack})
           /\ records' = SubSeq(records, k + 1, Len(records))
           /\ UNCHANGED <<leader_log, term, leader_commit, past, answered, store, unstable,
                          snap, committed, applied>>
BY DEF OnPersistReady, SnapAt, SnapOf, EntAt, PersistedSnap, groupVars

\* Which records are reported.
LEMMA Reported ==
    ASSUME NodeTypes, NEW k \in 1..Len(records)
    PROVE  /\ SnapAt(k) \in 0..k
           /\ SnapAt(k) # 0 => records[SnapAt(k)].snap # 0
           /\ \A j \in 1..k : records[j].snap # 0 => j <= SnapAt(k)
           /\ EntAt(k) \in 0..k
           /\ EntAt(k) # 0 => EntAt(k) >= SnapAt(k) /\ records[EntAt(k)].index # 0
           /\ \A j \in 1..k : j >= SnapAt(k) /\ records[j].index # 0 => j <= EntAt(k)
<1>1. k \in Nat /\ Len(records) \in Nat
  BY DEF NodeTypes
<1> DEFINE S == {0} \cup {j \in 1..k : records[j].snap # 0}
<1>2. S \in SUBSET (0..k) /\ 0 \in S
  BY <1>1
<1>3. SnapAt(k) = Max(S)
  BY DEF SnapAt
<1>4. /\ \A x : x \in S => x = 0 \/ (x \in 1..k /\ records[x].snap # 0)
      /\ \A j \in 1..k : records[j].snap # 0 => j \in S
  OBVIOUS
<1> HIDE DEF S
<1>5. SnapAt(k) \in S /\ \A j \in S : j <= SnapAt(k)
  BY <1>1, <1>2, <1>3, MaxOfSet
<1> DEFINE T == {0} \cup {j \in 1..k : j >= SnapAt(k) /\ records[j].index # 0}
<1>6. T \in SUBSET (0..k) /\ 0 \in T
  BY <1>1
<1>7. EntAt(k) = Max(T)
  BY DEF EntAt
<1>8. /\ \A x : x \in T => x = 0 \/ (x \in 1..k /\ x >= SnapAt(k) /\ records[x].index # 0)
      /\ \A j \in 1..k : j >= SnapAt(k) /\ records[j].index # 0 => j \in T
  OBVIOUS
<1> HIDE DEF T
<1>9. EntAt(k) \in T /\ \A j \in T : j <= EntAt(k)
  BY <1>1, <1>6, <1>7, MaxOfSet
<1> QED
  BY <1>2, <1>4, <1>5, <1>6, <1>8, <1>9

\* The reported snapshot is nowhere ahead of the node.
LEMMA ReportedSnap ==
    ASSUME NodeTypes, LogShape, RecordPlaces, NEW k \in 1..Len(records)
    PROVE  /\ SnapOf(k) \in Nat /\ SnapOf(k) <= committed /\ SnapOf(k) < unstable.lo
           /\ snap # NoSnap => SnapOf(k) <= snap.index
<1>1. /\ SnapAt(k) \in 0..k /\ k \in Nat /\ DOMAIN records = 1..Len(records)
      /\ Len(records) \in Nat /\ committed \in Nat
      /\ \A j \in DOMAIN records : IsRecord(records[j])
  BY Reported DEF NodeTypes
<1>2. unstable.lo \in Nat \ {0} /\ snap.index \in Nat
  BY Places
<1>3. CASE SnapAt(k) = 0
  BY <1>1, <1>2, <1>3 DEF SnapOf
<1>4. CASE SnapAt(k) # 0
  <2>1. SnapAt(k) \in DOMAIN records /\ SnapOf(k) = records[SnapAt(k)].snap
    BY <1>1, <1>4 DEF SnapOf
  <2>2. records[SnapAt(k)].snap \in Nat
    BY <1>1, <2>1 DEF IsRecord
  <2> QED
    BY <2>1, <2>2 DEF RecordPlaces
<1> QED
  BY <1>3, <1>4

\* What stays of a sequence without its first k elements.
LEMMA TailOf ==
    ASSUME NEW S, NEW s \in Seq(S), NEW k \in 1..Len(s)
    PROVE  LET t == SubSeq(s, k + 1, Len(s))
           IN  /\ t \in Seq(S) /\ Len(t) = Len(s) - k
               /\ \A j \in 1..(Len(s) - k) : j + k \in 1..Len(s) /\ t[j] = s[j + k]
<1>1. k \in Nat /\ Len(s) \in Nat /\ k <= Len(s) /\ k >= 1
  OBVIOUS
<1> DEFINE t == SubSeq(s, k + 1, Len(s))
<1>2. k + 1 \in Int /\ Len(s) \in Int /\ \A j \in (k + 1)..Len(s) : s[j] \in S
  BY <1>1
<1>3. /\ t \in Seq(S)
      /\ Len(t) = IF k + 1 <= Len(s) THEN Len(s) - (k + 1) + 1 ELSE 0
      /\ \A j \in 1..(Len(s) - (k + 1) + 1) : t[j] = s[(k + 1) + j - 1]
  BY <1>2, SubSeqProperties
<1> HIDE DEF t
<1>4. Len(t) = Len(s) - k /\ Len(s) - (k + 1) + 1 = Len(s) - k
  BY <1>1, <1>3
<1>5. ASSUME NEW j \in 1..(Len(s) - k)
      PROVE  j + k \in 1..Len(s) /\ t[j] = s[j + k]
  <2>1. (k + 1) + j - 1 = j + k /\ j + k \in 1..Len(s)
    BY <1>1
  <2> QED
    BY <1>3, <1>4, <2>1
<1> QED
  BY <1>3, <1>4, <1>5 DEF t

\* A sequence is one of its own elements.
LEMMA OwnElements ==
    ASSUME NEW S, NEW s \in Seq(S)
    PROVE  s \in Seq(Elements(s))
<1> DEFINE R == Elements(s)
<1>1. DOMAIN s = 1..Len(s) /\ Len(s) \in Nat /\ s = [j \in 1..Len(s) |-> s[j]]
  OBVIOUS
<1>2. \A j \in 1..Len(s) : s[j] \in R
  BY <1>1 DEF Elements
<1> HIDE DEF R
<1>3. s \in Seq(R)
  BY <1>1, <1>2
<1> QED
  BY <1>3 DEF R

\* The records that stay when the first k are reported.
LEMMA RecordsLeft ==
    ASSUME NodeTypes, NEW k \in 1..Len(records),
           records' = SubSeq(records, k + 1, Len(records))
    PROVE  /\ Len(records') = Len(records) - k
           /\ DOMAIN records' = 1..(Len(records) - k)
           /\ \A j \in DOMAIN records' :
                 j + k \in DOMAIN records /\ records'[j] = records[j + k]
           /\ records' \in Seq(Elements(records'))
<1> DEFINE S == Elements(records)
<1>1. records \in Seq(S) /\ DOMAIN records = 1..Len(records)
  BY DEF NodeTypes
<1> HIDE DEF S
<1>2. /\ SubSeq(records, k + 1, Len(records)) \in Seq(S)
      /\ Len(SubSeq(records, k + 1, Len(records))) = Len(records) - k
      /\ \A j \in 1..(Len(records) - k) :
            /\ j + k \in 1..Len(records)
            /\ SubSeq(records, k + 1, Len(records))[j] = records[j + k]
  BY <1>1, TailOf
<1>3. /\ records' \in Seq(S) /\ Len(records') = Len(records) - k
      /\ \A j \in 1..(Len(records) - k) :
            j + k \in 1..Len(records) /\ records'[j] = records[j + k]
  BY <1>2
<1>4. DOMAIN records' = 1..Len(records')
  BY <1>3
<1>5. records' \in Seq(Elements(records'))
  <2>1. records' \in Seq(S)
    BY <1>3
  <2> QED
    BY <2>1, OwnElements
<1> QED
  BY <1>1, <1>3, <1>4, <1>5

\* The persisted index after a report.
LEMMA PersistedBounds ==
    ASSUME NodeTypes, LogShape, Watermarks, RecordPlaces, NEW k \in 1..Len(records),
           OnPersistReady(k)
    PROVE  /\ persisted' \in Nat
           /\ snap # NoSnap => persisted' <= snap.index
<1>1. persisted' = IF EntAt(k) = 0 THEN PersistedSnap(k)
                   ELSE MaybePersistEntries(records[EntAt(k)].index,
                                            records[EntAt(k)].term, PersistedSnap(k))
  BY PersistParts
<1>2. /\ SnapOf(k) \in Nat /\ persisted \in Nat
      /\ snap # NoSnap => SnapOf(k) <= snap.index /\ persisted <= snap.index
  BY ReportedSnap DEF NodeTypes, Watermarks
<1>3. /\ PersistedSnap(k) \in Nat
      /\ PersistedSnap(k) = persisted \/ PersistedSnap(k) = SnapOf(k)
  BY <1>2, MaxOfTwo DEF PersistedSnap
<1>4. CASE EntAt(k) = 0
  BY <1>1, <1>2, <1>3, <1>4
<1>5. CASE EntAt(k) # 0
  <2>1. EntAt(k) \in DOMAIN records
    BY <1>5, Reported DEF NodeTypes
  <2>2. records[EntAt(k)].index \in Nat
    BY <2>1 DEF NodeTypes, IsRecord
  <2>3. snap.index \in Nat
    BY Places
  <2> QED
    BY <1>1, <1>2, <1>3, <1>5, <2>2, <2>3 DEF MaybePersistEntries
<1> QED
  BY <1>4, <1>5

\* Records are reported.
LEMMA OnPersistReadyStep ==
    ASSUME NodeInv, NEW k \in 1..Len(records), OnPersistReady(k)
    PROVE  NodeInv'
<1>1. /\ GroupInv /\ NodeTypes /\ LogShape /\ MirrorsOne /\ Watermarks /\ RecordPlaces
      /\ CommittedIsChosen /\ AckedIsLeaders
  BY DEF NodeInv
<1>2. /\ Alive
      /\ panics' = Check("maybe_persist_snap",
                         SnapOf(k) <= persisted
                         \/ (SnapOf(k) <= committed /\ SnapOf(k) < unstable.lo))
      /\ acked' = Max({acked, records[k].ack})
      /\ records' = SubSeq(records, k + 1, Len(records))
      /\ UNCHANGED <<leader_log, term, leader_commit, past, answered, store, unstable,
                     snap, committed, applied>>
  BY PersistParts
<1>3. persisted' \in Nat /\ (snap # NoSnap => persisted' <= snap.index)
  BY <1>1, PersistedBounds
<1>4. /\ DOMAIN records' = 1..(Len(records) - k)
      /\ \A j \in DOMAIN records' :
            j + k \in DOMAIN records /\ records'[j] = records[j + k]
      /\ records' \in Seq(Elements(records'))
  BY <1>1, <1>2, RecordsLeft
<1>5. SnapOf(k) <= committed /\ SnapOf(k) < unstable.lo
  BY <1>1, ReportedSnap
<1>6. panics' = {}
  BY <1>2, <1>5 DEF Check
<1>7. acked' \in Nat /\ acked' <= answered
  <2>1. k \in DOMAIN records /\ acked \in Nat /\ acked <= answered
    BY <1>1 DEF NodeTypes, Watermarks
  <2>2. records[k].ack \in Nat /\ records[k].ack <= answered
    BY <1>1, <2>1 DEF NodeTypes, IsRecord, RecordPlaces
  <2> QED
    BY <1>2, <2>1, <2>2, MaxOfTwo
<1>8. Kept /\ LogsGrow
  BY <1>1, <1>2, KeptView, LogsStay
<1>9. GroupInv'
  BY <1>1, <1>2 DEF GroupInv, GroupTypes, TermsOrdered, LogsMatch, Logs
<1>10. NodeTypes' /\ LogShape'
  <2>1. \A j \in DOMAIN records' : IsRecord(records'[j])
    BY <1>1, <1>4 DEF NodeTypes
  <2> QED
    BY <1>1, <1>2, <1>3, <1>4, <1>7, <2>1 DEF NodeTypes, LogShape
<1>11. MirrorsOne'
  BY <1>1, <1>8, <1>9, MirrorsKept
<1>12. Watermarks'
  BY <1>1, <1>2, <1>3, <1>7, <1>8 DEF Watermarks, Kept
<1>13. RecordPlaces'
  BY <1>1, <1>2, <1>4 DEF RecordPlaces
<1>14. FollowerNoPanic'
  BY <1>6 DEF FollowerNoPanic
<1>15. CommittedIsChosen'
  <2>1. leader_commit' \in Nat /\ leader_commit <= leader_commit'
    BY <1>1, <1>2 DEF GroupInv, GroupTypes
  <2>2. \A i \in 1..leader_commit : leader_log'[i] = leader_log[i]
    BY <1>2
  <2> QED
    BY <1>1, <1>2, <1>8, <2>1, <2>2, ChosenKept
<1>16. AckedIsLeaders'
  <2>1. \A i \in 1..answered : leader_log'[i] = leader_log[i]
    BY <1>2
  <2> QED
    BY <1>1, <1>2, <1>8, <2>1, AckedKept
<1> QED
  BY <1>9, <1>10, <1>11, <1>12, <1>13, <1>14, <1>15, <1>16 DEF NodeInv

\* Entries are applied.
LEMMA ApplyStep ==
    ASSUME NodeInv, NEW i \in (applied + 1)..NextTo(committed, persisted), Apply(i)
    PROVE  NodeInv'
<1>1. /\ GroupInv /\ NodeTypes /\ LogShape /\ MirrorsOne /\ Watermarks /\ RecordPlaces
      /\ CommittedIsChosen /\ AckedIsLeaders
  BY DEF NodeInv
<1>2. /\ Alive
      /\ panics' = Check("applied_to", CanApply(committed, persisted, applied, i))
      /\ applied' = AppliedTo(applied, i)
      /\ UNCHANGED <<leader_log, term, leader_commit, past, answered, acked, store,
                     unstable, snap, committed, persisted, records>>
  BY DEF Apply, groupVars, ackVars
<1>3. /\ committed \in Nat /\ persisted \in Nat /\ applied \in Nat
      /\ NextTo(committed, persisted) \in Nat
  BY <1>1 DEF NodeTypes, NextTo
<1>4. CanApply(committed, persisted, applied, i) /\ applied' \in Nat
  BY <1>2, <1>3 DEF CanApply, AppliedTo
<1>5. panics' = {} /\ panics = {}
  BY <1>2, <1>4 DEF Check, Alive
<1>6. Kept /\ LogsGrow
  BY <1>1, <1>2, KeptView, LogsStay
<1>7. GroupInv'
  BY <1>1, <1>2 DEF GroupInv, GroupTypes, TermsOrdered, LogsMatch, Logs
<1>8. NodeTypes' /\ LogShape'
  BY <1>1, <1>2, <1>4 DEF NodeTypes, LogShape
<1>9. MirrorsOne'
  BY <1>1, <1>6, <1>7, MirrorsKept
<1>10. Watermarks' /\ RecordPlaces'
  BY <1>1, <1>2, <1>5, <1>6 DEF Watermarks, RecordPlaces, Kept, Alive
<1>11. FollowerNoPanic'
  BY <1>5 DEF FollowerNoPanic
<1>12. CommittedIsChosen'
  <2>1. leader_commit' \in Nat /\ leader_commit <= leader_commit'
    BY <1>1, <1>2 DEF GroupInv, GroupTypes
  <2>2. \A j \in 1..leader_commit : leader_log'[j] = leader_log[j]
    BY <1>2
  <2> QED
    BY <1>1, <1>2, <1>6, <2>1, <2>2, ChosenKept
<1>13. AckedIsLeaders'
  <2>1. \A j \in 1..answered : leader_log'[j] = leader_log[j]
    BY <1>2
  <2> QED
    BY <1>1, <1>2, <1>6, <2>1, AckedKept
<1> QED
  BY <1>7, <1>8, <1>9, <1>10, <1>11, <1>12, <1>13 DEF NodeInv

-----------------------------------------------------------------------------
\* The invariant of the node

\* It holds initially.
LEMMA InitNode == Init => NodeInv
<1> SUFFICES ASSUME Init
             PROVE  NodeInv
  OBVIOUS
<1>1. /\ leader_log = <<1>> /\ term = 1 /\ leader_commit = 0 /\ past = {}
      /\ answered = 0 /\ acked = 0
      /\ store = [log |-> EmptyAt(1), meta |-> NoSnap]
      /\ unstable = EmptyAt(1) /\ snap = NoSnap
      /\ committed = 0 /\ persisted = 0 /\ applied = 0
      /\ records = <<>> /\ panics = {}
  BY DEF Init
<1>2. /\ IsSegment(EmptyAt(1)) /\ IsEmpty(EmptyAt(1))
      /\ EmptyAt(1).lo = 1 /\ EmptyAt(1).hi = 0
  <2>1. 1 \in Nat \ {0} /\ 1 - 1 = 0
    OBVIOUS
  <2> QED
    BY <2>1, EmptyAtType
<1>3. NoSnap \in [index : Nat, term : Nat] /\ NoSnap.index = 0 /\ NoSnap.term = 0
  BY DEF NoSnap
<1>4. /\ leader_log \in Seq(Nat) /\ Len(leader_log) = 1 /\ leader_log[1] = 1
      /\ Logs = {leader_log}
  BY <1>1 DEF Logs
<1>5. GroupInv
  <2>1. GroupTypes
    BY <1>1, <1>4 DEF GroupTypes
  <2>2. TermsOrdered
    BY <1>1, <1>4 DEF TermsOrdered
  <2>3. LogsMatch
    BY <1>4 DEF LogsMatch
  <2> QED
    BY <2>1, <2>2, <2>3 DEF GroupInv
<1>6. NodeTypes
  <2>1. records \in Seq(Elements(records)) /\ DOMAIN records = {}
    BY <1>1
  <2> QED
    BY <1>1, <1>2, <1>3, <2>1 DEF NodeTypes
<1>7. LogShape
  BY <1>1, <1>2, <1>3 DEF LogShape
<1>8. FirstIndex = 1 /\ LastIdx = 0
  BY <1>1, <1>2 DEF FirstIndex, LastIdx
<1>9. TermAt(0) = 0
  <2>1. ~Has(unstable, 0)
    BY <1>1, <1>2 DEF Has
  <2> QED
    BY <1>1, <1>3, <1>8, <2>1 DEF TermAt, StoreTerm
<1>10. MirrorsOne
  BY <1>4, <1>8, <1>9 DEF MirrorsOne, Mirrors, TermIn
<1>11. Watermarks
  BY <1>1, <1>3, <1>4, <1>8 DEF Watermarks
<1>12. RecordPlaces
  BY <1>1 DEF RecordPlaces
<1>13. FollowerNoPanic
  BY <1>1 DEF FollowerNoPanic
<1>14. CommittedIsChosen
  BY <1>1, <1>8, <1>9 DEF CommittedIsChosen, LeaderTerm
<1>15. AckedIsLeaders
  BY <1>1, <1>8 DEF AckedIsLeaders, Least
<1> QED
  BY <1>5, <1>6, <1>7, <1>10, <1>11, <1>12, <1>13, <1>14, <1>15 DEF NodeInv

\* Every step keeps it.
LEMMA NextNode ==
    ASSUME ReadySnapshot = FALSE, NodeInv, [Next]_vars
    PROVE  NodeInv'
<1>1. CASE LeaderAppend
  BY <1>1, LeaderAppendStep
<1>2. CASE LeaderCommits
  BY <1>2, LeaderCommitsStep
<1>3. CASE NewLeader
  BY <1>3, NewLeaderStep
<1>4. CASE ReceiveAppend
  BY <1>4, ReceiveAppendStep
<1>5. CASE AnswerCommitted
  BY <1>5, AnswerCommittedStep
<1>6. CASE Heartbeat
  BY <1>6, HeartbeatStep
<1>7. ASSUME NEW i \in 1..leader_commit, Restore(i)
      PROVE  NodeInv'
  BY <1>7, RestoreStep
<1>8. CASE Stabilize
  BY <1>8, StabilizeStep
<1>9. ASSUME NEW k \in 1..Len(records), OnPersistReady(k)
      PROVE  NodeInv'
  BY <1>9, OnPersistReadyStep
<1>10. ASSUME NEW i \in (applied + 1)..NextTo(committed, persisted), Apply(i)
       PROVE  NodeInv'
  BY <1>10, ApplyStep
<1>11. CASE UNCHANGED vars
  <2>1. UNCHANGED <<leader_log, term, leader_commit, past, answered, acked, store,
                    unstable, snap, committed, persisted, applied, records, panics>>
    BY <1>11 DEF vars, groupVars, ackVars
  <2>2. answered <= Len(leader_log')
    BY <2>1 DEF NodeInv, Watermarks
  <2>3. Kept /\ NodeTypes' /\ LogShape' /\ Watermarks' /\ RecordPlaces' /\ FollowerNoPanic'
    BY <2>1, <2>2, NodeKept
  <2>4. /\ GroupInv /\ NodeTypes /\ LogShape /\ MirrorsOne /\ CommittedIsChosen
        /\ AckedIsLeaders
    BY DEF NodeInv
  <2>5. GroupInv' /\ LogsGrow
    BY <2>1, <2>4, LogsStay DEF GroupInv, GroupTypes, TermsOrdered, LogsMatch, Logs
  <2>6. MirrorsOne'
    BY <2>3, <2>4, <2>5, MirrorsKept
  <2>7. leader_commit' \in Nat /\ leader_commit <= leader_commit'
    BY <2>1, <2>4 DEF GroupInv, GroupTypes
  <2>8. /\ \A i \in 1..leader_commit : leader_log'[i] = leader_log[i]
        /\ \A i \in 1..answered : leader_log'[i] = leader_log[i]
    BY <2>1
  <2>9. CommittedIsChosen' /\ AckedIsLeaders'
    BY <2>1, <2>3, <2>4, <2>7, <2>8, ChosenKept, AckedKept
  <2> QED
    BY <2>3, <2>5, <2>6, <2>9 DEF NodeInv
<1> QED
  BY <1>1, <1>2, <1>3, <1>4, <1>5, <1>6, <1>7, <1>8, <1>9, <1>10, <1>11 DEF Next, Steps

\* NodeInv holds in every state: the log of the follower mirrors a log of the group.
THEOREM NodeInvariance ==
    ASSUME ReadySnapshot = FALSE
    PROVE  Spec => []NodeInv
<1>1. NodeInv /\ [Next]_vars => NodeInv'
  BY NextNode
<1> QED
  BY <1>1, InitNode, PTL DEF Spec

\* No assertion on the follower's path fails, but for commit_to of a heartbeat.
THEOREM FollowerNeverPanics ==
    ASSUME ReadySnapshot = FALSE
    PROVE  Spec => []FollowerNoPanic
<1>1. NodeInv => FollowerNoPanic
  BY DEF NodeInv
<1> QED
  BY <1>1, NodeInvariance, PTL

\* What the follower takes for committed is what the group committed.
THEOREM FollowerStateMachineSafety ==
    ASSUME ReadySnapshot = FALSE
    PROVE  Spec => []CommittedIsChosen
<1>1. NodeInv => CommittedIsChosen
  BY DEF NodeInv
<1> QED
  BY <1>1, NodeInvariance, PTL

\* What the follower acknowledged to this leader is the leader's for as long as it has it.
THEOREM AcknowledgedIsLeaders ==
    ASSUME ReadySnapshot = FALSE
    PROVE  Spec => []AckedIsLeaders
<1>1. NodeInv => AckedIsLeaders
  BY DEF NodeInv
<1> QED
  BY <1>1, NodeInvariance, PTL

\* One entry of the leader at the follower means all those before it.
LEMMA MatchingFromInv == NodeInv => LogMatching
<1> SUFFICES ASSUME NodeInv,
                    NEW i \in FirstIndex..Least(LastIdx, Len(leader_log)),
                    TermAt(i) = leader_log[i]
             PROVE  \A j \in (FirstIndex - 1)..i : TermAt(j) = LeaderTerm(j)
  BY DEF LogMatching
<1>1. GroupInv /\ NodeTypes /\ LogShape /\ MirrorsOne
  BY DEF NodeInv
<1>2. FirstIndex \in Nat \ {0} /\ LastIdx \in Nat
  BY <1>1, Places
<1>3. Len(leader_log) \in Nat
  BY <1>1 DEF GroupInv, GroupTypes
<1>4. i \in (FirstIndex - 1)..LastIdx /\ i <= Len(leader_log) /\ i # 0
  BY <1>2, <1>3 DEF Least
<1>5. TermAt(i) = LeaderTerm(i)
  BY <1>4 DEF LeaderTerm
<1> QED
  BY <1>1, <1>4, <1>5, AgreeUpTo

\* Log matching between the follower and every leader.
THEOREM FollowerMatchesLeader ==
    ASSUME ReadySnapshot = FALSE
    PROVE  Spec => []LogMatching
BY NodeInvariance, MatchingFromInv, PTL

-----------------------------------------------------------------------------
\* Applied entries

\* Applied entries are committed and persisted: no step lowers one of these below applied.
LEMMA AppliedStep ==
    ASSUME ReadySnapshot = FALSE, NodeInv, AppliedInvariant, [Next]_vars
    PROVE  AppliedInvariant'
<1>1. /\ committed \in Nat /\ persisted \in Nat /\ applied \in Nat
      /\ applied <= committed /\ applied <= persisted
      /\ Len(leader_log) \in Nat /\ leader_commit \in Nat
  <2>1. committed \in Nat /\ persisted \in Nat /\ applied \in Nat
    BY DEF NodeInv, NodeTypes
  <2>2. Len(leader_log) \in Nat /\ leader_commit \in Nat
    BY DEF NodeInv, GroupInv, GroupTypes
  <2> QED
    BY <2>1, <2>2 DEF AppliedInvariant, Least
<1>2. ASSUME committed' \in Nat, persisted' \in Nat, applied' = applied,
             applied <= committed', applied <= persisted'
      PROVE  AppliedInvariant'
  BY <1>1, <1>2 DEF AppliedInvariant, Least
<1>3. CASE UNCHANGED <<committed, persisted, applied>>
  BY <1>1, <1>2, <1>3
<1>4. CASE LeaderAppend \/ LeaderCommits \/ NewLeader \/ AnswerCommitted \/ Stabilize
  <2>1. UNCHANGED <<committed, persisted, applied>>
    BY <1>4 DEF LeaderAppend, LeaderCommits, NewLeader, AnswerCommitted, Stabilize
  <2> QED
    BY <1>3, <2>1
<1>5. CASE ReceiveAppend
  <2>1. PICK idx \in 0..Len(leader_log) : \E n \in 0..(Len(leader_log) - idx) :
           \E c \in 0..leader_commit : AppendEntries(idx, n, c)
    BY <1>5 DEF ReceiveAppend
  <2>2. PICK n \in 0..(Len(leader_log) - idx) :
           \E c \in 0..leader_commit : AppendEntries(idx, n, c)
    BY <2>1
  <2>3. PICK c \in 0..leader_commit : AppendEntries(idx, n, c)
    BY <2>2
  <2>4. committed' \in Nat /\ committed <= committed' /\ persisted' \in Nat
        /\ committed <= idx
    BY <2>3, AppendEffect
  <2>5. /\ applied' = applied /\ idx \in Nat
        /\ persisted' = LET conflict == FindConflict(LeaderEntries(idx, n))
                        IN  IF conflict # 0 /\ persisted > conflict + 1
                            THEN conflict - 1 ELSE persisted
    BY <1>1, <2>3 DEF AppendEntries
  <2>6. FindConflict(LeaderEntries(idx, n)) \in {0, idx + 1}
    BY DEF FindConflict, LeaderEntries
  <2>7. persisted' = persisted \/ persisted' = idx
    BY <2>5, <2>6
  <2> QED
    BY <1>1, <1>2, <2>4, <2>5, <2>7
<1>6. CASE Heartbeat
  <2>1. PICK c \in (committed + 1)..Least(acked, leader_commit) : committed' = CommitTo(c)
    BY <1>6 DEF Heartbeat
  <2>2. committed' \in Nat /\ committed <= committed'
    BY <1>1, <2>1 DEF CommitTo, Least, NodeInv, NodeTypes
  <2>3. persisted' = persisted /\ applied' = applied
    BY <1>6 DEF Heartbeat
  <2> QED
    BY <1>1, <1>2, <2>2, <2>3
<1>7. ASSUME NEW i \in 1..leader_commit, Restore(i)
      PROVE  AppliedInvariant'
  <2>1. /\ applied' = applied /\ i >= committed /\ i \in Nat
        /\ committed' = i \/ committed' = committed
        /\ persisted' = persisted \/ persisted' = Least(persisted, committed)
    BY <1>1, <1>7 DEF Restore, CommitTo, PersistedOnRestore
  <2>2. committed' \in Nat /\ applied <= committed'
    BY <1>1, <2>1
  <2>3. persisted' \in Nat /\ applied <= persisted'
    BY <1>1, <2>1 DEF Least
  <2> QED
    BY <1>2, <2>1, <2>2, <2>3
<1>8. ASSUME NEW k \in 1..Len(records), OnPersistReady(k)
      PROVE  AppliedInvariant'
  <2>1. NodeTypes /\ LogShape /\ Watermarks /\ RecordPlaces
    BY DEF NodeInv
  <2>2. /\ committed' = committed /\ applied' = applied
        /\ persisted' = IF EntAt(k) = 0 THEN PersistedSnap(k)
                        ELSE MaybePersistEntries(records[EntAt(k)].index,
                                                 records[EntAt(k)].term, PersistedSnap(k))
    BY <1>8, PersistParts
  <2>3. persisted' \in Nat
    BY <1>8, <2>1, PersistedBounds
  <2>4. PersistedSnap(k) \in Nat /\ persisted <= PersistedSnap(k)
    BY <1>1, <2>1, ReportedSnap, MaxOfTwo DEF PersistedSnap
  <2>5. PersistedSnap(k) <= persisted'
    <3>1. CASE EntAt(k) = 0
      BY <2>2, <2>4, <3>1
    <3>2. CASE EntAt(k) # 0
      <4>1. EntAt(k) \in DOMAIN records
        BY <2>1, <3>2, Reported DEF NodeTypes
      <4>2. records[EntAt(k)].index \in Nat
        BY <2>1, <4>1 DEF NodeTypes, IsRecord
      <4> QED
        BY <2>2, <2>4, <3>2, <4>2 DEF MaybePersistEntries
    <3> QED
      BY <3>1, <3>2
  <2> QED
    BY <1>1, <1>2, <2>2, <2>3, <2>4, <2>5
<1>9. ASSUME NEW i \in (applied + 1)..NextTo(committed, persisted), Apply(i)
      PROVE  AppliedInvariant'
  <2>1. committed' = committed /\ persisted' = persisted /\ applied' = i
    BY <1>1, <1>9 DEF Apply, AppliedTo
  <2> QED
    BY <1>1, <2>1 DEF AppliedInvariant, NextTo, Least
<1>10. CASE UNCHANGED vars
  BY <1>3, <1>10 DEF vars
<1> QED
  BY <1>4, <1>5, <1>6, <1>7, <1>8, <1>9, <1>10 DEF Next, Steps

\* Applied entries stay committed and persisted.
THEOREM FollowerAppliesInOrder ==
    ASSUME ReadySnapshot = FALSE
    PROVE  Spec => []AppliedInvariant
<1>1. Init => AppliedInvariant
  BY DEF Init, AppliedInvariant, Least
<1>2. NodeInv /\ AppliedInvariant /\ [Next]_vars => AppliedInvariant'
  BY AppliedStep
<1> QED
  BY <1>1, <1>2, NodeInvariance, PTL DEF Spec

-----------------------------------------------------------------------------
\* The hint of a refused append

\* The least number of a non-empty set of numbers.
LEMMA LeastOf ==
    ASSUME NEW S \in SUBSET Nat, S # {}
    PROVE  \E x \in S : \A y \in S : x <= y
<1>1. \E x \in S : \A y \in S : ~ (<<y, x>> \in OpToRel(<, Nat))
  BY NatLessThanWellFounded, WFMin
<1>2. PICK x \in S : \A y \in S : ~ (<<y, x>> \in OpToRel(<, Nat))
  BY <1>1
<1>3. ASSUME NEW y \in S
      PROVE  x <= y
  <2>1. ~ (<<y, x>> \in OpToRel(<, Nat)) /\ x \in Nat /\ y \in Nat
    BY <1>2
  <2> QED
    BY <2>1 DEF OpToRel
<1> QED
  BY <1>3

\* Where the search ends.
HintSet(i, t) == {j \in 0..i : j = 0 \/ TermAt(j) <= t}

\* The search down from an index ends at the last index whose term does not exceed t.
LEMMA HintIsLast ==
    ASSUME NodeTypes, LogShape, NEW index \in Nat, NEW t \in Nat
    PROVE  /\ FindConflictByTerm(index, t) \in HintSet(index, t)
           /\ \A j \in HintSet(index, t) : j <= FindConflictByTerm(index, t)
<1> DEFINE Def(f) == [i \in 0..index |-> IF i > 0 /\ TermAt(i) > t THEN f[i - 1] ELSE i]
           w == [i \in 0..index |-> Max(HintSet(i, t))]
           down == CHOOSE f : f = Def(f)
<1>1. \A i \in Nat : TermAt(i) \in Nat
  BY TermView
<1>2. ASSUME NEW i \in 0..index
      PROVE  /\ Max(HintSet(i, t)) \in HintSet(i, t)
             /\ \A j \in HintSet(i, t) : j <= Max(HintSet(i, t))
  <2>1. i \in Nat /\ HintSet(i, t) \in SUBSET (0..i) /\ 0 \in HintSet(i, t)
    BY DEF HintSet
  <2> QED
    BY <2>1, MaxOfSet
<1>3. ASSUME NEW i \in 0..index
      PROVE  Max(HintSet(i, t)) =
                IF i > 0 /\ TermAt(i) > t THEN Max(HintSet(i - 1, t)) ELSE i
  <2>1. i \in Nat /\ TermAt(i) \in Nat
    BY <1>1
  <2>2. CASE i > 0 /\ TermAt(i) > t
    <3>1. HintSet(i, t) = HintSet(i - 1, t)
      BY <2>1, <2>2 DEF HintSet
    <3> QED
      BY <2>2, <3>1
  <2>3. CASE ~(i > 0 /\ TermAt(i) > t)
    <3>1. i \in HintSet(i, t)
      BY <2>1, <2>3 DEF HintSet
    <3>2. Max(HintSet(i, t)) \in 0..i /\ i <= Max(HintSet(i, t))
      BY <1>2, <3>1 DEF HintSet
    <3> QED
      BY <2>1, <2>3, <3>2
  <2> QED
    BY <2>2, <2>3
<1>4. w = Def(w)
  <2>1. ASSUME NEW i \in 0..index
        PROVE  w[i] = IF i > 0 /\ TermAt(i) > t THEN w[i - 1] ELSE i
    <3>1. i > 0 => i - 1 \in 0..index
      OBVIOUS
    <3> QED
      BY <1>3, <3>1
  <2> QED
    BY <2>1
<1> HIDE DEF w
<1>5. down = Def(down)
  BY <1>4
<1>6. FindConflictByTerm(index, t) = down[index]
  BY DEF FindConflictByTerm
<1> HIDE DEF down
<1>7. \A i \in 0..index : down[i] = w[i]
  <2> DEFINE B == {i \in 0..index : down[i] # w[i]}
  <2> SUFFICES ASSUME B # {}
               PROVE  FALSE
    OBVIOUS
  <2>1. B \in SUBSET Nat
    OBVIOUS
  <2>2. PICK x \in B : \A y \in B : x <= y
    <3> HIDE DEF B
    <3> QED
      BY <2>1, LeastOf
  <2>3. x \in 0..index /\ down[x] # w[x]
    OBVIOUS
  <2>4. /\ down[x] = IF x > 0 /\ TermAt(x) > t THEN down[x - 1] ELSE x
        /\ w[x] = IF x > 0 /\ TermAt(x) > t THEN w[x - 1] ELSE x
    BY <1>4, <1>5, <2>3
  <2>5. x > 0 /\ down[x - 1] # w[x - 1]
    BY <2>3, <2>4
  <2>6. x - 1 \in B /\ ~ (x <= x - 1)
    BY <2>3, <2>5
  <2> QED
    BY <2>2, <2>6
<1>8. FindConflictByTerm(index, t) = Max(HintSet(index, t))
  BY <1>6, <1>7 DEF w
<1> QED
  BY <1>2, <1>8

\* The hint of a refused append keeps all indexes where the logs agree.
LEMMA HintFromInv == NodeInv => HintKeepsAgreement
<1> SUFFICES ASSUME NodeInv, Alive, NEW idx \in 0..Len(leader_log), Refused(idx)
             PROVE  LET hint == HintIndex(idx)
                    IN  /\ TermAt(hint) # NoTerm
                        /\ TermAt(hint) <= LeaderTerm(idx)
                        /\ hint >= committed
                        /\ \A i \in committed..Least(idx, LastIdx) :
                              TermAt(i) = LeaderTerm(i) => i <= hint
  BY DEF HintKeepsAgreement
<1>1. /\ GroupInv /\ NodeTypes /\ LogShape /\ MirrorsOne /\ Watermarks
      /\ CommittedIsChosen
  BY DEF NodeInv
<1>2. /\ FirstIndex \in Nat \ {0} /\ LastIdx \in Nat
      /\ FirstIndex - 1 = IF snap # NoSnap THEN snap.index ELSE store.meta.index
  BY <1>1, Places
<1>3. /\ Len(leader_log) \in Nat /\ idx \in Nat /\ idx <= Len(leader_log)
      /\ leader_log \in Seq(Nat) /\ committed \in Nat
      /\ committed <= idx /\ committed <= LastIdx /\ FirstIndex - 1 <= committed
  BY <1>1, <1>2 DEF GroupInv, GroupTypes, NodeTypes, Watermarks, Refused
<1> DEFINE m == Least(idx, LastIdx)
           t == LeaderTerm(idx)
           hint == FindConflictByTerm(m, t)
<1>4. m \in Nat /\ m <= idx /\ m <= LastIdx /\ committed <= m
  BY <1>2, <1>3 DEF Least
<1>5. /\ t \in Nat
      /\ \A i \in 0..idx : LeaderTerm(i) \in Nat /\ LeaderTerm(i) <= t
  <2>1. ASSUME NEW i \in 0..idx
        PROVE  LeaderTerm(i) \in Nat /\ LeaderTerm(i) <= t
    <3>1. i = 0 => LeaderTerm(i) = 0
      BY DEF LeaderTerm
    <3>2. t \in Nat
      BY <1>3 DEF LeaderTerm
    <3>3. CASE i # 0
      <4>1. i \in 1..Len(leader_log) /\ idx \in 1..Len(leader_log) /\ i <= idx
        BY <1>3, <3>3
      <4>2. leader_log[i] <= leader_log[idx]
        BY <1>1, <4>1 DEF GroupInv, TermsOrdered, Logs
      <4>3. leader_log[i] \in Nat
        BY <1>3, <4>1
      <4> QED
        BY <3>3, <4>1, <4>2, <4>3 DEF LeaderTerm
    <3> QED
      BY <3>1, <3>2, <3>3
  <2>2. t \in Nat
    BY <1>3 DEF LeaderTerm
  <2> QED
    BY <2>1, <2>2
<1> HIDE DEF m, t
<1>6. hint \in HintSet(m, t) /\ \A j \in HintSet(m, t) : j <= hint
  BY <1>1, <1>4, <1>5, HintIsLast
<1>7. hint \in Nat /\ hint <= m
  BY <1>4, <1>6 DEF HintSet
<1> HIDE DEF hint
<1>8. TermAt(hint) \in Nat
  BY <1>1, <1>7, TermView
<1>9. TermAt(0) = 0
  <2>1. PICK log \in Logs : Mirrors(log)
    BY <1>1 DEF MirrorsOne
  <2>2. CASE FirstIndex - 1 = 0
    BY <1>2, <2>1, <2>2 DEF Mirrors, TermIn
  <2>3. CASE FirstIndex - 1 # 0
    BY <1>2, <2>3 DEF TermAt
  <2> QED
    BY <2>2, <2>3
<1>10. TermAt(hint) <= t
  BY <1>5, <1>6, <1>9 DEF HintSet
<1>11. ASSUME NEW i \in committed..m, TermAt(i) = LeaderTerm(i)
       PROVE  i <= hint
  <2>1. i \in 0..m /\ i \in 0..idx
    BY <1>3, <1>4
  <2>2. TermAt(i) <= t
    BY <1>5, <1>11, <2>1
  <2>3. i \in HintSet(m, t)
    BY <2>1, <2>2 DEF HintSet
  <2> QED
    BY <1>6, <2>3
<1>12. committed <= hint
  <2>1. committed \in (FirstIndex - 1)..committed /\ committed <= LastIdx
    BY <1>2, <1>3
  <2>2. TermAt(committed) = LeaderTerm(committed)
    BY <1>1, <2>1 DEF CommittedIsChosen
  <2>3. committed \in committed..m
    BY <1>3, <1>4
  <2> QED
    BY <1>11, <2>2, <2>3
<1>13. /\ TermAt(hint) # NoTerm /\ TermAt(hint) <= t /\ hint >= committed
       /\ \A i \in committed..m : TermAt(i) = LeaderTerm(i) => i <= hint
  BY <1>3, <1>7, <1>8, <1>10, <1>11, <1>12 DEF NoTerm
<1> QED
  BY <1>13 DEF HintIndex, hint, m, t

\* A refused append is answered with an index to probe at.
THEOREM RefusalKeepsAgreement ==
    ASSUME ReadySnapshot = FALSE
    PROVE  Spec => []HintKeepsAgreement
BY NodeInvariance, HintFromInv, PTL

-----------------------------------------------------------------------------
\* The images of storage on their way to the disk

\* An image of a log that grows is one of the log it grows to.
LEMMA ImageGrows ==
    ASSUME GroupInv, LogsGrow, NEW r, IsSegment(r.image), NEW s, ImageIn(r, Logs),
           s.image = r.image, s.index = r.index, s.term = r.term, s.snap = r.snap
    PROVE  ImageIn(s, Logs')
<1>1. PICK log \in Logs :
         /\ r.image.hi <= Len(log)
         /\ \A i \in r.image.lo..r.image.hi : r.image.ent[i].term = log[i]
  BY DEF ImageIn
<1>2. PICK new \in Logs' :
         Len(log) <= Len(new) /\ \A i \in 1..Len(log) : new[i] = log[i]
  BY DEF LogsGrow
<1>3. Len(log) \in Nat /\ r.image.lo \in Nat \ {0} /\ r.image.hi \in Nat
  BY DEF GroupInv, GroupTypes, Logs, IsSegment
<1>4. ASSUME NEW i \in r.image.lo..r.image.hi
      PROVE  r.image.ent[i].term = new[i]
  <2>1. i \in 1..Len(log)
    BY <1>1, <1>3
  <2> QED
    BY <1>1, <1>2, <2>1
<1>5. r.image.hi <= Len(new)
  BY <1>1, <1>2, <1>3
<1>6. /\ r.index # 0 => Has(r.image, r.index) /\ r.image.ent[r.index].term = r.term
      /\ r.snap # 0 => r.image.lo = r.snap + 1
  BY DEF ImageIn
<1> QED
  BY <1>2, <1>4, <1>5, <1>6 DEF ImageIn

\* Images stay what they are while neither storage nor the images change.
LEMMA ImagesKept ==
    ASSUME GroupInv, NodeTypes, Images, LogsGrow, store' = store,
           DOMAIN records' = DOMAIN records, Len(records') = Len(records),
           \A j \in DOMAIN records :
              /\ records'[j].image = records[j].image
              /\ records'[j].index = records[j].index
              /\ records'[j].term = records[j].term
              /\ records'[j].snap = records[j].snap
    PROVE  Images'
<1>1. ASSUME NEW j \in DOMAIN records
      PROVE  ImageIn(records'[j], Logs')
  <2>1. IsSegment(records[j].image) /\ ImageIn(records[j], Logs)
    BY DEF NodeTypes, IsRecord, Images
  <2> QED
    BY <2>1, ImageGrows
<1>2. DOMAIN records = 1..Len(records) /\ Len(records) \in Nat
  BY DEF NodeTypes
<1>3. ASSUME NEW j \in DOMAIN records, NEW k \in DOMAIN records
      PROVE  /\ NoSnapIn(records', j + 1, k) <=> NoSnapIn(records, j + 1, k)
             /\ NothingIn(records', j + 1, k) <=> NothingIn(records, j + 1, k)
  <2>1. \A m \in (j + 1)..k : m \in DOMAIN records
    BY <1>2
  <2> QED
    BY <2>1 DEF NoSnapIn, NothingIn
<1>4. ASSUME NEW j \in DOMAIN records
      PROVE  /\ NoSnapIn(records', j + 1, Len(records)) <=> NoSnapIn(records, j + 1, Len(records))
             /\ NothingIn(records', j + 1, Len(records))
                <=> NothingIn(records, j + 1, Len(records))
  <2>1. Len(records) \in DOMAIN records
    BY <1>2
  <2> QED
    BY <1>3, <2>1
<1>5. ImagesFollow(records, store.log)
  BY DEF Images
<1>6. \A j, k \in DOMAIN records : j < k =>
          /\ NoSnapIn(records', j + 1, k) => records'[k].image.lo = records'[j].image.lo
          /\ NothingIn(records', j + 1, k) => records'[k].image = records'[j].image
  BY <1>3, <1>5 DEF ImagesFollow
<1>7. \A j \in DOMAIN records :
          /\ NoSnapIn(records', j + 1, Len(records)) => store.log.lo = records'[j].image.lo
          /\ NothingIn(records', j + 1, Len(records)) => store.log = records'[j].image
  BY <1>4, <1>5 DEF ImagesFollow
<1>8. ImagesFollow(records', store.log)
  BY <1>6, <1>7 DEF ImagesFollow
<1> QED
  BY <1>1, <1>8 DEF Images

\* The records that are left when the first are reported.
LEMMA ImagesLeft ==
    ASSUME NodeInv, Images, NEW k \in 1..Len(records), OnPersistReady(k)
    PROVE  Images'
<1>1. GroupInv /\ NodeTypes
  BY DEF NodeInv
<1>2. /\ records' = SubSeq(records, k + 1, Len(records))
      /\ UNCHANGED <<leader_log, past, store>>
  BY PersistParts
<1>3. /\ Len(records') = Len(records) - k
      /\ DOMAIN records' = 1..(Len(records) - k)
      /\ \A j \in DOMAIN records' :
            j + k \in DOMAIN records /\ records'[j] = records[j + k]
  BY <1>1, <1>2, RecordsLeft
<1>4. Len(records) \in Nat /\ k \in Nat
  BY <1>1 DEF NodeTypes
<1>5. LogsGrow
  BY <1>1, <1>2, LogsStay
<1>6. ASSUME NEW j \in DOMAIN records'
      PROVE  ImageIn(records'[j], Logs')
  <2>1. IsSegment(records[j + k].image) /\ ImageIn(records[j + k], Logs)
    BY <1>1, <1>3 DEF NodeTypes, IsRecord, Images
  <2> QED
    BY <1>1, <1>3, <1>5, <2>1, ImageGrows
<1>7. ASSUME NEW a \in Nat, NEW b \in Nat, b <= Len(records')
      PROVE  /\ NoSnapIn(records', a + 1, b) => NoSnapIn(records, (a + k) + 1, b + k)
             /\ NothingIn(records', a + 1, b) => NothingIn(records, (a + k) + 1, b + k)
  <2>1. ASSUME NEW m \in ((a + k) + 1)..(b + k)
        PROVE  /\ m - k \in (a + 1)..b /\ m - k \in DOMAIN records'
               /\ records'[m - k] = records[m]
    <3>1. m - k \in (a + 1)..b /\ m - k \in DOMAIN records' /\ (m - k) + k = m
      BY <1>3, <1>4, <1>7
    <3> QED
      BY <1>3, <3>1
  <2> QED
    BY <2>1 DEF NoSnapIn, NothingIn
<1>8. ImagesFollow(records, store.log)
  BY DEF Images
<1>9. ASSUME NEW i \in DOMAIN records', NEW j \in DOMAIN records', i < j
      PROVE  /\ NoSnapIn(records', i + 1, j) => records'[j].image.lo = records'[i].image.lo
             /\ NothingIn(records', i + 1, j) => records'[j].image = records'[i].image
  <2>1. /\ i \in Nat /\ j \in Nat /\ j <= Len(records') /\ i + k < j + k
        /\ i + k \in DOMAIN records /\ j + k \in DOMAIN records
    BY <1>3, <1>4, <1>9
  <2>2. /\ NoSnapIn(records', i + 1, j) => NoSnapIn(records, (i + k) + 1, j + k)
        /\ NothingIn(records', i + 1, j) => NothingIn(records, (i + k) + 1, j + k)
    BY <1>7, <2>1
  <2> QED
    BY <1>3, <1>8, <2>1, <2>2 DEF ImagesFollow
<1>10. ASSUME NEW j \in DOMAIN records'
       PROVE  /\ NoSnapIn(records', j + 1, Len(records')) =>
                    store.log.lo = records'[j].image.lo
              /\ NothingIn(records', j + 1, Len(records')) =>
                    store.log = records'[j].image
  <2>1. /\ j \in Nat /\ Len(records') \in Nat /\ Len(records') <= Len(records')
        /\ Len(records') + k = Len(records) /\ j + k \in DOMAIN records
    BY <1>3, <1>4
  <2>2. /\ NoSnapIn(records', j + 1, Len(records')) =>
              NoSnapIn(records, (j + k) + 1, Len(records))
        /\ NothingIn(records', j + 1, Len(records')) =>
              NothingIn(records, (j + k) + 1, Len(records))
    BY <1>7, <2>1
  <2> QED
    BY <1>3, <1>8, <2>1, <2>2 DEF ImagesFollow
<1>11. ImagesFollow(records', store.log)
  BY <1>9, <1>10 DEF ImagesFollow
<1> QED
  BY <1>2, <1>6, <1>11 DEF Images

\* The record of a Ready has an image of storage as it is after it.
LEMMA ImagesWritten ==
    ASSUME NodeInv, Images, ReadySnapshot = FALSE, Stabilize
    PROVE  Images'
<1>1. /\ GroupInv /\ NodeTypes /\ LogShape /\ MirrorsOne /\ Watermarks
  BY DEF NodeInv
<1>2. /\ store' = StorageAppend(Restored, unstable)
      /\ records' = Append(records, WrittenRecord)
      /\ snap' = NoSnap
      /\ unstable' = StableEntries(unstable)
      /\ UNCHANGED <<leader_log, past>>
  BY StabilizeParts
<1>3. /\ IsSegment(store'.log)
      /\ store'.log.lo = FirstIndex /\ store'.log.hi = LastIdx
      /\ \A i \in FirstIndex..LastIdx : store'.log.ent[i].term = TermAt(i)
      /\ snap = NoSnap /\ IsEmpty(unstable) => store' = store
  BY <1>1, <1>2, StabilizeView
<1>4. /\ FirstIndex \in Nat \ {0} /\ LastIdx \in Nat
      /\ unstable.lo \in Nat \ {0} /\ unstable.hi = LastIdx
      /\ FirstIndex <= unstable.lo
      /\ FirstIndex - 1 = IF snap # NoSnap THEN snap.index ELSE store.meta.index
      /\ snap.index \in Nat /\ store.meta.index \in Nat
      /\ store.log.lo = store.meta.index + 1
      /\ snap # NoSnap => snap.index # 0
  BY <1>1, Places DEF LogShape
<1>5. Logs' = Logs /\ LogsGrow
  BY <1>1, <1>2, LogsStay DEF Logs
<1> DEFINE r == WrittenRecord
<1>6. /\ r.snap = snap.index /\ r.image = store'.log
      /\ r.index = IF IsEmpty(unstable) THEN 0 ELSE unstable.hi
      /\ r.term = IF IsEmpty(unstable) THEN 0 ELSE unstable.ent[unstable.hi].term
  BY DEF WrittenRecord
<1>7. records' = Append(records, r)
  BY <1>2
<1> HIDE DEF r
<1>8. /\ DOMAIN records = 1..Len(records) /\ Len(records) \in Nat
      /\ Len(records') = Len(records) + 1
      /\ DOMAIN records' = 1..(Len(records) + 1)
      /\ \A j \in DOMAIN records : records'[j] = records[j]
      /\ records'[Len(records) + 1] = r
  BY <1>1, <1>7 DEF NodeTypes
<1>9. ImageIn(r, Logs')
  <2>1. PICK log \in Logs : Mirrors(log)
    BY <1>1 DEF MirrorsOne
  <2>2. LastIdx <= Len(log)
        /\ \A i \in (FirstIndex - 1)..LastIdx : TermAt(i) = TermIn(log, i)
    BY <2>1 DEF Mirrors
  <2>3. ASSUME NEW i \in FirstIndex..LastIdx
        PROVE  store'.log.ent[i].term = log[i]
    <3>1. i \in (FirstIndex - 1)..LastIdx /\ i # 0
      BY <1>4
    <3> QED
      BY <1>3, <2>2, <3>1 DEF TermIn
  <2>4. r.index # 0 => Has(r.image, r.index) /\ r.image.ent[r.index].term = r.term
    <3> SUFFICES ASSUME r.index # 0
                 PROVE  Has(r.image, r.index) /\ r.image.ent[r.index].term = r.term
      OBVIOUS
    <3>1. ~IsEmpty(unstable) /\ r.index = LastIdx /\ r.term = unstable.ent[LastIdx].term
      BY <1>4, <1>6
    <3>2. LastIdx \in FirstIndex..LastIdx /\ LastIdx >= unstable.lo
      BY <1>4, <3>1 DEF IsEmpty
    <3>3. TermAt(LastIdx) = unstable.ent[LastIdx].term
      BY <1>1, <1>4, <3>2, TermView
    <3> QED
      BY <1>3, <1>6, <3>1, <3>2, <3>3 DEF Has
  <2>5. r.snap # 0 => r.image.lo = r.snap + 1
    <3> SUFFICES ASSUME r.snap # 0
                 PROVE  r.image.lo = r.snap + 1
      OBVIOUS
    <3>1. snap # NoSnap
      BY <1>6 DEF NoSnap
    <3> QED
      BY <1>3, <1>4, <1>6, <3>1
  <2>6. log \in Logs' /\ r.image.hi <= Len(log)
        /\ \A i \in r.image.lo..r.image.hi : r.image.ent[i].term = log[i]
    BY <1>3, <1>5, <1>6, <2>2, <2>3
  <2> QED
    BY <2>4, <2>5, <2>6 DEF ImageIn
<1>10. ASSUME NEW j \in DOMAIN records
       PROVE  ImageIn(records'[j], Logs')
  <2>1. IsSegment(records[j].image) /\ ImageIn(records[j], Logs)
    BY <1>1 DEF NodeTypes, IsRecord, Images
  <2> QED
    BY <1>1, <1>5, <1>8, <2>1, ImageGrows
<1>11. \A j \in DOMAIN records' : j \in DOMAIN records \/ j = Len(records) + 1
  BY <1>8
<1>12. ASSUME NEW j \in DOMAIN records, NEW k \in DOMAIN records
       PROVE  /\ NoSnapIn(records', j + 1, k) => NoSnapIn(records, j + 1, k)
              /\ NothingIn(records', j + 1, k) => NothingIn(records, j + 1, k)
  <2>1. \A m \in (j + 1)..k : m \in DOMAIN records
    BY <1>8
  <2> QED
    BY <1>8, <2>1 DEF NoSnapIn, NothingIn
<1>13. ImagesFollow(records, store.log)
  BY DEF Images
<1>14. ASSUME NEW j \in DOMAIN records
       PROVE  /\ NoSnapIn(records', j + 1, Len(records) + 1) => r.image.lo = records[j].image.lo
              /\ NothingIn(records', j + 1, Len(records) + 1) => r.image = records[j].image
  <2>1. Len(records) \in DOMAIN records /\ j \in Nat
    BY <1>8
  <2>2. /\ \A m \in (j + 1)..Len(records) : m \in (j + 1)..(Len(records) + 1)
        /\ Len(records) + 1 \in (j + 1)..(Len(records) + 1)
    BY <1>8, <2>1
  <2>3. ASSUME NoSnapIn(records', j + 1, Len(records) + 1)
        PROVE  r.image.lo = records[j].image.lo
    <3>1. NoSnapIn(records', j + 1, Len(records)) /\ r.snap = 0
      BY <1>8, <2>2, <2>3 DEF NoSnapIn
    <3>2. NoSnapIn(records, j + 1, Len(records))
      BY <1>12, <2>1, <3>1
    <3>3. store.log.lo = records[j].image.lo
      BY <1>13, <3>2 DEF ImagesFollow
    <3>4. FirstIndex = store.log.lo
      BY <1>4, <1>6, <3>1 DEF FirstIndex
    <3> QED
      BY <1>3, <1>6, <3>3, <3>4
  <2>4. ASSUME NothingIn(records', j + 1, Len(records) + 1)
        PROVE  r.image = records[j].image
    <3>1. NothingIn(records', j + 1, Len(records)) /\ r.snap = 0 /\ r.index = 0
      BY <1>8, <2>2, <2>4 DEF NothingIn
    <3>2. NothingIn(records, j + 1, Len(records))
      BY <1>12, <2>1, <3>1
    <3>3. store.log = records[j].image
      BY <1>13, <3>2 DEF ImagesFollow
    <3>4. snap = NoSnap
      BY <1>4, <1>6, <3>1
    <3>5. IsEmpty(unstable)
      BY <1>4, <1>6, <3>1 DEF IsEmpty
    <3> QED
      BY <1>3, <1>6, <3>3, <3>4, <3>5
  <2> QED
    BY <2>3, <2>4
<1>15. ASSUME NEW i \in DOMAIN records', NEW j \in DOMAIN records', i < j
       PROVE  /\ NoSnapIn(records', i + 1, j) => records'[j].image.lo = records'[i].image.lo
              /\ NothingIn(records', i + 1, j) => records'[j].image = records'[i].image
  <2>1. i \in DOMAIN records /\ records'[i] = records[i]
    BY <1>8, <1>15
  <2>2. CASE j \in DOMAIN records
    <3>1. records'[j] = records[j]
      BY <1>8, <2>2
    <3>2. /\ NoSnapIn(records, i + 1, j) => records[j].image.lo = records[i].image.lo
          /\ NothingIn(records, i + 1, j) => records[j].image = records[i].image
      BY <1>13, <1>15, <2>1, <2>2 DEF ImagesFollow
    <3> QED
      BY <1>12, <2>1, <2>2, <3>1, <3>2
  <2>3. CASE j = Len(records) + 1
    BY <1>8, <1>14, <2>1, <2>3
  <2> QED
    BY <1>11, <2>2, <2>3
<1>16. ASSUME NEW j \in DOMAIN records'
       PROVE  /\ NoSnapIn(records', j + 1, Len(records')) =>
                    store'.log.lo = records'[j].image.lo
              /\ NothingIn(records', j + 1, Len(records')) =>
                    store'.log = records'[j].image
  <2>1. CASE j \in DOMAIN records
    BY <1>6, <1>8, <1>14, <2>1
  <2>2. CASE j = Len(records) + 1
    BY <1>6, <1>8, <2>2
  <2> QED
    BY <1>11, <2>1, <2>2
<1>17. ImagesFollow(records', store'.log)
  BY <1>15, <1>16 DEF ImagesFollow
<1>18. \A j \in DOMAIN records' : ImageIn(records'[j], Logs')
  BY <1>8, <1>9, <1>10, <1>11
<1> QED
  BY <1>17, <1>18 DEF Images

\* The whole invariant holds initially.
LEMMA InitImages == Init => Images
BY DEF Init, Images, ImagesFollow

\* Every step keeps the images true.
LEMMA NextImages ==
    ASSUME ReadySnapshot = FALSE, NodeInv, Images, [Next]_vars
    PROVE  Images'
<1>1. GroupInv /\ NodeTypes
  BY DEF NodeInv
<1>2. ASSUME LogsGrow, store' = store, records' = records
      PROVE  Images'
  BY <1>1, <1>2, ImagesKept
<1>3. ASSUME UNCHANGED <<leader_log, past, store, records>>
      PROVE  Images'
  BY <1>1, <1>2, <1>3, LogsStay
<1>4. CASE LeaderAppend
  BY <1>1, <1>2, <1>4, LeaderAppendGroup DEF LeaderAppend
<1>5. CASE LeaderCommits
  BY <1>3, <1>5 DEF LeaderCommits
<1>6. CASE NewLeader
  <2>1. LogsGrow
    BY <1>1, <1>6, NewLeaderGroup
  <2>2. store' = store
        /\ records' = [j \in DOMAIN records |-> [records[j] EXCEPT !.ack = 0]]
    BY <1>6 DEF NewLeader
  <2>3. DOMAIN records' = DOMAIN records /\ Len(records') = Len(records)
    <3>1. DOMAIN records = 1..Len(records) /\ Len(records) \in Nat
      BY <1>1 DEF NodeTypes
    <3>2. records' \in Seq({records'[j] : j \in DOMAIN records})
      BY <2>2, <3>1
    <3>3. DOMAIN records' = 1..Len(records') /\ Len(records') \in Nat
      BY <3>2
    <3> QED
      BY <2>2, <3>1, <3>3
  <2>4. ASSUME NEW j \in DOMAIN records
        PROVE  /\ records'[j].image = records[j].image
               /\ records'[j].index = records[j].index
               /\ records'[j].term = records[j].term
               /\ records'[j].snap = records[j].snap
    <3>1. IsRecord(records[j]) /\ records'[j] = [records[j] EXCEPT !.ack = 0]
      BY <1>1, <2>2 DEF NodeTypes
    <3> DEFINE r == records[j]
    <3>2. r = [snap |-> r.snap, image |-> r.image, ack |-> r.ack,
               index |-> r.index, term |-> r.term]
      BY <3>1 DEF IsRecord
    <3>3. records'[j] = [r EXCEPT !.ack = 0]
      BY <3>1
    <3> HIDE DEF r
    <3>4. /\ records'[j].image = r.image /\ records'[j].index = r.index
          /\ records'[j].term = r.term /\ records'[j].snap = r.snap
      BY <3>2, <3>3
    <3> QED
      BY <3>4 DEF r
  <2> QED
    BY <1>1, <2>1, <2>2, <2>3, <2>4, ImagesKept
<1>7. CASE ReceiveAppend \/ AnswerCommitted \/ Heartbeat
  <2>1. UNCHANGED <<leader_log, past, store, records>>
    BY <1>7 DEF ReceiveAppend, AppendEntries, AnswerCommitted, Heartbeat, groupVars
  <2> QED
    BY <1>3, <2>1
<1>8. ASSUME NEW i \in 1..leader_commit, Restore(i)
      PROVE  Images'
  BY <1>3, <1>8 DEF Restore, groupVars
<1>9. CASE Stabilize
  BY <1>9, ImagesWritten
<1>10. ASSUME NEW k \in 1..Len(records), OnPersistReady(k)
       PROVE  Images'
  BY <1>10, ImagesLeft
<1>11. ASSUME NEW i \in (applied + 1)..NextTo(committed, persisted), Apply(i)
       PROVE  Images'
  BY <1>3, <1>11 DEF Apply, groupVars
<1>12. CASE UNCHANGED vars
  BY <1>3, <1>12 DEF vars, groupVars
<1> QED
  BY <1>4, <1>5, <1>6, <1>7, <1>8, <1>9, <1>10, <1>11, <1>12 DEF Next, Steps

\* What ReportedIsWritten says of one step.
WrittenWith(image) ==
    \A i \in FirstIndex..persisted' : Has(image, i) => image.ent[i].term = TermAt(i)

\* A report of an entry: the image of its record ends with this entry, and so does the
\* image of the last record reported.
LEMMA EntryReported ==
    ASSUME NodeInv, Images, NEW k \in 1..Len(records), NEW e \in 1..k,
           e = EntAt(k), persisted' = records[e].index,
           persisted' < (IF snap # NoSnap THEN snap.index ELSE unstable.lo),
           StoreTerm(persisted') = records[e].term
    PROVE  WrittenWith(records[k].image)
<1>1. /\ GroupInv /\ NodeTypes /\ LogShape /\ MirrorsOne
  BY DEF NodeInv
<1>2. /\ DOMAIN records = 1..Len(records) /\ Len(records) \in Nat
      /\ k \in DOMAIN records /\ e \in DOMAIN records /\ e \in Nat /\ k \in Nat /\ e <= k
  BY <1>1 DEF NodeTypes
<1>3. /\ SnapAt(k) \in 0..k /\ SnapAt(k) <= e /\ records[e].index # 0
      /\ \A j \in 1..k : records[j].snap # 0 => j <= SnapAt(k)
      /\ \A j \in 1..k : j >= SnapAt(k) /\ records[j].index # 0 => j <= e
  BY <1>1, <1>2, Reported
<1>4. records[k].image = records[e].image
  <2>1. ASSUME NEW m \in (e + 1)..k
        PROVE  records[m].snap = 0 /\ records[m].index = 0
    <3>1. m \in 1..k /\ m \in Nat /\ ~ (m <= e) /\ ~ (m <= SnapAt(k)) /\ m >= SnapAt(k)
      BY <1>2, <1>3
    <3> QED
      BY <1>3, <3>1
  <2>2. NothingIn(records, e + 1, k)
    BY <2>1 DEF NothingIn
  <2>3. CASE e < k
    BY <1>2, <2>2, <2>3 DEF Images, ImagesFollow
  <2>4. CASE e = k
    BY <2>4
  <2> QED
    BY <1>2, <2>3, <2>4
<1> DEFINE x == records[e].index
           image == records[e].image
<1>5. /\ x \in Nat \ {0} /\ IsSegment(image)
      /\ Has(image, x) /\ image.ent[x].term = records[e].term
  BY <1>1, <1>2, <1>3 DEF NodeTypes, IsRecord, Images, ImageIn
<1>6. PICK b \in Logs : /\ image.hi <= Len(b)
                        /\ \A i \in image.lo..image.hi : image.ent[i].term = b[i]
  BY <1>2 DEF Images, ImageIn
<1>7. PICK a \in Logs : Mirrors(a)
  BY <1>1 DEF MirrorsOne
<1>8. persisted' = x
  OBVIOUS
<1> HIDE DEF x, image
<1>9. /\ FirstIndex \in Nat \ {0} /\ LastIdx \in Nat
      /\ unstable.lo \in Nat \ {0} /\ unstable.lo <= LastIdx + 1
      /\ FirstIndex - 1 = IF snap # NoSnap THEN snap.index ELSE store.meta.index
      /\ snap.index \in Nat /\ store.meta.index \in Nat
      /\ image.lo \in Nat \ {0} /\ image.hi \in Nat
      /\ Len(a) \in Nat /\ Len(b) \in Nat
  <2>1. Len(a) \in Nat /\ Len(b) \in Nat
    BY <1>1 DEF GroupInv, GroupTypes, Logs
  <2>2. image.lo \in Nat \ {0} /\ image.hi \in Nat
    BY <1>5 DEF IsSegment
  <2> QED
    BY <1>1, <2>1, <2>2, Places
<1>10. CASE x < FirstIndex
  <2>1. FirstIndex..persisted' = {}
    BY <1>5, <1>8, <1>9, <1>10
  <2> QED
    BY <2>1 DEF WrittenWith
<1>11. CASE x >= FirstIndex
  <2>1. snap = NoSnap /\ x < unstable.lo /\ x <= LastIdx
    BY <1>5, <1>8, <1>9, <1>11
  <2>2. /\ Has(store.log, x) /\ TermAt(x) = store.log.ent[x].term
    <3>1. x \in Nat /\ x \in FirstIndex..LastIdx
      BY <1>5, <1>9, <1>11, <2>1
    <3>2. x < unstable.lo
      BY <2>1
    <3> QED
      BY <1>1, <3>1, <3>2, TermView
  <2>3. StoreTerm(x) = TermAt(x)
    BY <1>5, <1>9, <1>11, <2>1, <2>2 DEF StoreTerm
  <2>4. image.ent[x].term = TermAt(x)
    BY <1>5, <1>8, <2>3
  <2>5. x \in image.lo..image.hi /\ x \in 1..Len(b) /\ x \in 1..Len(a)
    BY <1>5, <1>6, <1>7, <1>9, <2>1 DEF Has, Mirrors
  <2>6. TermAt(x) = a[x]
    <3>1. x \in (FirstIndex - 1)..LastIdx /\ x # 0
      BY <1>5, <1>9, <1>11, <2>1
    <3> QED
      BY <1>7, <3>1 DEF Mirrors, TermIn
  <2>7. b[x] = a[x]
    BY <1>6, <2>4, <2>5, <2>6
  <2>8. \A j \in 1..x : b[j] = a[j]
    BY <1>1, <1>6, <1>7, <1>9, <2>5, <2>7 DEF GroupInv, LogsMatch
  <2>9. ASSUME NEW i \in FirstIndex..x, Has(image, i)
        PROVE  image.ent[i].term = TermAt(i)
    <3>1. i \in Nat \ {0} /\ i \in 1..x /\ i \in (FirstIndex - 1)..LastIdx
      BY <1>5, <1>9, <2>1
    <3>2. i \in image.lo..image.hi
      BY <1>9, <2>9, <3>1 DEF Has
    <3>3. image.ent[i].term = b[i]
      BY <1>6, <3>2
    <3>4. TermAt(i) = a[i]
      BY <1>7, <3>1 DEF Mirrors, TermIn
    <3> QED
      BY <2>8, <3>1, <3>3, <3>4
  <2> QED
    BY <1>4, <1>8, <2>9 DEF WrittenWith, image
<1> QED
  BY <1>5, <1>9, <1>10, <1>11

\* A report of a snapshot: the image of the last record reported begins after it.
LEMMA SnapReported ==
    ASSUME NodeInv, Images, NEW k \in 1..Len(records),
           persisted' = SnapOf(k), SnapOf(k) > persisted
    PROVE  WrittenWith(records[k].image)
<1>1. NodeTypes /\ LogShape
  BY DEF NodeInv
<1>2. /\ DOMAIN records = 1..Len(records) /\ Len(records) \in Nat
      /\ k \in DOMAIN records /\ k \in Nat /\ persisted \in Nat
  BY <1>1 DEF NodeTypes
<1>3. /\ SnapAt(k) \in 0..k
      /\ SnapAt(k) # 0 => records[SnapAt(k)].snap # 0
      /\ \A j \in 1..k : records[j].snap # 0 => j <= SnapAt(k)
  BY <1>1, Reported
<1>4. SnapAt(k) # 0
  BY <1>2 DEF SnapOf
<1> DEFINE c == SnapAt(k)
<1>5. /\ c \in DOMAIN records /\ c \in Nat /\ c <= k /\ records[c].snap # 0
      /\ SnapOf(k) = records[c].snap
  BY <1>2, <1>3, <1>4 DEF SnapOf
<1>6. \A j \in 1..k : records[j].snap # 0 => j <= c
  BY <1>3
<1> HIDE DEF c
<1>7. records[k].image.lo = records[c].image.lo
  <2>1. ASSUME NEW m \in (c + 1)..k
        PROVE  records[m].snap = 0
    <3>1. m \in 1..k /\ ~ (m <= c)
      BY <1>2, <1>5
    <3> QED
      BY <1>6, <3>1
  <2>2. NoSnapIn(records, c + 1, k)
    BY <2>1 DEF NoSnapIn
  <2>3. CASE c < k
    BY <1>2, <1>5, <2>2, <2>3 DEF Images, ImagesFollow
  <2>4. CASE c = k
    BY <2>4
  <2> QED
    BY <1>2, <1>5, <2>3, <2>4
<1>8. records[c].image.lo = records[c].snap + 1 /\ records[c].snap \in Nat
  BY <1>1, <1>5 DEF Images, ImageIn, NodeTypes, IsRecord
<1>9. FirstIndex \in Nat \ {0}
  BY <1>1, Places
<1>10. ASSUME NEW i \in FirstIndex..persisted'
       PROVE  ~Has(records[k].image, i)
  <2>1. i \in Nat /\ i <= records[c].snap
    BY <1>5, <1>8, <1>9
  <2> QED
    BY <1>7, <1>8, <2>1 DEF Has
<1> QED
  BY <1>10 DEF WrittenWith

\* What a late report says of a step.
LEMMA ReportStep ==
    ASSUME NodeInv, Images, NEW k \in 1..Len(records), OnPersistReady(k),
           persisted' > persisted
    PROVE  WrittenWith(records[k].image)
<1>1. /\ NodeTypes /\ LogShape /\ Watermarks /\ RecordPlaces
  BY DEF NodeInv
<1>2. persisted' = IF EntAt(k) = 0 THEN PersistedSnap(k)
                   ELSE MaybePersistEntries(records[EntAt(k)].index,
                                            records[EntAt(k)].term, PersistedSnap(k))
  BY PersistParts
<1>3. /\ SnapOf(k) \in Nat /\ persisted \in Nat /\ PersistedSnap(k) \in Nat
      /\ PersistedSnap(k) = persisted \/ PersistedSnap(k) = SnapOf(k)
  BY <1>1, ReportedSnap, MaxOfTwo DEF NodeTypes, PersistedSnap
<1>4. CASE persisted' = PersistedSnap(k)
  <2>1. persisted' = SnapOf(k) /\ SnapOf(k) > persisted
    BY <1>3, <1>4
  <2> QED
    BY <2>1, SnapReported
<1>5. CASE persisted' # PersistedSnap(k)
  <2>1. EntAt(k) # 0 /\ EntAt(k) \in 0..k /\ k \in Nat
    BY <1>1, <1>2, <1>5, Reported DEF NodeTypes
  <2> DEFINE e == EntAt(k)
  <2>2. e \in 1..k
    BY <2>1
  <2>3. /\ persisted' = records[e].index
        /\ persisted' < (IF snap # NoSnap THEN snap.index ELSE unstable.lo)
        /\ StoreTerm(persisted') = records[e].term
    BY <1>2, <1>5, <2>1 DEF MaybePersistEntries
  <2> QED
    BY <2>2, <2>3, EntryReported
<1> QED
  BY <1>4, <1>5

\* Only a report raises the persisted index.
LEMMA OnlyReportsRaise ==
    ASSUME NodeInv, [Next]_vars, persisted' > persisted
    PROVE  \E k \in 1..Len(records) : OnPersistReady(k)
<1>1. persisted \in Nat /\ committed \in Nat /\ ~ (persisted > persisted)
  BY DEF NodeInv, NodeTypes
<1>2. ASSUME NEW idx \in 0..Len(leader_log), NEW n \in 0..(Len(leader_log) - idx),
             NEW c \in 0..leader_commit, AppendEntries(idx, n, c)
      PROVE  FALSE
  <2>1. persisted' \in Nat /\ persisted' <= persisted
    BY <1>2, AppendEffect
  <2> QED
    BY <1>1, <2>1
<1>3. CASE ReceiveAppend
  BY <1>2, <1>3 DEF ReceiveAppend
<1>4. CASE LeaderAppend \/ LeaderCommits \/ NewLeader \/ AnswerCommitted \/ Heartbeat
           \/ Stabilize \/ UNCHANGED vars
  BY <1>1, <1>4 DEF LeaderAppend, LeaderCommits, NewLeader, AnswerCommitted, Heartbeat,
                    Stabilize, vars
<1>5. ASSUME NEW i \in 1..leader_commit, Restore(i)
      PROVE  FALSE
  <2>1. persisted' = persisted \/ persisted' = Least(persisted, committed)
    BY <1>5 DEF Restore, PersistedOnRestore
  <2> QED
    BY <1>1, <2>1 DEF Least
<1>6. ASSUME NEW i \in (applied + 1)..NextTo(committed, persisted), Apply(i)
      PROVE  FALSE
  BY <1>1, <1>6 DEF Apply
<1> QED
  BY <1>3, <1>4, <1>5, <1>6 DEF Next, Steps

\* IInv holds in every state, the images of storage on their way to the disk included.
THEOREM FollowerInvariance ==
    ASSUME ReadySnapshot = FALSE
    PROVE  Spec => []IInv
<1>1. Init => IInv
  BY InitNode, InitImages DEF IInv
<1>2. IInv /\ [Next]_vars => IInv'
  BY NextNode, NextImages DEF IInv
<1> QED
  BY <1>1, <1>2, PTL DEF Spec

\* A late report raises persisted only over a log that was written with it.
THEOREM ReportsAreWritten ==
    ASSUME ReadySnapshot = FALSE
    PROVE  Spec => ReportedIsWritten
<1>1. ASSUME IInv, [Next]_vars
      PROVE  persisted' > persisted =>
                LET image == records[Len(records) - Len(records')].image
                IN  \A i \in FirstIndex..persisted' :
                       Has(image, i) => image.ent[i].term = TermAt(i)
  <2> SUFFICES ASSUME persisted' > persisted
               PROVE  WrittenWith(records[Len(records) - Len(records')].image)
    BY DEF WrittenWith
  <2>1. NodeInv /\ Images /\ NodeTypes
    BY <1>1 DEF IInv, NodeInv
  <2>2. PICK k \in 1..Len(records) : OnPersistReady(k)
    BY <1>1, <2>1, OnlyReportsRaise
  <2>3. Len(records') = Len(records) - k
    BY <2>1, <2>2, PersistParts, RecordsLeft
  <2>4. Len(records) - Len(records') = k
    <3>1. Len(records) \in Nat /\ k \in Nat
      BY <2>1 DEF NodeTypes
    <3> QED
      BY <2>3, <3>1
  <2> QED
    BY <2>1, <2>2, <2>4, ReportStep
<1>2. IInv /\ [Next]_vars =>
         [persisted' > persisted =>
             LET image == records[Len(records) - Len(records')].image
             IN  \A i \in FirstIndex..persisted' :
                    Has(image, i) => image.ent[i].term = TermAt(i)]_vars
  BY <1>1
<1> QED
  BY <1>2, FollowerInvariance, PTL DEF Spec, ReportedIsWritten
=============================================================================
