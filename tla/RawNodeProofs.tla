---------------------------- MODULE RawNodeProofs ---------------------------
(***************************************************************************)
(* Proofs about RawNode: IInv of module RawNodeInv is inductive, LogInv is *)
(* inductive given IInv, and what follows from them, the refinement of     *)
(* DurableLog included, for every value of the constants, when the         *)
(* application saves the commit index of a LightReady.  At the end, proofs *)
(* about AsyncNode, the task that owns a RawNode.                          *)
(***************************************************************************)
EXTENDS RawNodeInv, SequenceTheorems, FiniteSetTheorems, WellFoundedInduction, TLAPS

-----------------------------------------------------------------------------
\* The operators of LogSegment, MemStorage and RaftLog

\* An empty segment is a segment, wherever the log goes on.
LEMMA EmptyAtType ==
    ASSUME NEW i \in Nat \ {0}
    PROVE  /\ IsSegment(EmptyAt(i))
           /\ IsEmpty(EmptyAt(i))
           /\ EmptyAt(i).lo = i
           /\ EmptyAt(i).hi = i - 1
<1>1. EmptyAt(i).lo = i /\ EmptyAt(i).hi = i - 1
  BY DEF EmptyAt
<1>2. EmptyAt(i).ent \in [i..(i-1) -> Entry]
  <2>1. i..(i-1) = {}
    OBVIOUS
  <2> QED
    BY <2>1 DEF EmptyAt
<1>3. IsSegment(EmptyAt(i))
  BY <1>1, <1>2 DEF EmptyAt, IsSegment
<1> QED
  BY <1>1, <1>3 DEF IsEmpty

\* A one-entry segment holds its entry.
LEMMA SingleType ==
    ASSUME NEW i \in Nat \ {0}, NEW e \in Entry
    PROVE  /\ IsSegment(Single(i, e))
           /\ Single(i, e).lo = i
           /\ Single(i, e).hi = i
           /\ Single(i, e).ent[i] = e
BY DEF Single, IsSegment

\* Splice keeps what is below t and then holds t.
LEMMA SpliceType ==
    ASSUME NEW s, NEW t, IsSegment(s), IsSegment(t),
           s.lo <= t.lo, t.lo <= s.hi + 1
    PROVE  /\ IsSegment(Splice(s, t))
           /\ Splice(s, t).lo = s.lo
           /\ Splice(s, t).hi = t.hi
           /\ \A i \in s.lo..(t.lo - 1) : Splice(s, t).ent[i] = s.ent[i]
           /\ \A i \in t.lo..t.hi : Splice(s, t).ent[i] = t.ent[i]
BY DEF Splice, IsSegment

\* From keeps what is not below i.
LEMMA FromType ==
    ASSUME NEW s, IsSegment(s), NEW i \in Nat, s.lo <= i, i <= s.hi + 1
    PROVE  /\ IsSegment(From(s, i))
           /\ From(s, i).lo = i
           /\ From(s, i).hi = s.hi
           /\ \A k \in i..s.hi : From(s, i).ent[k] = s.ent[k]
BY DEF From, IsSegment

\* An entry appended to the log the node sees goes to the end of the unstable
\* segment, whose offset stays where the storage ends.
LEMMA AppendUnstable ==
    ASSUME NEW st, NEW un, NEW e \in Entry,
           IsSegment(st.log), IsSegment(un), un.lo = st.log.hi + 1,
           NEW un2, un2 = TruncateAndAppend(un, Single(LastIndex(st, un) + 1, e))
    PROVE  /\ LastIndex(st, un) \in Nat
           /\ IsSegment(un2)
           /\ ~IsEmpty(un2)
           /\ un2.lo = un.lo
           /\ un2.hi = LastIndex(st, un) + 1
           /\ LastIndex(st, un2) = LastIndex(st, un) + 1
           /\ un2.ent[LastIndex(st, un) + 1] = e
<1> DEFINE n == LastIndex(st, un) + 1
<1>1. /\ n \in Nat \ {0}
      /\ un.lo \in Nat /\ un.hi \in Nat /\ un.lo <= n
      /\ IF IsEmpty(un) THEN n = un.lo ELSE n = un.hi + 1
  BY DEF LastIndex, IsEmpty, IsSegment
<1>2. /\ IsSegment(Single(n, e))
      /\ Single(n, e).lo = n /\ Single(n, e).hi = n
      /\ Single(n, e).ent[n] = e
  BY <1>1, SingleType
<1> HIDE DEF n
<1>3. /\ IsSegment(un2)
      /\ un2.lo = un.lo /\ un2.hi = n /\ un2.ent[n] = e
  <2>1. CASE n <= un.lo
    <3>1. un2 = Single(n, e)
      BY <2>1, <1>2 DEF TruncateAndAppend, n
    <3> QED
      BY <2>1, <3>1, <1>1, <1>2
  <2>2. CASE ~(n <= un.lo)
    <3>1. un2 = Splice(un, Single(n, e))
      BY <2>2, <1>2 DEF TruncateAndAppend, n
    <3>2. n <= un.hi + 1
      BY <2>2, <1>1
    <3>3. \A i \in n..n : un2.ent[i] = Single(n, e).ent[i]
      BY <3>1, <3>2, <1>1, <1>2, SpliceType
    <3> QED
      BY <3>1, <3>2, <3>3, <1>1, <1>2, SpliceType
  <2> QED
    BY <2>1, <2>2
<1> QED
  <2>1. n = LastIndex(st, un) + 1 /\ LastIndex(st, un) \in Nat
    BY DEF n, LastIndex, IsEmpty, IsSegment
  <2>2. ~IsEmpty(un2)
    BY <1>1, <1>3 DEF IsEmpty
  <2>3. LastIndex(st, un2) = n
    BY <1>3, <2>2 DEF LastIndex
  <2> QED
    BY <1>3, <2>1, <2>2, <2>3

-----------------------------------------------------------------------------
\* The invariant

\* A HardState that follows one that follows an older one follows the older one.
LEMMA NotOlderTransitive ==
    ASSUME NEW a \in HardStates, NEW b \in HardStates, NEW c \in HardStates,
           NotOlder(a, b), NotOlder(b, c)
    PROVE  NotOlder(a, c)
BY DEF NotOlder, HardStates

\* The HardStates in storage, on disk and on their way to storage have their
\* type: terms, votes and commit indexes, and no vote in term 0.
LEMMA WrittenHsType ==
    ASSUME StateTypes
    PROVE  /\ disk.hs \in HardStates
           /\ store.hs \in HardStates
           /\ WrittenHs \in HardStates
BY DEF StateTypes, LogTypes, AppTypes, IsStorage, IsReady, HardStates, WrittenHs

\* So has the HardState the node is in.
LEMMA HardStateType ==
    ASSUME StateTypes, HardStatesOK
    PROVE  HardState \in HardStates
BY DEF StateTypes, LogTypes, RaftTypes, HardStates, HardState, HardStatesOK

\* Every index and counter the proofs compute with is a number, and every
\* segment ends at most one entry before it starts.
LEMMA Numbers ==
    ASSUME StateTypes
    PROVE  /\ store.log.lo \in Nat \ {0} /\ store.log.hi \in Nat
           /\ disk.log.lo \in Nat \ {0} /\ disk.log.hi \in Nat
           /\ unstable.lo \in Nat \ {0} /\ unstable.hi \in Nat
           /\ store.log.lo <= store.log.hi + 1
           /\ disk.log.lo <= disk.log.hi + 1
           /\ unstable.lo <= unstable.hi + 1
           /\ committed \in Nat /\ persisted \in Nat /\ applied \in Nat
           /\ term \in Nat /\ matched \in Nat
           /\ max_number \in Nat /\ commit_since_index \in Nat
           /\ light \in Nat /\ durable_number \in Nat
           /\ Len(sm) \in Nat /\ Len(inbox) \in Nat
           /\ WrittenNumber \in Int
           /\ Last \in Nat
<1>1. /\ Len(sm) \in Nat /\ Len(inbox) \in Nat
      /\ light \in Nat /\ durable_number \in Nat
  BY DEF StateTypes, AppTypes
<1>2. /\ max_number \in Nat /\ commit_since_index \in Nat
      /\ WrittenNumber \in Int
  BY DEF StateTypes, NodeTypes, WrittenNumber
<1>3. term \in Nat /\ matched \in Nat
  BY DEF StateTypes, RaftTypes
<1> QED
  BY <1>1, <1>2, <1>3 DEF StateTypes, LogTypes, IsStorage, IsSegment, Last, LastIndex

\* The records are a sequence, and each has a number and perhaps an entry.
LEMMA RecordTypes ==
    ASSUME StateTypes, NEW k \in DOMAIN records
    PROVE  /\ Len(records) \in Nat
           /\ DOMAIN records = 1..Len(records)
           /\ records[k] \in ReadyRecord
           /\ records[k].number \in Nat
           /\ records[k].last_entry # NoEntry =>
                 /\ records[k].last_entry[1] \in Nat
                 /\ records[k].last_entry[2] \in Nat
<1>1. /\ Len(records) \in Nat /\ DOMAIN records = 1..Len(records)
      /\ records[k] \in ReadyRecord
  BY DEF StateTypes, NodeTypes
<1> QED
  BY <1>1 DEF ReadyRecord

\* The commit index the storage has or gets next is an index of the log.
LEMMA WrittenCommit ==
    ASSUME StateTypes, HardStatesOK, Watermarks
    PROVE  WrittenHs.commit <= Last
<1>1. WrittenHs.commit <= committed
  BY DEF HardStatesOK, NotOlder, HardState
<1> QED
  BY <1>1, WrittenHsType, Numbers DEF Watermarks, HardStates

\* The chain of indexes from what is applied to the end of the log.
LEMMA Order ==
    ASSUME IInv
    PROVE  /\ store.log.lo <= applied + 1
           /\ store.log.lo <= Len(sm) + 1
           /\ disk.log.lo <= store.log.lo
           /\ applied <= Len(sm)
           /\ commit_since_index = Len(sm) + Len(inbox)
           /\ Len(sm) <= commit_since_index
           /\ commit_since_index <= persisted
           /\ commit_since_index <= committed
           /\ persisted <= disk.log.hi
           /\ persisted <= store.log.hi
           /\ disk.log.hi <= store.log.hi
           /\ store.log.hi <= Last
           /\ committed <= Last
           /\ matched <= persisted
           /\ persisted < unstable.lo
           /\ Len(sm) <= disk.hs.commit
           /\ Len(sm) <= store.hs.commit
<1>1. StateTypes
  BY DEF IInv
<1>2. /\ store.log.lo \in Nat /\ store.log.hi \in Nat
      /\ disk.log.lo \in Nat /\ disk.log.hi \in Nat
      /\ unstable.lo \in Nat /\ unstable.hi \in Nat
      /\ applied \in Nat /\ persisted \in Nat /\ committed \in Nat
      /\ Len(sm) \in Nat /\ Len(inbox) \in Nat /\ commit_since_index \in Nat
  BY <1>1, Numbers
<1>3. disk.hs.commit \in Nat /\ store.hs.commit \in Nat
  BY <1>1, WrittenHsType DEF HardStates
<1>4. store.log.hi <= Last
  <2>1. CASE IsEmpty(unstable)
    BY <2>1, <1>2 DEF Last, LastIndex
  <2>2. CASE ~IsEmpty(unstable)
    <3>1. Last = unstable.hi /\ unstable.lo <= unstable.hi
      BY <2>2, <1>2 DEF Last, LastIndex, IsEmpty
    <3>2. unstable.lo = store.log.hi + 1 \/ store.log.hi = unstable.hi
      BY <2>2 DEF IInv, ReadyShape
    <3> QED
      BY <3>1, <3>2, <1>2
  <2> QED
    BY <2>1, <2>2
<1>5. commit_since_index = Len(sm) + Len(inbox)
  BY DEF IInv, InOrder
<1>6. /\ disk.log.lo <= store.log.lo
      /\ disk.log.hi <= store.log.hi
      /\ disk.hs.commit <= store.hs.commit
  BY DEF IInv, DiskBehind, NotOlder
<1>7. Watermarks
  BY DEF IInv
<1>8. Len(sm) <= commit_since_index
  BY <1>2, <1>5
<1>9. /\ store.log.lo <= Len(sm) + 1
      /\ persisted <= store.log.hi
      /\ Len(sm) <= store.hs.commit
  <2>1. /\ store.log.lo <= applied + 1 /\ applied <= Len(sm)
        /\ persisted <= disk.log.hi /\ Len(sm) <= disk.hs.commit
    BY <1>7 DEF Watermarks
  <2>2. store.log.lo <= Len(sm) + 1
    BY <1>2, <2>1
  <2>3. persisted <= store.log.hi
    BY <1>2, <1>6, <2>1
  <2>4. Len(sm) <= store.hs.commit
    BY <1>2, <1>3, <1>6, <2>1
  <2> QED
    BY <2>2, <2>3, <2>4
<1> QED
  BY <1>4, <1>5, <1>6, <1>7, <1>8, <1>9 DEF Watermarks

\* Writing the HardState of a Ready keeps the invariant.
LEMMA WriteHardStateStep ==
    ASSUME SaveLightCommit, IInv, WriteHardState
    PROVE  IInv'
<1> USE DEF IInv
<1>0. /\ store' = [store EXCEPT !.hs = WrittenHs]
      /\ store'.log = store.log /\ store'.hs = WrittenHs
  BY DEF WriteHardState, WrittenHs, StateTypes, LogTypes, IsStorage, SetHardState
<1>a. Last' = Last
  BY <1>0 DEF Last, LastIndex, WriteHardState, logVars
<1>1. StateTypes'
  <2>1. LogTypes'
    BY <1>0, WrittenHsType DEF StateTypes, LogTypes, WriteHardState, IsStorage, logVars
  <2>2. RaftTypes' /\ NodeTypes' /\ AppTypes'
    BY DEF StateTypes, RaftTypes, NodeTypes, AppTypes, WriteHardState, raftVars, nodeVars
  <2> QED
    BY <2>1, <2>2 DEF StateTypes
<1>2. ReadyShape'
  BY <1>0 DEF WriteHardState, ReadyShape, InReady, raftVars, logVars, nodeVars
<1>3. DiskBehind'
  <2>1. NotOlder(disk.hs, WrittenHs)
    BY NotOlderTransitive, WrittenHsType DEF DiskBehind, HardStatesOK
  <2> QED
    BY <1>0, <2>1 DEF WriteHardState, DiskBehind
<1>4. Watermarks'
  BY <1>0, <1>a DEF WriteHardState, Watermarks, raftVars, logVars, nodeVars
<1>5. RecordsOK' /\ NothingToDrain'
  <2>1. WrittenNumber' = max_number /\ WrittenNumber = max_number - 1
    BY DEF WriteHardState, WrittenNumber, nodeVars
  <2>2. Last = store.log.hi
    BY DEF Last, LastIndex, ReadyShape, WriteHardState, IsEmpty
  <2>3. ASSUME NEW k \in DOMAIN records
        PROVE  RecordPlace(records[k])'
    <3>1. RecordPlace(records[k])
      BY DEF RecordsOK
    <3> QED
      BY <1>0, <1>a, <2>2, <3>1 DEF RecordPlace, WriteHardState, nodeVars, logVars
  <2>4. durable_number <= max_number
    BY <2>1, Numbers DEF RecordsOK
  <2> QED
    BY <2>1, <2>3, <2>4 DEF WriteHardState, RecordsOK, NothingToDrain, nodeVars
<1>6. HardStatesOK'
  <2>1. WrittenHs' = WrittenHs
    BY <1>0 DEF WrittenHs, WriteHardState
  <2>2. HardState' = HardState
    BY DEF HardState, WriteHardState, raftVars, logVars
  <2>3. NotOlder(WrittenHs, WrittenHs)
    BY WrittenHsType DEF NotOlder, HardStates
  <2>4. WrittenHs.commit <= store.log.hi
    <3>1. Last = store.log.hi
      BY DEF Last, LastIndex, ReadyShape, WriteHardState, IsEmpty
    <3> QED
      BY <3>1, WrittenCommit
  <2>5. PrevHsAfterCommitReady' = PrevHsAfterCommitReady
    BY DEF PrevHsAfterCommitReady, WriteHardState, nodeVars
  <2> QED
    BY <1>0, <2>1, <2>2, <2>3, <2>4, <2>5, WrittenHsType DEF WriteHardState, HardStatesOK, raftVars, InReady
<1>7. FollowerLog'
  BY <1>0, <1>a DEF WriteHardState, FollowerLog, raftVars, logVars, LogEntry
<1>8. InOrder' /\ HandedOutIsDurable' /\ NoPanic'
  BY DEF WriteHardState, InOrder, HandedOutIsDurable, NoPanic, raftVars, logVars, nodeVars
<1> QED
  BY <1>1, <1>2, <1>3, <1>4, <1>5, <1>6, <1>7, <1>8

\* A read index keeps the invariant.
LEMMA ReadIndexStep ==
    ASSUME SaveLightCommit, IInv, ReadIndex
    PROVE  IInv'
<1> USE DEF IInv, ReadIndex, logVars, nodeVars, appVars
<1>1. StateTypes'
  <2>1. LogTypes' /\ NodeTypes'
    BY DEF StateTypes, LogTypes, NodeTypes
  <2>2. RaftTypes' /\ AppTypes'
    BY DEF StateTypes, LogTypes, RaftTypes, AppTypes
  <2> QED
    BY <2>1, <2>2 DEF StateTypes
<1>2. ReadyShape' /\ DiskBehind'
  BY DEF ReadyShape, DiskBehind, InReady
<1>3. Watermarks' /\ RecordsOK' /\ NothingToDrain' /\ FollowerLog'
  BY DEF Watermarks, RecordsOK, RecordPlace, NothingToDrain, FollowerLog,
         Last, WrittenNumber
<1>4. HardStatesOK'
  BY DEF HardStatesOK, WrittenHs, HardState, PrevHsAfterCommitReady, InReady
<1>5. InOrder' /\ HandedOutIsDurable' /\ NoPanic'
  BY DEF InOrder, HandedOutIsDurable, NoPanic
<1> QED
  BY <1>1, <1>2, <1>3, <1>4, <1>5

\* A step that changes nothing keeps the invariant.
LEMMA Stutter ==
    ASSUME IInv, UNCHANGED vars
    PROVE  IInv'
<1> USE DEF IInv, vars, logVars, raftVars, nodeVars, appVars
<1>1. StateTypes'
  BY DEF StateTypes, LogTypes, RaftTypes, NodeTypes, AppTypes
<1>2. ReadyShape' /\ DiskBehind'
  BY DEF ReadyShape, DiskBehind, InReady
<1>3. Watermarks' /\ RecordsOK' /\ NothingToDrain' /\ FollowerLog'
  BY DEF Watermarks, RecordsOK, RecordPlace, NothingToDrain, FollowerLog,
         Last, WrittenNumber
<1>4. HardStatesOK'
  BY DEF HardStatesOK, WrittenHs, HardState, PrevHsAfterCommitReady, InReady
<1>5. InOrder' /\ HandedOutIsDurable' /\ NoPanic'
  BY DEF InOrder, HandedOutIsDurable, NoPanic
<1> QED
  BY <1>1, <1>2, <1>3, <1>4, <1>5

\* A sync of the storage to disk keeps the invariant.
LEMMA SyncStep ==
    ASSUME SaveLightCommit, IInv, Sync
    PROVE  IInv'
<1> USE DEF IInv, Sync, logVars, raftVars, nodeVars
<1>1. StateTypes'
  <2>1. RaftTypes' /\ NodeTypes' /\ LogTypes'
    BY DEF StateTypes, LogTypes, RaftTypes, NodeTypes
  <2>2. WrittenNumber \in Nat
    BY Numbers DEF RecordsOK
  <2>3. AppTypes'
    BY <2>2 DEF StateTypes, AppTypes
  <2> QED
    BY <2>1, <2>3 DEF StateTypes
<1>2. ReadyShape'
  BY DEF ReadyShape, InReady
<1>3. DiskBehind'
  <2>1. NotOlder(store.hs, store.hs)
    BY WrittenHsType DEF NotOlder, HardStates
  <2>2. store.log.lo \in Nat /\ store.log.hi \in Nat
    BY Numbers
  <2> QED
    BY <2>1, <2>2 DEF DiskBehind, HardStatesOK
<1>4. Watermarks'
  <2>1. Len(sm) <= store.hs.commit
    BY Order
  <2>2. persisted <= store.log.hi
    BY Order
  <2> QED
    BY <2>1, <2>2 DEF Watermarks, Last
<1>5. RecordsOK' /\ NothingToDrain'
  <2>1. WrittenNumber' = WrittenNumber /\ durable_number' = WrittenNumber
    BY DEF WrittenNumber
  <2>2. ASSUME NEW k \in DOMAIN records
        PROVE  RecordPlace(records[k])'
    BY <2>1 DEF RecordsOK, RecordPlace, Last
  <2>3. WrittenNumber \in Int
    BY Numbers
  <2> QED
    BY <2>1, <2>2, <2>3 DEF RecordsOK, NothingToDrain
<1>6. HardStatesOK' /\ FollowerLog'
  BY DEF HardStatesOK, WrittenHs, HardState, PrevHsAfterCommitReady, InReady,
         FollowerLog, Last
<1>7. HandedOutIsDurable'
  <2>0. /\ disk.log.lo <= store.log.lo /\ store.log.lo <= Len(sm) + 1
        /\ disk.log.hi <= store.log.hi
    BY Order
  <2>a. /\ disk.log.lo \in Nat /\ disk.log.hi \in Nat
        /\ store.log.lo \in Nat /\ store.log.hi \in Nat
    BY Numbers
  <2>1. ASSUME NEW d \in AppEntry,
               d.index <= disk.log.hi,
               d.index >= disk.log.lo => disk.log.ent[d.index] = d.entry
        PROVE  /\ d.index <= store.log.hi
               /\ d.index >= store.log.lo => store.log.ent[d.index] = d.entry
    <3>1. d.index \in Nat
      BY DEF AppEntry
    <3> QED
      BY <2>0, <2>a, <2>1, <3>1 DEF DiskBehind
  <2>2. /\ \A k \in 1..Len(sm) : sm[k] \in AppEntry
        /\ \A k \in 1..Len(inbox) : inbox[k] \in AppEntry
    BY DEF StateTypes, AppTypes
  <2> QED
    BY <2>0, <2>1, <2>2 DEF HandedOutIsDurable
<1>8. InOrder' /\ NoPanic'
  BY DEF InOrder, NoPanic
<1> QED
  BY <1>1, <1>2, <1>3, <1>4, <1>5, <1>6, <1>7, <1>8

\* Writing the commit index of a LightReady keeps the invariant.
LEMMA WriteCommitStep ==
    ASSUME SaveLightCommit, IInv, WriteCommit
    PROVE  IInv'
<1> USE DEF IInv, WriteCommit, logVars, raftVars, nodeVars
<1>1. store'.log = store.log /\ store'.hs = WrittenHs
      /\ store' = [store EXCEPT !.hs = WrittenHs]
  BY DEF WrittenHs, StateTypes, LogTypes, IsStorage, SetCommit
<1>2. Last' = Last
  BY <1>1 DEF Last, LastIndex
<1>3. StateTypes'
  <2>1. LogTypes'
    BY <1>1, WrittenHsType DEF StateTypes, LogTypes, IsStorage
  <2>2. RaftTypes' /\ NodeTypes' /\ AppTypes'
    BY DEF StateTypes, RaftTypes, NodeTypes, AppTypes
  <2> QED
    BY <2>1, <2>2 DEF StateTypes
<1>4. ReadyShape'
  BY <1>1 DEF ReadyShape, InReady
<1>5. DiskBehind'
  <2>1. NotOlder(disk.hs, WrittenHs)
    BY NotOlderTransitive, WrittenHsType DEF DiskBehind, HardStatesOK
  <2> QED
    BY <1>1, <2>1 DEF DiskBehind
<1>6. Watermarks'
  BY <1>1, <1>2 DEF Watermarks
<1>7. RecordsOK' /\ NothingToDrain'
  <2>1. WrittenNumber' = WrittenNumber
    BY DEF WrittenNumber
  <2>2. ASSUME NEW k \in DOMAIN records
        PROVE  RecordPlace(records[k])'
    BY <1>1, <1>2, <2>1 DEF RecordsOK, RecordPlace
  <2> QED
    BY <2>1, <2>2 DEF RecordsOK, NothingToDrain, ReadyShape
<1>8. HardStatesOK'
  <2>1. WrittenHs' = WrittenHs
    BY <1>1 DEF WrittenHs
  <2>2. HardState' = HardState
    BY DEF HardState
  <2>3. NotOlder(WrittenHs, WrittenHs)
    BY WrittenHsType DEF NotOlder, HardStates
  <2>4. WrittenHs.commit <= store.log.hi
    <3>1. Last = store.log.hi
      BY DEF Last, LastIndex, ReadyShape
    <3> QED
      BY <3>1, WrittenCommit
  <2> QED
    BY <1>1, <2>1, <2>2, <2>3, <2>4 DEF HardStatesOK, InReady
<1>9. FollowerLog'
  BY <1>1, <1>2 DEF FollowerLog, LogEntry
<1>10. InOrder' /\ HandedOutIsDurable' /\ NoPanic'
  BY DEF InOrder, HandedOutIsDurable, NoPanic
<1> QED
  BY <1>1, <1>3, <1>4, <1>5, <1>6, <1>7, <1>8, <1>9, <1>10

\* advance_apply_to keeps the invariant.
LEMMA AdvanceApplyStep ==
    ASSUME SaveLightCommit, IInv, AdvanceApply
    PROVE  IInv'
<1> USE DEF IInv, AdvanceApply, raftVars, nodeVars, appVars
<1>0. /\ applied \in Nat /\ Len(sm) \in Nat
      /\ store.log.lo \in Nat
      /\ commit_since_index \in Nat /\ committed \in Nat /\ persisted \in Nat
  BY Numbers
<1>1. /\ applied <= Len(sm)
      /\ Len(sm) <= commit_since_index
      /\ commit_since_index <= persisted
      /\ commit_since_index <= committed
      /\ store.log.lo <= applied + 1
  BY Order
<1>2. StateTypes'
  BY <1>0 DEF StateTypes, LogTypes, RaftTypes, NodeTypes, AppTypes
<1>3. ReadyShape' /\ DiskBehind'
  BY DEF ReadyShape, DiskBehind, InReady
<1>4. Watermarks'
  BY <1>0, <1>1 DEF Watermarks, Last
<1>5. RecordsOK' /\ NothingToDrain' /\ FollowerLog'
  BY DEF RecordsOK, RecordPlace, NothingToDrain, FollowerLog, Last, WrittenNumber
<1>6. HardStatesOK'
  BY DEF HardStatesOK, WrittenHs, HardState, PrevHsAfterCommitReady, InReady
<1>7. NoPanic'
  BY <1>0, <1>1 DEF NoPanic, Check, CanApply, NextTo
<1>8. InOrder' /\ HandedOutIsDurable'
  BY DEF InOrder, HandedOutIsDurable
<1> QED
  BY <1>2, <1>3, <1>4, <1>5, <1>6, <1>7, <1>8

\* Compaction keeps the invariant.
LEMMA CompactStep ==
    ASSUME SaveLightCommit, IInv, Compact
    PROVE  IInv'
<1> USE DEF IInv, Compact, logVars, raftVars, nodeVars, appVars
<1>1. PICK i \in (store.log.lo + 1)..applied : store' = StorageCompact(store, i)
  OBVIOUS
<1>2. /\ store.log.lo \in Nat \ {0} /\ store.log.hi \in Nat
      /\ disk.log.lo \in Nat /\ disk.log.hi \in Nat
      /\ applied \in Nat /\ persisted \in Nat /\ Last \in Nat
      /\ Len(sm) \in Nat /\ commit_since_index \in Nat
  BY Numbers
<1>3. i \in Nat /\ store.log.lo < i /\ i <= applied /\ i <= store.log.hi /\ i <= persisted
  <2>1. /\ applied <= Len(sm) /\ Len(sm) <= commit_since_index
        /\ commit_since_index <= persisted /\ persisted <= store.log.hi
    BY Order
  <2>2. i \in Nat /\ store.log.lo < i /\ i <= applied
    BY <1>2
  <2>3. applied <= persisted
    BY <1>2, <2>1
  <2> QED
    BY <1>2, <2>1, <2>2, <2>3
<1>4. store' = [store EXCEPT !.log = From(store.log, i)]
  BY <1>1, <1>2, <1>3 DEF StorageCompact
<1>5. IsSegment(store.log) /\ store.hs \in HardStates
  BY DEF StateTypes, LogTypes, IsStorage
<1>6. store'.log = From(store.log, i) /\ store'.hs = store.hs
  BY <1>4 DEF StateTypes, LogTypes, IsStorage
<1>7. /\ IsSegment(store'.log)
      /\ store'.log.lo = i
      /\ store'.log.hi = store.log.hi
      /\ \A k \in i..store.log.hi : store'.log.ent[k] = store.log.ent[k]
  <2>1. i \in Nat /\ store.log.lo <= i /\ i <= store.log.hi + 1
    BY <1>2, <1>3
  <2> QED
    BY <1>5, <1>6, <2>1, FromType
<1>8. Last' = Last
  BY <1>7 DEF Last, LastIndex
<1>9. StateTypes'
  <2>1. LogTypes'
    BY <1>4, <1>5, <1>6, <1>7 DEF StateTypes, LogTypes, IsStorage
  <2>2. RaftTypes' /\ NodeTypes' /\ AppTypes'
    BY DEF StateTypes, RaftTypes, NodeTypes, AppTypes
  <2> QED
    BY <2>1, <2>2 DEF StateTypes
<1>10. ReadyShape'
  BY <1>7 DEF ReadyShape, InReady
<1>11. DiskBehind'
  BY <1>2, <1>3, <1>6, <1>7 DEF DiskBehind
<1>12. Watermarks'
  BY <1>2, <1>3, <1>7, <1>8 DEF Watermarks
<1>13. RecordsOK' /\ NothingToDrain'
  <2>1. WrittenNumber' = WrittenNumber
    BY DEF WrittenNumber
  <2>2. ASSUME NEW k \in DOMAIN records
        PROVE  RecordPlace(records[k])'
    BY <1>7, <1>8, <2>1 DEF RecordsOK, RecordPlace
  <2> QED
    BY <2>1, <2>2 DEF RecordsOK, NothingToDrain
<1>14. HardStatesOK'
  <2>1. WrittenHs' = WrittenHs /\ HardState' = HardState
    BY <1>6 DEF WrittenHs, HardState
  <2> QED
    BY <1>6, <1>7, <2>1 DEF HardStatesOK, InReady
<1>15. FollowerLog'
  <2>1. Last = persisted \/ Last # 1
    BY <1>2, <1>3, Order
  <2> QED
    BY <1>8, <2>1 DEF FollowerLog
<1>16. InOrder' /\ HandedOutIsDurable' /\ NoPanic'
  BY DEF InOrder, HandedOutIsDurable, NoPanic
<1> QED
  BY <1>9, <1>10, <1>11, <1>12, <1>13, <1>14, <1>15, <1>16

\* What an election of the one voter can commit.
LEMMA LeaderCommitBound ==
    ASSUME NEW un, NEW m \in Nat, committed \in Nat
    PROVE  /\ LeaderCommit(un, m) \in Nat
           /\ committed <= LeaderCommit(un, m)
           /\ LeaderCommit(un, m) = committed \/ LeaderCommit(un, m) = m
           /\ state # "Leader" => LeaderCommit(un, m) = committed
BY DEF LeaderCommit, MaybeCommit

\* A commit index that grows keeps what is known of the HardStates.
LEMMA CommitGrows ==
    ASSUME StateTypes, HardStatesOK, committed' \in Nat, committed <= committed',
           term' = term, vote' = vote
    PROVE  NotOlder(WrittenHs, HardState')
<1>1. NotOlder(HardState, HardState')
  BY Numbers DEF NotOlder, HardState
<1>2. HardState' \in HardStates
  BY DEF HardState, HardStates, StateTypes, RaftTypes, HardStatesOK
<1> QED
  BY <1>1, <1>2, WrittenHsType, HardStateType, NotOlderTransitive DEF HardStatesOK

\* Applying an entry keeps the invariant.
LEMMA ApplyEntryStep ==
    ASSUME SaveLightCommit, IInv, ApplyEntry
    PROVE  IInv'
<1> USE DEF IInv, ApplyEntry, raftVars, nodeVars
<1>1. /\ committed \in Nat /\ matched \in Nat /\ persisted \in Nat
      /\ store.log.hi \in Nat /\ Last \in Nat /\ applied \in Nat
      /\ Len(sm) \in Nat /\ Len(inbox) \in Nat /\ commit_since_index \in Nat
  BY Numbers
<1>2. /\ committed' \in Nat
      /\ committed <= committed'
      /\ committed' = committed \/ committed' = matched
      /\ state # "Leader" => committed' = committed
  BY <1>1, LeaderCommitBound
<1>3. Last' = Last /\ WrittenNumber' = WrittenNumber
  BY DEF Last, WrittenNumber
<1>4. /\ inbox \in Seq(AppEntry) /\ sm \in Seq(AppEntry) /\ inbox # <<>>
      /\ Head(inbox) \in AppEntry
      /\ Head(inbox) = inbox[1]
      /\ Len(inbox) >= 1
  BY DEF StateTypes, AppTypes
<1>5. /\ sm' \in Seq(AppEntry)
      /\ Len(sm') = Len(sm) + 1
      /\ \A k \in 1..Len(sm) : sm'[k] = sm[k]
      /\ sm'[Len(sm) + 1] = inbox[1]
  BY <1>4
<1>6. /\ inbox' \in Seq(AppEntry)
      /\ Len(inbox') = Len(inbox) - 1
      /\ \A k \in 1..Len(inbox') : inbox'[k] = inbox[k + 1]
  BY <1>4
<1>7. inbox[1].index = Len(sm) + 1
  BY <1>4 DEF InOrder
<1>8. StateTypes'
  BY <1>2, <1>5, <1>6 DEF StateTypes, LogTypes, RaftTypes, NodeTypes, AppTypes
<1>9. ReadyShape' /\ DiskBehind'
  BY DEF ReadyShape, DiskBehind, InReady
<1>10. Watermarks'
  <2>1. Len(sm') <= disk.hs.commit
    BY <1>4, <1>5, <1>7
  <2>2. committed' <= Last
    BY <1>1, <1>2, Order
  <2> QED
    BY <1>1, <1>2, <1>3, <1>5, <2>1, <2>2 DEF Watermarks
<1>11. RecordsOK' /\ NothingToDrain'
  BY <1>3 DEF RecordsOK, RecordPlace, NothingToDrain
<1>12. HardStatesOK'
  <2>1. NotOlder(WrittenHs, HardState')
    BY <1>1, <1>2, CommitGrows
  <2>2. WrittenHs' = WrittenHs /\ PrevHsAfterCommitReady' = PrevHsAfterCommitReady
    BY DEF WrittenHs, PrevHsAfterCommitReady
  <2> QED
    BY <2>1, <2>2 DEF HardStatesOK, InReady
<1>13. FollowerLog'
  BY <1>1, <1>2, <1>3 DEF FollowerLog
<1>14. InOrder'
  <2>1. \A k \in 1..Len(sm') : sm'[k].index = k
    BY <1>1, <1>5, <1>7 DEF InOrder
  <2>2. \A k \in 1..Len(inbox') : inbox'[k].index = Len(sm') + k
    BY <1>1, <1>5, <1>6 DEF InOrder
  <2>3. commit_since_index' = Len(sm') + Len(inbox')
    BY <1>1, <1>5, <1>6 DEF InOrder
  <2> QED
    BY <2>1, <2>2, <2>3 DEF InOrder
<1>15. HandedOutIsDurable'
  <2> DEFINE Durable(d) ==
         /\ d.index <= disk.log.hi
         /\ d.index >= disk.log.lo => disk.log.ent[d.index] = d.entry
  <2>1. /\ \A k \in 1..Len(sm) : Durable(sm[k])
        /\ \A k \in 1..Len(inbox) : Durable(inbox[k])
        /\ disk.log.lo <= Len(sm) + 1
    BY DEF HandedOutIsDurable
  <2> HIDE DEF Durable
  <2>2. \A k \in 1..Len(sm') : Durable(sm'[k])
    BY <1>1, <1>4, <1>5, <2>1
  <2>3. \A k \in 1..Len(inbox') : Durable(inbox'[k])
    BY <1>1, <1>6, <2>1
  <2>4. disk.log.lo \in Nat
    BY Numbers
  <2>5. disk.log.lo <= Len(sm') + 1
    BY <1>1, <1>5, <2>1, <2>4
  <2> QED
    BY <2>2, <2>3, <2>5 DEF Durable, HandedOutIsDurable
<1>16. NoPanic'
  BY DEF NoPanic
<1> QED
  BY <1>8, <1>9, <1>10, <1>11, <1>12, <1>13, <1>14, <1>15, <1>16

\* Writing the entries of a Ready keeps the invariant.
LEMMA WriteEntriesStep ==
    ASSUME SaveLightCommit, IInv, WriteEntries
    PROVE  IInv'
<1>0. /\ StateTypes /\ ReadyShape /\ DiskBehind /\ Watermarks /\ RecordsOK
      /\ NothingToDrain /\ HardStatesOK /\ FollowerLog
  BY DEF IInv
<1>1. /\ store.log.lo \in Nat \ {0} /\ store.log.hi \in Nat
      /\ disk.log.lo \in Nat /\ disk.log.hi \in Nat
      /\ unstable.lo \in Nat /\ unstable.hi \in Nat
      /\ store.log.lo <= store.log.hi + 1
      /\ unstable.lo <= unstable.hi + 1
      /\ max_number \in Nat
  BY <1>0, Numbers
<1>2. rd.entries = unstable /\ unstable.lo = store.log.hi + 1
  BY <1>0 DEF WriteEntries, ReadyShape, InReady
<1>3. /\ IsSegment(store.log) /\ IsSegment(unstable) /\ store.hs \in HardStates
      /\ store = [log |-> store.log, hs |-> store.hs]
  BY <1>0 DEF StateTypes, LogTypes, IsStorage
<1>4. /\ IsSegment(Splice(store.log, unstable))
      /\ Splice(store.log, unstable).lo = store.log.lo
      /\ Splice(store.log, unstable).hi = unstable.hi
      /\ \A i \in store.log.lo..(unstable.lo - 1) :
            Splice(store.log, unstable).ent[i] = store.log.ent[i]
      /\ \A i \in unstable.lo..unstable.hi :
            Splice(store.log, unstable).ent[i] = unstable.ent[i]
  <2>1. store.log.lo <= unstable.lo /\ unstable.lo <= store.log.hi + 1
    BY <1>1, <1>2
  <2> QED
    BY <1>3, <2>1, SpliceType
<1>5. /\ store' = [log |-> store'.log, hs |-> store.hs]
      /\ store'.hs = store.hs
      /\ IsSegment(store'.log)
      /\ store'.log.lo = store.log.lo
      /\ store'.log.hi = IF IsEmpty(unstable) THEN store.log.hi ELSE unstable.hi
      /\ \A i \in store.log.lo..store.log.hi : store'.log.ent[i] = store.log.ent[i]
      /\ ~IsEmpty(unstable) => \A i \in unstable.lo..unstable.hi :
                                  store'.log.ent[i] = unstable.ent[i]
  <2>1. CASE IsEmpty(unstable)
    BY <2>1, <1>2, <1>3 DEF WriteEntries, StorageAppend
  <2>2. CASE ~IsEmpty(unstable)
    <3>1. store' = [store EXCEPT !.log = Splice(store.log, unstable)]
      BY <2>2, <1>2 DEF WriteEntries, StorageAppend
    <3>2. store'.log = Splice(store.log, unstable) /\ store'.hs = store.hs
      BY <3>1, <1>3
    <3>3. store' = [log |-> store'.log, hs |-> store.hs]
      BY <3>1, <3>2, <1>3
    <3>4. store.log.hi = unstable.lo - 1
      BY <1>1, <1>2
    <3> QED
      BY <2>2, <3>2, <3>3, <3>4, <1>4
  <2> QED
    BY <2>1, <2>2
<1>6. /\ store.log.hi <= store'.log.hi
      /\ store'.log.hi \in Nat
      /\ Last' = Last
      /\ Last = store'.log.hi
  <2>1. Last = store'.log.hi /\ Last' = store'.log.hi
    BY <1>5 DEF WriteEntries, logVars, Last, LastIndex
  <2>2. store.log.hi <= store'.log.hi /\ store'.log.hi \in Nat
    BY <1>1, <1>2, <1>5 DEF IsEmpty
  <2> QED
    BY <2>1, <2>2
<1>7. StateTypes'
  <2>1. LogTypes'
    BY <1>0, <1>3, <1>5 DEF WriteEntries, logVars, StateTypes, LogTypes, IsStorage
  <2>2. RaftTypes' /\ NodeTypes' /\ AppTypes'
    BY <1>0 DEF WriteEntries, raftVars, nodeVars, StateTypes, RaftTypes, NodeTypes, AppTypes
  <2> QED
    BY <2>1, <2>2 DEF StateTypes
<1>8. ReadyShape'
  BY <1>0, <1>1, <1>2, <1>5 DEF WriteEntries, logVars, raftVars, nodeVars,
         ReadyShape, InReady, IsEmpty
<1>9. DiskBehind'
  <2>1. disk' = disk
    BY DEF WriteEntries
  <2>2. \A i \in store.log.lo..disk.log.hi : store'.log.ent[i] = store.log.ent[i]
    BY <1>0, <1>1, <1>5 DEF DiskBehind
  <2>3. disk.log.hi <= store'.log.hi
    BY <1>0, <1>1, <1>6 DEF DiskBehind
  <2> QED
    BY <1>0, <1>5, <2>1, <2>2, <2>3 DEF DiskBehind
<1>10. Watermarks'
  BY <1>0, <1>5, <1>6 DEF WriteEntries, logVars, raftVars, nodeVars, Watermarks
<1>11. RecordsOK' /\ NothingToDrain'
  <2>1. WrittenNumber' = WrittenNumber
    BY DEF WriteEntries, nodeVars, WrittenNumber
  <2>2. ASSUME NEW k \in DOMAIN records
        PROVE  RecordPlace(records[k])'
    <3>1. RecordPlace(records[k])
      BY <1>0 DEF RecordsOK
    <3> QED
      <4>1. store'.log.hi \in Nat /\ store.log.hi \in Nat
            /\ records[k].last_entry # NoEntry => records[k].last_entry[1] \in Nat
        BY <1>0, <1>1, <1>6, RecordTypes
      <4> QED
        BY <1>6, <2>1, <3>1, <4>1 DEF WriteEntries, logVars, nodeVars, RecordPlace
  <2> QED
    BY <1>0, <2>1, <2>2 DEF WriteEntries, nodeVars, raftVars, RecordsOK, NothingToDrain
<1>12. HardStatesOK'
  <2>1. WrittenHs' = WrittenHs /\ HardState' = HardState
        /\ PrevHsAfterCommitReady' = PrevHsAfterCommitReady
    BY <1>5 DEF WriteEntries, logVars, raftVars, nodeVars, WrittenHs, HardState,
           PrevHsAfterCommitReady
  <2>2. store.hs.commit <= store'.log.hi
    BY <1>0, <1>1, <1>3, <1>5, <1>6 DEF HardStatesOK, HardStates
  <2> QED
    BY <1>0, <1>5, <2>1, <2>2 DEF WriteEntries, raftVars, HardStatesOK, InReady
<1>13. FollowerLog'
  <2>1. Last = 1 /\ store.log.lo = 1
           => LogEntry(store, unstable, 1)' = LogEntry(store, unstable, 1)
    <3>1. unstable' = unstable
      BY DEF WriteEntries, logVars
    <3> QED
      BY <3>1, <1>1, <1>2, <1>5 DEF LogEntry
  <2> QED
    BY <1>0, <1>5, <1>6, <2>1 DEF WriteEntries, logVars, raftVars, FollowerLog
<1>14. NoPanic'
  <2>1. CanAppend(store, rd.entries)
    BY <1>1, <1>2 DEF CanAppend
  <2> QED
    BY <2>1 DEF WriteEntries, NoPanic, Check
<1>15. InOrder' /\ HandedOutIsDurable'
  BY DEF IInv, WriteEntries, nodeVars, InOrder, HandedOutIsDurable
<1> QED
  BY <1>7, <1>8, <1>9, <1>10, <1>11, <1>12, <1>13, <1>14, <1>15 DEF IInv

\* A call between two Readies that appends an entry e keeps the shape of the
\* log and the places of the records.
LEMMA AppendKeeps ==
    ASSUME IInv, stage = "idle", NEW e \in Entry,
           unstable' = TruncateAndAppend(unstable, Single(Last + 1, e)),
           UNCHANGED <<stage, store, disk, records, max_number, persisted,
                       durable_number>>
    PROVE  /\ IsSegment(unstable')
           /\ ~IsEmpty(unstable')
           /\ unstable'.lo = unstable.lo
           /\ unstable'.hi = Last + 1
           /\ unstable'.ent[Last + 1] = e
           /\ Last' = Last + 1
           /\ ReadyShape'
           /\ DiskBehind'
           /\ RecordsOK'
<1>0. StateTypes /\ ReadyShape /\ DiskBehind /\ RecordsOK
  BY DEF IInv
<1>1. IsSegment(store.log) /\ IsSegment(unstable)
  BY <1>0 DEF StateTypes, LogTypes, IsStorage
<1>2. unstable.lo = store.log.hi + 1
  BY <1>0 DEF ReadyShape
<1>3. /\ IsSegment(unstable')
      /\ ~IsEmpty(unstable')
      /\ unstable'.lo = unstable.lo
      /\ unstable'.hi = Last + 1
      /\ unstable'.ent[Last + 1] = e
      /\ LastIndex(store, unstable') = Last + 1
  <2> DEFINE un2 == TruncateAndAppend(unstable, Single(LastIndex(store, unstable) + 1, e))
  <2>1. unstable' = un2
    BY DEF Last
  <2>2. /\ IsSegment(un2)
        /\ ~IsEmpty(un2)
        /\ un2.lo = unstable.lo
        /\ un2.hi = LastIndex(store, unstable) + 1
        /\ LastIndex(store, un2) = LastIndex(store, unstable) + 1
        /\ un2.ent[LastIndex(store, unstable) + 1] = e
    BY <1>1, <1>2, AppendUnstable
  <2> HIDE DEF un2
  <2> QED
    BY <2>1, <2>2 DEF Last
<1>4. Last' = Last + 1
  BY <1>3 DEF Last
<1>5. ReadyShape' /\ DiskBehind'
  BY <1>0, <1>2, <1>3 DEF ReadyShape, DiskBehind, InReady
<1>6. RecordsOK'
  <2>1. WrittenNumber' = WrittenNumber
    BY DEF WrittenNumber
  <2>2. Last \in Nat
    BY <1>0, Numbers
  <2>3. ASSUME NEW k \in DOMAIN records
        PROVE  RecordPlace(records[k])'
    <3>1. RecordPlace(records[k])
      BY <1>0 DEF RecordsOK
    <3>2. records[k].last_entry # NoEntry => records[k].last_entry[1] \in Nat
      BY <1>0, RecordTypes
    <3> QED
      BY <1>4, <2>1, <2>2, <3>1, <3>2 DEF RecordPlace
  <2> QED
    BY <1>0, <2>1, <2>3 DEF RecordsOK
<1> QED
  BY <1>3, <1>4, <1>5, <1>6

\* A proposal, accepted or refused, keeps the invariant.
LEMMA ProposeStep ==
    ASSUME SaveLightCommit, IInv, NEW p \in Proposals, Propose(p)
    PROVE  IInv'
<1>0. /\ StateTypes /\ ReadyShape /\ DiskBehind /\ Watermarks /\ RecordsOK
      /\ NothingToDrain /\ HardStatesOK /\ FollowerLog
  BY DEF IInv
<1> DEFINE e == ProposedEntry(p)
<1>1. e \in Entry
  BY <1>0, NodeAssumption DEF ProposedEntry, Entry, StateTypes, RaftTypes
<1>2. Last \in Nat /\ committed \in Nat /\ committed <= Last
  BY <1>0, Numbers, Order
<1>3. /\ stage = "idle" /\ state = "Leader"
      /\ UNCHANGED <<store, disk, committed, persisted, applied, state, term, vote,
                     matched, last_log_tail_index, read_states, nodeVars, appVars,
                     read_index, crashes>>
      /\ pending_conf_index' \in {Last + 1, pending_conf_index}
  BY DEF Propose
<1> HIDE DEF e
<1>4. \/ /\ unstable' = TruncateAndAppend(unstable, Single(Last + 1, e))
         /\ panics' = Check("append_after_committed", committed <= Last)
      \/ UNCHANGED <<unstable, panics>>
  BY DEF Propose, e
<1>5. NoPanic'
  BY <1>2, <1>4 DEF IInv, NoPanic, Check
<1>6. /\ IsSegment(unstable')
      /\ unstable'.lo = unstable.lo
      /\ Last' \in {Last, Last + 1}
      /\ ReadyShape' /\ DiskBehind' /\ RecordsOK'
  <2>1. CASE unstable' = TruncateAndAppend(unstable, Single(Last + 1, e))
    <3>1. UNCHANGED <<stage, store, disk, records, max_number, persisted, durable_number>>
      BY <1>3 DEF nodeVars, appVars
    <3>2. /\ IsSegment(unstable')
          /\ unstable'.lo = unstable.lo
          /\ Last' = Last + 1
          /\ ReadyShape' /\ DiskBehind' /\ RecordsOK'
      BY <1>1, <1>3, <2>1, <3>1, AppendKeeps
    <3> QED
      BY <1>2, <3>2
  <2>2. CASE UNCHANGED <<unstable, panics>>
    <3>1. Last' = Last /\ WrittenNumber' = WrittenNumber
      BY <2>2, <1>3 DEF Last, appVars, nodeVars, WrittenNumber
    <3>2. RecordsOK'
      BY <1>0, <1>3, <3>1 DEF RecordsOK, RecordPlace, nodeVars, appVars
    <3>3. ReadyShape' /\ DiskBehind'
      BY <1>0, <1>3, <2>2 DEF ReadyShape, DiskBehind, InReady, nodeVars, appVars
    <3> QED
      BY <1>0, <1>2, <2>2, <3>1, <3>2, <3>3 DEF StateTypes, LogTypes
  <2> QED
    BY <1>4, <2>1, <2>2
<1>7. StateTypes'
  <2>1. LogTypes' /\ RaftTypes'
    BY <1>0, <1>2, <1>3, <1>6 DEF StateTypes, LogTypes, RaftTypes
  <2>2. NodeTypes' /\ AppTypes'
    BY <1>0, <1>3 DEF StateTypes, NodeTypes, AppTypes, nodeVars, appVars
  <2> QED
    BY <2>1, <2>2 DEF StateTypes
<1>8. Watermarks'
  <2>1. committed <= Last'
    BY <1>2, <1>6
  <2> QED
    BY <1>0, <1>3, <1>6, <2>1 DEF Watermarks, nodeVars, appVars
<1>9. NothingToDrain' /\ FollowerLog'
  <2>1. NothingToDrain'
    BY <1>0, <1>3 DEF NothingToDrain, nodeVars, appVars
  <2>2. state' = "Leader" /\ term' # 0
    BY <1>0, <1>3 DEF FollowerLog
  <2> QED
    BY <2>1, <2>2 DEF FollowerLog
<1>10. HardStatesOK'
  BY <1>0, <1>3 DEF HardStatesOK, WrittenHs, HardState, InReady, nodeVars, appVars
<1>11. InOrder' /\ HandedOutIsDurable'
  BY <1>3 DEF IInv, InOrder, HandedOutIsDurable, nodeVars, appVars
<1> QED
  BY <1>5, <1>6, <1>7, <1>8, <1>9, <1>10, <1>11 DEF IInv

\* Where a node may campaign everything in its log is persisted.
LEMMA CampaignPersisted ==
    ASSUME IInv, state # "Leader", NoUnappliedConf
    PROVE  Last = persisted
<1>0. StateTypes /\ FollowerLog /\ ReadyShape
  BY DEF IInv
<1>1. /\ Last \in Nat /\ persisted \in Nat /\ applied \in Nat /\ committed \in Nat
      /\ Len(sm) \in Nat /\ commit_since_index \in Nat
  BY <1>0, Numbers
<1>2. /\ persisted <= store.log.hi /\ store.log.hi <= Last
      /\ applied <= Len(sm) /\ Len(sm) <= commit_since_index
      /\ commit_since_index <= persisted
      /\ store.log.hi \in Nat
  BY <1>0, Order, Numbers
<1>3. state = "Follower"
  BY <1>0 DEF StateTypes, RaftTypes
<1>4. ASSUME Last # persisted
      PROVE  FALSE
  <2>1. Last = 1 /\ committed >= 1 /\ LogEntry(store, unstable, 1).type = "conf"
    BY <1>0, <1>3, <1>4 DEF FollowerLog
  <2>2. persisted = 0
    BY <1>1, <1>2, <1>4, <2>1
  <2>3. applied = 0
    BY <1>1, <1>2, <2>2
  <2>4. 1 \in (applied + 1)..committed
    BY <1>1, <2>1, <2>3
  <2> QED
    BY <2>1, <2>4 DEF NoUnappliedConf
<1> QED
  BY <1>4

\* Winning an election keeps the invariant.
LEMMA HupStep ==
    ASSUME SaveLightCommit, IInv, Hup
    PROVE  IInv'
<1>0. /\ StateTypes /\ ReadyShape /\ DiskBehind /\ Watermarks /\ RecordsOK
      /\ NothingToDrain /\ HardStatesOK /\ FollowerLog
  BY DEF IInv
<1> DEFINE e == [term |-> term + 1, type |-> "normal", size |-> 0]
<1>1. e \in Entry
  BY <1>0 DEF Entry, StateTypes, RaftTypes
<1>2. /\ Last \in Nat /\ committed \in Nat /\ persisted \in Nat /\ applied \in Nat
      /\ term \in Nat
  BY <1>0, Numbers
<1>3. /\ committed <= Last /\ applied <= Len(sm) /\ Len(sm) <= commit_since_index
      /\ commit_since_index <= committed
      /\ store.log.lo <= applied + 1
  BY Order
<1>4. Last = persisted
  BY CampaignPersisted DEF Hup
<1>5. stage = "idle"
  BY DEF Hup
<1>6. /\ IsSegment(unstable')
      /\ ~IsEmpty(unstable')
      /\ unstable'.lo = unstable.lo
      /\ Last' = Last + 1
      /\ ReadyShape' /\ DiskBehind' /\ RecordsOK'
  <2>1. unstable' = TruncateAndAppend(unstable, Single(Last + 1, e))
    BY DEF Hup
  <2>2. UNCHANGED <<stage, store, disk, records, max_number, persisted, durable_number>>
    BY DEF Hup, nodeVars, appVars
  <2> HIDE DEF e
  <2> QED
    BY <1>1, <1>5, <2>1, <2>2, AppendKeeps
<1>7. StateTypes'
  <2>1. ID \in Nat \ {0}
    BY NodeAssumption
  <2>a. LogTypes'
    BY <1>0, <1>6 DEF Hup, StateTypes, LogTypes
  <2>b. RaftTypes'
    <3>1. /\ state' = "Leader" /\ term' = term + 1 /\ vote' = ID
          /\ matched' = persisted /\ pending_conf_index' = Last
          /\ last_log_tail_index' = Last /\ read_states' = read_states
      BY DEF Hup
    <3>2. term + 1 \in Nat /\ read_states \in Seq(Nat)
      BY <1>0, <1>2 DEF StateTypes, RaftTypes
    <3> QED
      BY <1>2, <2>1, <3>1, <3>2 DEF RaftTypes
  <2>2. NodeTypes' /\ AppTypes'
    BY <1>0 DEF Hup, StateTypes, NodeTypes, AppTypes, nodeVars, appVars
  <2> QED
    BY <2>a, <2>b, <2>2 DEF StateTypes
<1>8. Watermarks'
  <2>1. committed <= Last + 1
    BY <1>2, <1>3
  <2>2. persisted <= persisted
    BY <1>2
  <2> QED
    BY <1>0, <1>6, <2>1, <2>2 DEF Hup, Watermarks, nodeVars, appVars
<1>9. NothingToDrain'
  <2>1. ASSUME NEW k \in DOMAIN records
        PROVE  records[k].last_entry = NoEntry
    <3>1. RecordPlace(records[k])
      BY <1>0 DEF RecordsOK
    <3>2. records[k].last_entry # NoEntry => records[k].last_entry[1] \in Nat
      BY <1>0, RecordTypes
    <3> QED
      BY <1>2, <1>4, <3>1, <3>2 DEF RecordPlace
  <2> QED
    BY <2>1 DEF Hup, NothingToDrain, nodeVars
<1>10. HardStatesOK'
  <2>1. WrittenHs' = WrittenHs
    BY DEF WrittenHs, Hup, appVars
  <2>2. HardState' = [term |-> term + 1, vote |-> ID, commit |-> committed]
    BY DEF Hup, HardState
  <2>3. HardState = [term |-> term, vote |-> vote, commit |-> committed]
    BY DEF HardState
  <2>4. NotOlder(WrittenHs, HardState')
    <3>1. WrittenHs.term <= term /\ WrittenHs.commit <= committed
      BY <1>0, <2>3 DEF HardStatesOK, NotOlder
    <3>2. WrittenHs.term \in Nat
      BY <1>0, WrittenHsType DEF HardStates
    <3> QED
      BY <1>2, <2>2, <3>1, <3>2 DEF NotOlder
  <2>5. term' # 0
    <3>1. term' = term + 1
      BY DEF Hup
    <3> QED
      BY <1>2, <3>1
  <2> QED
    BY <1>0, <1>5, <2>1, <2>4, <2>5 DEF Hup, HardStatesOK, InReady, nodeVars, appVars
<1>11. FollowerLog'
  <2>1. state' = "Leader" /\ term' = term + 1
    BY DEF Hup
  <2>2. term' # 0
    BY <1>2, <2>1
  <2> QED
    BY <2>1, <2>2 DEF FollowerLog
<1>12. NoPanic'
  <2>1. applied <= committed
    BY <1>0, <1>2, <1>3, Numbers
  <2> QED
    BY <1>3, <1>4, <2>1 DEF Hup, NoPanic, Check
<1>13. InOrder' /\ HandedOutIsDurable'
  BY DEF IInv, Hup, InOrder, HandedOutIsDurable, nodeVars, appVars
<1> QED
  BY <1>6, <1>7, <1>8, <1>9, <1>10, <1>11, <1>12, <1>13 DEF IInv

\* boot_strap keeps the invariant.
LEMMA BootStrapStep ==
    ASSUME SaveLightCommit, IInv, BootStrap
    PROVE  IInv'
<1>0. /\ StateTypes /\ ReadyShape /\ DiskBehind /\ Watermarks /\ RecordsOK
      /\ NothingToDrain /\ HardStatesOK /\ FollowerLog
  BY DEF IInv
<1> DEFINE e == [term |-> 1, type |-> "conf", size |-> 1]
<1>1. e \in Entry
  BY DEF Entry
<1>2. /\ stage = "idle" /\ store.log.hi = 0 /\ term = 0
      /\ UNCHANGED <<store, disk, persisted, applied, state, matched,
                   pending_conf_index, uncommitted_size, last_log_tail_index,
                   read_states, prev_state, max_number, records,
                   commit_since_index, appVars, panics, read_index, crashes>>
      /\ prev_hs' = NoHardState /\ term' = 1 /\ vote' = INVALID_ID
      /\ committed' = 1
  BY DEF BootStrap
<1>3. Last = 0
  BY <1>0, <1>2 DEF FollowerLog, Last, LastIndex
<1>4. /\ persisted \in Nat /\ applied \in Nat /\ committed \in Nat /\ Len(sm) \in Nat
      /\ commit_since_index \in Nat /\ matched \in Nat
      /\ store.log.lo \in Nat \ {0}
  BY <1>0, Numbers
<1>5. /\ persisted <= store.log.hi /\ committed <= Last
      /\ store.log.lo <= applied + 1 /\ applied <= Len(sm)
      /\ Len(sm) <= commit_since_index /\ commit_since_index <= persisted
  BY Order
<1>6. /\ persisted = 0 /\ committed = 0 /\ commit_since_index = 0
      /\ store.log.lo = 1
  BY <1>2, <1>3, <1>4, <1>5
<1>7. unstable' = TruncateAndAppend(unstable, Single(Last + 1, e))
  BY <1>3 DEF BootStrap
<1> HIDE DEF e
<1>8. /\ IsSegment(unstable')
      /\ unstable'.lo = unstable.lo
      /\ unstable'.hi = Last + 1
      /\ unstable'.ent[Last + 1] = e
      /\ Last' = Last + 1
      /\ ReadyShape' /\ DiskBehind' /\ RecordsOK'
  <2>1. UNCHANGED <<stage, store, disk, records, max_number, persisted, durable_number>>
    BY <1>2 DEF appVars
  <2> QED
    BY <1>1, <1>2, <1>7, <2>1, AppendKeeps
<1>9. unstable.lo = 1
  BY <1>0, <1>2 DEF ReadyShape
<1>10. StateTypes'
  <2>1. LogTypes' /\ RaftTypes'
    BY <1>0, <1>2, <1>8 DEF StateTypes, LogTypes, RaftTypes
  <2>2. NodeTypes' /\ AppTypes'
    BY <1>0, <1>2 DEF StateTypes, NodeTypes, AppTypes, appVars, NoHardState,
                      HardStates, INVALID_ID
  <2> QED
    BY <2>1, <2>2 DEF StateTypes
<1>11. Watermarks'
  BY <1>0, <1>2, <1>3, <1>6, <1>8 DEF Watermarks, appVars
<1>12. NothingToDrain'
  BY <1>0, <1>2 DEF NothingToDrain, appVars
<1>13. HardStatesOK'
  <2>1. WrittenHs = store.hs /\ WrittenHs' = store.hs
    BY <1>2 DEF WrittenHs, appVars
  <2>2. store.hs \in HardStates
    BY <1>0, WrittenHsType
  <2>3. store.hs.term <= 0 /\ (store.hs.term = 0 /\ store.hs.vote # INVALID_ID
          => vote = store.hs.vote)
    BY <1>0, <1>2, <2>1 DEF HardStatesOK, NotOlder, HardState
  <2>4. store.hs.term = 0 /\ store.hs.vote = INVALID_ID /\ store.hs.commit = 0
    BY <1>0, <1>2, <2>2, <2>3 DEF HardStatesOK, HardStates
  <2>5. store.hs = NoHardState
    BY <2>2, <2>4 DEF HardStates, NoHardState, INVALID_ID
  <2>6. HardState' = [term |-> 1, vote |-> INVALID_ID, commit |-> 1]
    BY <1>2 DEF HardState
  <2>7. NotOlder(store.hs, HardState')
    BY <2>4, <2>6 DEF NotOlder
  <2> QED
    BY <1>0, <1>2, <2>1, <2>5, <2>7 DEF HardStatesOK, InReady, appVars
<1>14. FollowerLog'
  <2>1. LogEntry(store, unstable, 1)' = e
    BY <1>2, <1>3, <1>8, <1>9 DEF LogEntry
  <2> QED
    BY <1>2, <1>3, <1>6, <1>8, <2>1 DEF FollowerLog, e
<1>15. InOrder' /\ HandedOutIsDurable' /\ NoPanic'
  BY <1>2 DEF IInv, InOrder, HandedOutIsDurable, NoPanic, appVars
<1> QED
  BY <1>8, <1>10, <1>11, <1>12, <1>13, <1>14, <1>15 DEF IInv

\* The entries handed out next are those of storage, and none is left out.
LEMMA HandedEntries ==
    ASSUME IInv, NEW un, un.lo \in Nat, NEW com \in Nat, NEW per \in Nat,
           per < un.lo, per <= disk.log.hi,
           commit_since_index <= per, commit_since_index <= com,
           NEW to \in DeliverTo(store, com, per)
    PROVE  /\ to \in Nat
           /\ commit_since_index <= to /\ to <= com /\ to <= per
           /\ Delivered(store, un, to) \in Seq(AppEntry)
           /\ Len(Delivered(store, un, to)) = to - commit_since_index
           /\ \A k \in 1..Len(Delivered(store, un, to)) :
                 /\ Delivered(store, un, to)[k].index = commit_since_index + k
                 /\ Delivered(store, un, to)[k].entry = store.log.ent[commit_since_index + k]
<1> DEFINE c == commit_since_index
           D == Delivered(store, un, to)
<1>0. StateTypes /\ DiskBehind /\ InOrder /\ HandedOutIsDurable
  BY DEF IInv
<1>1. /\ c \in Nat /\ Len(sm) \in Nat /\ Len(inbox) \in Nat
      /\ store.log.lo \in Nat /\ store.log.hi \in Nat /\ disk.log.hi \in Nat
      /\ disk.log.lo \in Nat
  BY <1>0, Numbers
<1>2. /\ store.log.lo <= Len(sm) + 1 /\ Len(sm) <= c /\ disk.log.hi <= store.log.hi
      /\ c = Len(sm) + Len(inbox)
  BY Order
<1>3. /\ store.log.lo <= c + 1 /\ per <= store.log.hi
  BY <1>1, <1>2
<1>4. IsSegment(store.log)
  BY <1>0 DEF StateTypes, LogTypes, IsStorage
<1>5. /\ to \in Nat
      /\ c <= to /\ to <= com /\ to <= per
      /\ D \in Seq(AppEntry)
      /\ Len(D) = to - c
      /\ \A k \in 1..Len(D) : /\ D[k].index = c + k
                              /\ D[k].entry = store.log.ent[c + k]
  <2>2. NextFrom(store, c) = c + 1
    BY <1>1, <1>3 DEF NextFrom
  <2>3. /\ to \in Nat /\ c <= to /\ to <= com /\ to <= per
    <3>1. NextTo(com, per) \in Nat /\ NextTo(com, per) <= com /\ NextTo(com, per) <= per
      BY DEF NextTo
    <3> QED
      BY <1>1, <2>2, <3>1 DEF DeliverTo, HasNextEntriesSince
  <2>4. CASE to = c
    <3>1. D = <<>>
      BY <2>4 DEF Delivered
    <3> QED
      BY <1>1, <2>3, <2>4, <3>1
  <2>5. CASE to # c
    <3>1. D = [k \in 1..(to - (c + 1) + 1) |->
                  [index |-> c + 1 + k - 1, entry |-> LogEntry(store, un, c + 1 + k - 1)]]
      BY <2>2, <2>5 DEF Delivered, Delivery
    <3>2. to - (c + 1) + 1 = to - c /\ to - c \in Nat
      BY <1>1, <2>3
    <3>3. ASSUME NEW k \in 1..(to - c)
          PROVE  /\ c + 1 + k - 1 = c + k
                 /\ c + k \in Nat
                 /\ LogEntry(store, un, c + k) = store.log.ent[c + k]
                 /\ store.log.ent[c + k] \in Entry
      <4>1. c + 1 + k - 1 = c + k /\ c + k \in Nat /\ c + k < un.lo
            /\ c + k \in store.log.lo..store.log.hi
        <5>1. k \in Nat /\ 1 <= k /\ c + k <= to
          BY <1>1, <2>3
        <5>2. c + 1 + k - 1 = c + k /\ c + k \in Nat /\ c + k <= per
          BY <1>1, <2>3, <5>1
        <5>3. c + k < un.lo /\ c + k <= store.log.hi
          BY <1>1, <1>3, <5>2
        <5>4. store.log.lo <= c + k
          BY <1>1, <1>3, <5>1
        <5> QED
          BY <1>1, <5>2, <5>3, <5>4
      <4>2. store.log.ent[c + k] \in Entry
        BY <1>4, <4>1 DEF IsSegment
      <4> QED
        BY <4>1, <4>2 DEF LogEntry
    <3>4. /\ DOMAIN D = 1..(to - c)
          /\ \A k \in 1..(to - c) :
                D[k] = [index |-> c + k, entry |-> store.log.ent[c + k]]
      BY <3>1, <3>2, <3>3
    <3>5. D \in [1..(to - c) -> AppEntry]
      <4>1. ASSUME NEW k \in 1..(to - c)
            PROVE  D[k] \in AppEntry
        <5>1. [index |-> c + k, entry |-> store.log.ent[c + k]] \in AppEntry
          BY <3>3 DEF AppEntry
        <5> QED
          BY <3>4, <5>1
      <4>2. D = [k \in 1..(to - c) |-> D[k]]
        BY <3>1, <3>2
      <4> QED
        BY <4>1, <4>2
    <3>6. D \in Seq(AppEntry) /\ Len(D) = to - c
      BY <3>2, <3>5, SMTT(20)
    <3> QED
      BY <2>3, <3>4, <3>6
  <2> QED
    BY <2>4, <2>5
<1> QED
  BY <1>5

\* Handing entries out keeps the order of delivery and hands out only what is
\* on disk.
LEMMA HandOut ==
    ASSUME IInv, NEW un, un.lo \in Nat, NEW com \in Nat, NEW per \in Nat,
           per < un.lo, per <= disk.log.hi,
           commit_since_index <= per, commit_since_index <= com,
           NEW to \in DeliverTo(store, com, per),
           inbox' = inbox \o Delivered(store, un, to),
           commit_since_index' = to,
           sm' = sm, disk' = disk
    PROVE  /\ commit_since_index' \in Nat
           /\ commit_since_index' <= com
           /\ commit_since_index' <= per
           /\ inbox' \in Seq(AppEntry)
           /\ InOrder'
           /\ HandedOutIsDurable'
<1> DEFINE c == commit_since_index
           D == Delivered(store, un, to)
<1>0. StateTypes /\ DiskBehind /\ InOrder /\ HandedOutIsDurable
  BY DEF IInv
<1>1. /\ c \in Nat /\ Len(sm) \in Nat /\ Len(inbox) \in Nat
      /\ store.log.lo \in Nat /\ store.log.hi \in Nat /\ disk.log.hi \in Nat
      /\ disk.log.lo \in Nat
  BY <1>0, Numbers
<1>2. /\ store.log.lo <= Len(sm) + 1 /\ Len(sm) <= c /\ disk.log.hi <= store.log.hi
      /\ c = Len(sm) + Len(inbox)
  BY Order
<1>3. /\ store.log.lo <= c + 1 /\ per <= store.log.hi
  BY <1>1, <1>2
<1>4. IsSegment(store.log)
  BY <1>0 DEF StateTypes, LogTypes, IsStorage
<1>5. /\ to \in Nat
      /\ c <= to /\ to <= com /\ to <= per
      /\ D \in Seq(AppEntry)
      /\ Len(D) = to - c
      /\ \A k \in 1..Len(D) : /\ D[k].index = c + k
                              /\ D[k].entry = store.log.ent[c + k]
  BY HandedEntries
<1>6. inbox \in Seq(AppEntry)
  BY <1>0 DEF StateTypes, AppTypes
<1>a. D = Delivered(store, un, to)
  OBVIOUS
<1> HIDE DEF D
<1>b. Len(D) \in Nat /\ Len(D) = to - c /\ c + Len(D) = to
  BY <1>1, <1>5
<1>7. /\ inbox' \in Seq(AppEntry)
      /\ Len(inbox') = Len(inbox) + Len(D)
      /\ \A k \in 1..Len(inbox) : inbox'[k] = inbox[k]
      /\ \A k \in 1..Len(D) : inbox'[Len(inbox) + k] = D[k]
  <2>1. inbox' = inbox \o D
    BY <1>a
  <2>2. D \in Seq(AppEntry)
    BY <1>5
  <2>3. /\ inbox \o D \in Seq(AppEntry)
        /\ Len(inbox \o D) = Len(inbox) + Len(D)
    BY <1>6, <2>2
  <2>4. \A k \in 1..Len(inbox) : (inbox \o D)[k] = inbox[k]
    BY <1>1, <1>6, <1>b, <2>2
  <2>5. ASSUME NEW k \in 1..Len(D)
        PROVE  (inbox \o D)[Len(inbox) + k] = D[k]
    <3>1. Len(inbox) + k \in 1..(Len(inbox) + Len(D)) /\ Len(inbox) + k > Len(inbox)
          /\ Len(inbox) + k - Len(inbox) = k
      BY <1>1, <1>b
    <3> QED
      BY <1>1, <1>6, <1>b, <2>2, <3>1
  <2> QED
    BY <2>1, <2>3, <2>4, <2>5
<1>8. ASSUME NEW k \in 1..Len(inbox'), k \notin 1..Len(inbox)
      PROVE  \E j \in 1..Len(D) : k = Len(inbox) + j
  <2>1. Len(inbox) \in Nat /\ Len(D) \in Nat /\ Len(inbox') = Len(inbox) + Len(D)
    BY <1>1, <1>7, <1>b
  <2>2. PICK a, b : a = Len(inbox) /\ b = Len(D)
    OBVIOUS
  <2>3. k \in 1..(a + b) /\ k \notin 1..a /\ a \in Nat /\ b \in Nat
    BY <1>8, <2>1, <2>2
  <2>4. k - a \in 1..b /\ k = a + (k - a)
    BY <2>3
  <2> QED
    BY <2>2, <2>4
<1>9. InOrder'
  <2>1. \A k \in 1..Len(inbox') : inbox'[k].index = Len(sm) + k
    <3>1. ASSUME NEW k \in 1..Len(inbox), k \in 1..Len(inbox')
          PROVE  inbox'[k].index = Len(sm) + k
      BY <1>0, <1>7 DEF InOrder
    <3>2. ASSUME NEW j \in 1..Len(D)
          PROVE  inbox'[Len(inbox) + j].index = Len(sm) + (Len(inbox) + j)
      <4>1. inbox'[Len(inbox) + j] = D[j] /\ D[j].index = c + j
        BY <1>5, <1>7
      <4> QED
        BY <1>1, <1>2, <1>b, <4>1
    <3> QED
      BY <1>8, <3>1, <3>2
  <2>2. commit_since_index' = Len(sm) + Len(inbox')
    BY <1>1, <1>2, <1>7, <1>b
  <2> QED
    BY <1>0, <2>1, <2>2 DEF InOrder
<1>10. HandedOutIsDurable'
  <2> DEFINE Durable(d) ==
         /\ d.index <= disk.log.hi
         /\ d.index >= disk.log.lo => disk.log.ent[d.index] = d.entry
  <2>1. /\ \A k \in 1..Len(sm) : Durable(sm[k])
        /\ \A k \in 1..Len(inbox) : Durable(inbox[k])
        /\ disk.log.lo <= Len(sm) + 1
    BY <1>0 DEF HandedOutIsDurable
  <2>2. ASSUME NEW j \in 1..Len(D)
        PROVE  Durable(D[j])
    <3>1. c + j <= disk.log.hi /\ c + j \in store.log.lo..disk.log.hi
      <4>1. j \in Nat /\ 1 <= j /\ c + j <= to
        BY <1>1, <1>b
      <4>2. c + j \in Nat /\ c + j <= per
        BY <1>1, <1>5, <4>1
      <4>3. c + j <= disk.log.hi
        BY <1>1, <4>2
      <4>4. store.log.lo <= c + j
        BY <1>1, <1>3, <4>1
      <4> QED
        BY <1>1, <4>2, <4>3, <4>4
    <3>2. disk.log.ent[c + j] = store.log.ent[c + j]
      BY <1>0, <3>1 DEF DiskBehind
    <3> QED
      BY <1>5, <3>1, <3>2
  <2> HIDE DEF Durable
  <2>3. \A k \in 1..Len(inbox') : Durable(inbox'[k])
    BY <1>7, <1>8, <2>1, <2>2
  <2> QED
    BY <2>1, <2>3 DEF Durable, HandedOutIsDurable
<1> QED
  BY <1>5, <1>7, <1>9, <1>10

\* A set of positions has a greatest one.
LEMMA Greatest ==
    ASSUME NEW n \in Nat, NEW S \in SUBSET (1..n), S # {}
    PROVE  \E m \in S : \A k \in S : k <= m
<1> DEFINE T == {i \in Nat : n - i \in S}
<1>1. T # {}
  <2>1. PICK k \in S : TRUE
    OBVIOUS
  <2>2. n - k \in Nat /\ n - (n - k) = k
    OBVIOUS
  <2> QED
    BY <2>1, <2>2
<1>2. \E x \in T : \A y \in T : ~ (<<y, x>> \in OpToRel(<, Nat))
  <2>1. T \subseteq Nat
    OBVIOUS
  <2> HIDE DEF T
  <2> QED
    BY <1>1, <2>1, NatLessThanWellFounded, WFMin
<1>3. PICK x \in T : \A y \in T : ~ (<<y, x>> \in OpToRel(<, Nat))
  BY <1>2
<1>4. ASSUME NEW k \in S
      PROVE  k <= n - x
  <2>1. k \in Nat /\ n - k \in Nat /\ n - (n - k) = k /\ x \in Nat
    OBVIOUS
  <2>2. n - k \in T
    BY <2>1
  <2>3. ~ (n - k < x)
    <3>1. ~ (<<n - k, x>> \in OpToRel(<, Nat))
      BY <1>3, <2>2
    <3> QED
      BY <2>1, <3>1 DEF OpToRel
  <2> QED
    BY <2>1, <2>3
<1>5. n - x \in S
  OBVIOUS
<1> QED
  BY <1>4, <1>5

\* on_persist_ready(n) pops the first records.
LEMMA Popped ==
    ASSUME StateTypes, RecordsOK, NEW n \in Nat, n <= durable_number,
           NEW P, P = PoppedRecords(n)
    PROVE  /\ Cardinality(P) \in 0..Len(records)
           /\ P = 1..Cardinality(P)
           /\ n = max_number => Cardinality(P) = Len(records)
<1>1. max_number \in Nat /\ durable_number \in Nat /\ WrittenNumber \in Int
  BY Numbers
<1>2. /\ Len(records) \in Nat /\ DOMAIN records = 1..Len(records)
      /\ \A k \in 1..Len(records) : records[k].number = max_number - Len(records) + k
      /\ n <= max_number
  BY <1>1 DEF StateTypes, NodeTypes, RecordsOK, WrittenNumber
<1> DEFINE d == n - max_number + Len(records)
           m == IF d < 0 THEN 0 ELSE d
<1>3. m \in 0..Len(records) /\ (n = max_number => m = Len(records))
  BY <1>1, <1>2
<1>4. P = 1..m
  <2>1. P = {k \in 1..Len(records) : records[k].number <= n}
    BY <1>2 DEF PoppedRecords
  <2>2. \A k \in 1..Len(records) : records[k].number <= n <=> k <= m
    BY <1>1, <1>2
  <2> QED
    BY <1>3, <2>1, <2>2
<1> HIDE DEF m
<1>5. Cardinality(P) = m
  <2>1. Cardinality(1..m) = IF 1 > m THEN 0 ELSE m - 1 + 1
    BY <1>3, FS_Interval
  <2> QED
    BY <1>3, <1>4, <2>1
<1> QED
  BY <1>3, <1>4, <1>5

\* A HardState and a record's entry are not the values that stand for none.
LEMMA Present ==
    /\ HardState # NoHs
    /\ \A i, t : <<i, t>> # NoEntry
BY DEF HardState, NoHs, NoEntry

\* GetReady keeps the invariant.
LEMMA GetReadyStep ==
    ASSUME SaveLightCommit, IInv, GetReady
    PROVE  IInv'
<1>0. /\ StateTypes /\ ReadyShape /\ DiskBehind /\ Watermarks /\ RecordsOK
      /\ NothingToDrain /\ HardStatesOK /\ FollowerLog
  BY DEF IInv
<1> DEFINE elected == prev_state # "Leader" /\ state = "Leader"
           kept == IF elected THEN <<>> ELSE records
           lastEntry == IF IsEmpty(unstable) THEN NoEntry
                        ELSE <<unstable.hi, unstable.ent[unstable.hi].term>>
           record == [number |-> max_number + 1, last_entry |-> lastEntry]
<1>1. /\ stage = "idle" /\ stage' = "ready"
      /\ panics' = Check("ready_drained_record_has_entries",
                elected => \A k \in DOMAIN records : records[k].last_entry = NoEntry)
      /\ rd' = [number |-> max_number + 1, entries |-> unstable,
                hs |-> IF HardState # prev_hs THEN HardState ELSE NoHs,
                state |-> state]
      /\ records' = Append(kept, record)
      /\ max_number' = max_number + 1
      /\ read_states' = <<>>
      /\ UNCHANGED <<store, disk, unstable, committed, persisted, applied, state,
                     term, vote, matched, pending_conf_index, last_log_tail_index,
                     prev_state, prev_hs, light, sm, durable_number, read_index,
                     crashes>>
  BY DEF GetReady, logVars
<1>2. PICK to \in DeliverTo(store, committed, persisted) :
         /\ inbox' = inbox \o Delivered(store, unstable, to)
         /\ commit_since_index' = to
  BY DEF GetReady
<1>3. /\ store.log.hi \in Nat /\ Last \in Nat /\ disk.log.hi \in Nat
      /\ unstable.lo \in Nat /\ unstable.hi \in Nat
      /\ committed \in Nat /\ persisted \in Nat /\ max_number \in Nat
      /\ durable_number \in Nat
  BY <1>0, Numbers
<1>4. /\ persisted < unstable.lo /\ persisted <= disk.log.hi
      /\ commit_since_index <= persisted /\ commit_since_index <= committed
  BY Order
<1>5. /\ commit_since_index' \in Nat
      /\ commit_since_index' <= committed
      /\ commit_since_index' <= persisted
      /\ inbox' \in Seq(AppEntry)
      /\ InOrder'
      /\ HandedOutIsDurable'
  <2>1. sm' = sm /\ disk' = disk
    BY <1>1
  <2> QED
    BY <1>2, <1>3, <1>4, <2>1, HandOut
<1>6. Last' = Last /\ HardState' = HardState
  BY <1>1 DEF Last, HardState
<1>7. WrittenNumber = max_number /\ WrittenNumber' = max_number
  <2>1. stage = "idle" /\ stage' = "ready" /\ max_number' = max_number + 1
    BY <1>1
  <2> QED
    BY <1>3, <2>1 DEF WrittenNumber
<1>8. unstable.lo = store.log.hi + 1
  BY <1>0, <1>1 DEF ReadyShape
<1>9. /\ lastEntry \in {NoEntry} \cup (Nat \X Nat)
      /\ lastEntry = NoEntry <=> IsEmpty(unstable)
      /\ lastEntry # NoEntry => lastEntry[1] = unstable.hi
  <2>1. CASE IsEmpty(unstable)
    BY <2>1
  <2>2. CASE ~IsEmpty(unstable)
    <3>1. unstable.ent[unstable.hi] \in Entry
      <4>1. unstable.hi \in unstable.lo..unstable.hi
        BY <1>3, <2>2 DEF IsEmpty
      <4> QED
        BY <1>0, <4>1 DEF StateTypes, LogTypes, IsSegment
    <3>2. unstable.ent[unstable.hi].term \in Nat
      BY <3>1 DEF Entry
    <3> QED
      BY <1>3, <2>2, <3>2, Present
  <2> QED
    BY <2>1, <2>2
<1> HIDE DEF lastEntry
<1>10. record \in ReadyRecord /\ record.number = max_number + 1 /\ record.last_entry = lastEntry
  BY <1>3, <1>9 DEF ReadyRecord
<1>11. /\ kept \in Seq(ReadyRecord)
       /\ \A k \in 1..Len(kept) :
             /\ k \in DOMAIN records
             /\ kept[k] = records[k]
             /\ kept[k].number = max_number - Len(kept) + k
  <2>1. CASE elected
    BY <2>1
  <2>2. CASE ~elected
    <3>1. kept = records /\ records \in Seq(ReadyRecord)
      BY <1>0, <2>2 DEF StateTypes, NodeTypes
    <3>2. \A k \in DOMAIN records :
             records[k].number = max_number - Len(records) + k
      BY <1>0 DEF RecordsOK
    <3> HIDE DEF kept
    <3> QED
      BY <3>1, <3>2
  <2> QED
    BY <2>1, <2>2
<1> HIDE DEF kept, record
<1>12. /\ records' \in Seq(ReadyRecord)
       /\ Len(records') = Len(kept) + 1
       /\ DOMAIN records' = 1..(Len(kept) + 1)
       /\ \A k \in 1..Len(kept) : records'[k] = kept[k]
       /\ records'[Len(kept) + 1] = record
       /\ records' # <<>>
       /\ Len(kept) \in Nat
  <2>1. records' = Append(kept, record)
    BY <1>1
  <2> QED
    BY <1>10, <1>11, <2>1
<1>13. StateTypes'
  <2>1. LogTypes'
    BY <1>0, <1>1 DEF StateTypes, LogTypes
  <2>2. RaftTypes'
    <3>1. read_states' \in Seq(Nat)
      <4>1. read_states' = <<>>
        BY <1>1
      <4> QED
        BY <4>1
    <3> QED
      BY <1>0, <1>1, <3>1 DEF StateTypes, RaftTypes
  <2>3. NodeTypes'
    <3>1. max_number + 1 \in Nat
      BY <1>3
    <3> QED
      BY <1>0, <1>1, <1>5, <1>12, <3>1 DEF StateTypes, NodeTypes
  <2>4. AppTypes'
    <3>1. HardState \in HardStates /\ IsSegment(unstable) /\ state \in {"Follower", "Leader"}
      BY <1>0, HardStateType DEF StateTypes, LogTypes, RaftTypes
    <3>2. max_number + 1 \in Nat
      BY <1>3
    <3>3. IsReady(rd')
      BY <1>1, <3>1, <3>2 DEF IsReady
    <3> QED
      BY <1>0, <1>1, <1>5, <3>3 DEF StateTypes, AppTypes
  <2> QED
    BY <2>1, <2>2, <2>3, <2>4 DEF StateTypes
<1>14. ReadyShape'
  <2>1. records'[Len(records')].last_entry = lastEntry
    BY <1>10, <1>12
  <2> QED
    BY <1>1, <1>8, <1>12, <2>1 DEF ReadyShape, InReady, lastEntry
<1>15. DiskBehind' /\ NothingToDrain' /\ FollowerLog'
  BY <1>0, <1>1, <1>6 DEF DiskBehind, NothingToDrain, FollowerLog
<1>16. Watermarks'
  BY <1>0, <1>1, <1>5, <1>6 DEF Watermarks
<1>17. RecordsOK'
  <2>0. UNCHANGED <<persisted, store, disk, durable_number>>
    BY <1>1
  <2>1. durable_number' <= WrittenNumber'
    BY <1>0, <1>1, <1>7 DEF RecordsOK
  <2>2. \A k \in 1..(Len(kept) + 1) :
           records'[k].number = max_number' - Len(records') + k
    <3>1. ASSUME NEW k \in 1..Len(kept)
          PROVE  records'[k].number = max_number' - Len(records') + k
      <4>1. /\ max_number' = max_number + 1 /\ Len(records') = Len(kept) + 1
            /\ records'[k] = kept[k] /\ kept[k].number = max_number - Len(kept) + k
        BY <1>1, <1>11, <1>12
      <4> QED
        BY <1>3, <1>12, <4>1
    <3>2. records'[Len(kept) + 1].number = max_number' - Len(records') + (Len(kept) + 1)
      <4>1. /\ max_number' = max_number + 1 /\ Len(records') = Len(kept) + 1
            /\ records'[Len(kept) + 1].number = max_number + 1
        BY <1>1, <1>10, <1>12
      <4> QED
        BY <1>3, <1>12, <4>1
    <3> QED
      BY <1>12, <3>1, <3>2
  <2>3. \A k \in 1..Len(kept) : RecordPlace(records[k])'
    <3>1. ASSUME NEW k \in 1..Len(kept)
          PROVE  RecordPlace(records[k])'
      <4>1. records'[k] = records[k] /\ RecordPlace(records[k])
        BY <1>0, <1>11, <1>12 DEF RecordsOK
      <4> QED
        BY <1>6, <1>7, <2>0, <4>1 DEF RecordPlace
    <3> QED
      BY <3>1
  <2>4. ASSUME NEW k \in {Len(kept) + 1}
        PROVE  RecordPlace(records[k])'
    <3>1. lastEntry # NoEntry => persisted < unstable.hi /\ unstable.hi <= Last
      BY <1>3, <1>4, <1>9 DEF IsEmpty, Last, LastIndex
    <3>2. ~ (record.number <= max_number) /\ ~ (record.number <= durable_number)
      BY <1>0, <1>3, <1>7, <1>10 DEF RecordsOK
    <3> QED
      <4>1. records'[k] = record
        BY <1>12
      <4> QED
        BY <1>6, <1>7, <1>9, <1>10, <2>0, <3>1, <3>2, <4>1 DEF RecordPlace
  <2>5. ASSUME NEW j \in 1..(Len(kept) + 1), NEW k \in 1..(Len(kept) + 1), j < k,
               records'[j].last_entry # NoEntry, records'[k].last_entry # NoEntry
        PROVE  records'[j].last_entry[1] < records'[k].last_entry[1]
    <3>1. j \in 1..Len(kept)
      BY <1>12, <2>5
    <3>2. CASE k \in 1..Len(kept)
      BY <1>0, <1>11, <1>12, <2>5, <3>1, <3>2 DEF RecordsOK
    <3>3. CASE k = Len(kept) + 1
      <4>1. ~IsEmpty(unstable) /\ records'[k].last_entry[1] = unstable.hi
        BY <1>9, <1>10, <1>12, <2>5, <3>3
      <4>2. records[j].last_entry # NoEntry /\ j \in DOMAIN records
            /\ records'[j] = records[j]
        BY <1>11, <1>12, <2>5, <3>1
      <4>3. records[j].last_entry[1] \in Nat /\ records[j].number <= max_number
        <5>1. records[j].number = max_number - Len(kept) + j /\ j <= Len(kept)
          BY <1>11, <3>1
        <5>2. records[j].number <= max_number
          BY <1>3, <1>12, <3>1, <5>1
        <5> QED
          BY <1>0, <4>2, <5>2, RecordTypes
      <4>4. records[j].last_entry[1] <= store.log.hi
        BY <1>0, <1>7, <4>2, <4>3 DEF RecordsOK, RecordPlace
      <4> QED
        BY <1>3, <1>8, <4>1, <4>2, <4>3, <4>4 DEF IsEmpty
    <3> QED
      BY <1>12, <3>2, <3>3
  <2> QED
    <3>1. \A k \in DOMAIN records' : RecordPlace(records[k])'
      BY <1>12, <2>3, <2>4
    <3> QED
      BY <1>12, <2>1, <2>2, <2>5, <3>1 DEF RecordsOK
<1>18. HardStatesOK'
  <2>1. prev_hs = store.hs /\ WrittenHs = store.hs
    BY <1>0, <1>1 DEF HardStatesOK, WrittenHs, InReady
  <2>2. WrittenHs' = HardState /\ PrevHsAfterCommitReady' = HardState
    <3>1. CASE HardState # prev_hs
      <4>1. rd'.hs = HardState /\ rd'.hs # NoHs
        BY <1>1, <3>1, Present
      <4> QED
        BY <1>1, <4>1 DEF WrittenHs, PrevHsAfterCommitReady
    <3>2. CASE HardState = prev_hs
      <4>1. rd'.hs = NoHs
        BY <1>1, <3>2
      <4> QED
        BY <1>1, <2>1, <3>2, <4>1 DEF WrittenHs, PrevHsAfterCommitReady
    <3> QED
      BY <3>1, <3>2
  <2>3. NotOlder(store.hs, HardState)
    BY <1>0, <2>1 DEF HardStatesOK
  <2>4. NotOlder(HardState, HardState)
    BY <1>0, HardStateType DEF NotOlder, HardStates
  <2>5. HardState.term = term /\ HardState.vote = vote
    BY DEF HardState
  <2> QED
    BY <1>0, <1>1, <1>6, <2>2, <2>3, <2>4, <2>5 DEF HardStatesOK, InReady
<1>19. NoPanic'
  <2>1. elected => \A k \in DOMAIN records : records[k].last_entry = NoEntry
    BY <1>0, <1>1 DEF NothingToDrain
  <2> QED
    BY <1>1, <2>1 DEF NoPanic, Check
<1> QED
  BY <1>5, <1>13, <1>14, <1>15, <1>16, <1>17, <1>18, <1>19 DEF IInv

\* The entry on_persist_ready(n) passes on is the last entry of the records it
\* pops, if they have any.
LEMMA PersistedEntryIs ==
    ASSUME StateTypes, RecordsOK, NEW n \in Nat, n <= durable_number
    PROVE  \/ /\ PersistedEntry(n) = NoEntry
              /\ \A k \in PoppedRecords(n) : records[k].last_entry = NoEntry
           \/ \E k \in PoppedRecords(n) :
                 /\ PersistedEntry(n) = records[k].last_entry
                 /\ records[k].last_entry # NoEntry
                 /\ \A j \in PoppedRecords(n) : records[j].last_entry # NoEntry => j <= k
<1> DEFINE P == PoppedRecords(n)
           with == {k \in P : records[k].last_entry # NoEntry}
<1>1. PersistedEntry(n) = IF with = {} THEN NoEntry
         ELSE records[CHOOSE k \in with : \A j \in with : j <= k].last_entry
  BY DEF PersistedEntry
<1>2. Len(records) \in Nat /\ P \subseteq 1..Len(records)
  BY DEF StateTypes, NodeTypes, PoppedRecords
<1>3. CASE with = {}
  BY <1>1, <1>3
<1>4. CASE with # {}
  <2>1. with \in SUBSET (1..Len(records))
    BY <1>2
  <2> HIDE DEF P
  <2>2. \E k \in with : \A j \in with : j <= k
    <3> HIDE DEF with
    <3> QED
      BY <1>2, <1>4, <2>1, Greatest
  <2>3. PICK k \in with : /\ k = CHOOSE i \in with : \A j \in with : j <= i
                          /\ \A j \in with : j <= k
    BY <2>2
  <2>4. PersistedEntry(n) = records[k].last_entry
    BY <1>1, <1>4, <2>3
  <2> QED
    BY <2>3, <2>4 DEF P
<1> QED
  BY <1>3, <1>4

\* The persisted index after on_persist_ready(n) does not go back, is on disk,
\* and is before the entries of the records that are left.
LEMMA PersistBounds ==
    ASSUME IInv, NEW n \in Nat, n <= durable_number, NEW un,
           NEW p, p = PersistedAfter(n, un)
    PROVE  /\ p \in Nat
           /\ persisted <= p
           /\ p <= disk.log.hi
           /\ p = persisted \/ p < un.lo
           /\ \A k \in DOMAIN records :
                 k \notin PoppedRecords(n) /\ records[k].last_entry # NoEntry
                    => p < records[k].last_entry[1]
<1>0. StateTypes /\ RecordsOK
  BY DEF IInv
<1>1. persisted \in Nat /\ disk.log.hi \in Nat /\ persisted <= disk.log.hi
  BY <1>0, Numbers, Order
<1>2. CASE p = persisted
  <2>1. ASSUME NEW k \in DOMAIN records, records[k].last_entry # NoEntry
        PROVE  p < records[k].last_entry[1]
    BY <1>0, <1>2, <2>1 DEF RecordsOK, RecordPlace
  <2> QED
    BY <1>1, <1>2, <2>1
<1>3. CASE p # persisted
  <2> DEFINE e == PersistedEntry(n)
  <2>1. e # NoEntry /\ p = e[1] /\ e[1] > persisted /\ e[1] < un.lo
    BY <1>3 DEF PersistedAfter, MaybePersist
  <2>2. PICK k \in PoppedRecords(n) :
                 /\ e = records[k].last_entry
                 /\ records[k].last_entry # NoEntry
    BY <1>0, <2>1, PersistedEntryIs
  <2>3. k \in DOMAIN records /\ records[k].number <= n
    BY DEF PoppedRecords
  <2>4. records[k].last_entry[1] \in Nat /\ records[k].number \in Nat
    BY <1>0, <2>2, <2>3, RecordTypes
  <2>5. records[k].number <= durable_number
    <3>1. durable_number \in Nat
      BY <1>0, Numbers
    <3> QED
      BY <2>3, <2>4, <3>1
  <2>6. p <= disk.log.hi
    BY <1>0, <2>1, <2>2, <2>3, <2>5 DEF RecordsOK, RecordPlace
  <2>7. ASSUME NEW j \in DOMAIN records, j \notin PoppedRecords(n),
               records[j].last_entry # NoEntry
        PROVE  p < records[j].last_entry[1]
    <3>1. k < j
      <4>1. /\ Cardinality(PoppedRecords(n)) \in 0..Len(records)
            /\ PoppedRecords(n) = 1..Cardinality(PoppedRecords(n))
        BY <1>0, Popped
      <4>2. Len(records) \in Nat /\ DOMAIN records = 1..Len(records)
        BY <1>0, RecordTypes
      <4> QED
        BY <2>7, <4>1, <4>2
    <3> QED
      BY <1>0, <2>1, <2>2, <2>3, <2>7, <3>1 DEF RecordsOK
  <2> QED
    BY <1>1, <2>1, <2>2, <2>4, <2>6, <2>7
<1> QED
  BY <1>2, <1>3

\* The records that on_persist_ready(n) leaves.
LEMMA RecordsLeft ==
    ASSUME IInv, NEW n \in Nat, n <= durable_number, NEW un,
           records' = RecordsAfterPersist(n), persisted' = PersistedAfter(n, un),
           store' = store, disk' = disk, durable_number' = durable_number,
           max_number' = max_number, Last' = Last, WrittenNumber' = WrittenNumber
    PROVE  /\ records' \in Seq(ReadyRecord)
           /\ RecordsOK'
           /\ \A k \in DOMAIN records' : \E j \in DOMAIN records : records'[k] = records[j]
<1>0. StateTypes /\ RecordsOK
  BY DEF IInv
<1> DEFINE P == PoppedRecords(n)
           c == Cardinality(P)
<1>1. c \in 0..Len(records) /\ P = 1..c
  BY <1>0, Popped
<1>2. /\ Len(records) \in Nat /\ DOMAIN records = 1..Len(records)
      /\ records \in Seq(ReadyRecord)
      /\ max_number \in Nat
  BY <1>0, Numbers DEF StateTypes, NodeTypes
<1>3. records' = [k \in 1..(Len(records) - c) |-> records[k + c]]
  BY DEF RecordsAfterPersist
<1> HIDE DEF c
<1>4. Len(records) - c \in Nat /\ c \in Nat
  BY <1>1, <1>2
<1>5. \A k \in 1..(Len(records) - c) : k + c \in 1..Len(records) /\ k + c \notin P
  BY <1>1, <1>2, <1>4
<1>6. /\ records' \in Seq(ReadyRecord)
      /\ Len(records') = Len(records) - c
      /\ DOMAIN records' = 1..(Len(records) - c)
      /\ \A k \in 1..(Len(records) - c) : records'[k] = records[k + c]
  <2>1. \A k \in 1..(Len(records) - c) : records[k + c] \in ReadyRecord
    BY <1>2, <1>5
  <2> QED
    BY <1>3, <1>4, <2>1
<1>7. RecordsOK'
  <2>1. \A k \in DOMAIN records' : records'[k].number = max_number' - Len(records') + k
    <3>1. ASSUME NEW k \in 1..(Len(records) - c)
          PROVE  records'[k].number = max_number - (Len(records) - c) + k
      <4>1. records'[k].number = max_number - Len(records) + (k + c)
        BY <1>0, <1>2, <1>5, <1>6 DEF RecordsOK
      <4> QED
        BY <1>2, <1>4, <4>1
    <3> QED
      BY <1>6, <3>1
  <2>2. ASSUME NEW k \in 1..(Len(records) - c)
        PROVE  RecordPlace(records[k])'
    <3>1. RecordPlace(records[k + c])
      BY <1>0, <1>2, <1>5 DEF RecordsOK
    <3>2. records[k + c].last_entry # NoEntry => persisted' < records[k + c].last_entry[1]
      BY <1>2, <1>5, PersistBounds
    <3>3. records'[k] = records[k + c]
      BY <1>6
    <3> QED
      BY <3>1, <3>2, <3>3 DEF RecordPlace
  <2>3. ASSUME NEW j \in 1..(Len(records) - c), NEW k \in 1..(Len(records) - c), j < k,
               records'[j].last_entry # NoEntry, records'[k].last_entry # NoEntry
        PROVE  records'[j].last_entry[1] < records'[k].last_entry[1]
    <3>1. j + c < k + c
      BY <1>4, <2>3
    <3> QED
      BY <1>0, <1>2, <1>5, <1>6, <2>3, <3>1 DEF RecordsOK
  <2>4. durable_number' <= WrittenNumber'
    BY <1>0 DEF RecordsOK
  <2> QED
    BY <1>6, <2>1, <2>2, <2>3, <2>4 DEF RecordsOK
<1> QED
  BY <1>2, <1>5, <1>6, <1>7

\* What on_persist_entries makes of the leader's own progress and the commit
\* index.
LEMMA CommitBounds ==
    ASSUME IInv, NEW n \in Nat, n <= durable_number, NEW un
    PROVE  /\ MatchedAfter(n, un) \in Nat
           /\ MatchedAfter(n, un) <= PersistedAfter(n, un)
           /\ CommittedAfter(n, un) \in Nat
           /\ committed <= CommittedAfter(n, un)
           /\ CommittedAfter(n, un) <= Last
           /\ state # "Leader" => CommittedAfter(n, un) = committed
<1> DEFINE p == PersistedAfter(n, un)
           m == MatchedAfter(n, un)
<1>0. StateTypes
  BY DEF IInv
<1>1. /\ committed \in Nat /\ matched \in Nat /\ persisted \in Nat
      /\ disk.log.hi \in Nat /\ store.log.hi \in Nat /\ Last \in Nat
  BY <1>0, Numbers
<1>2. /\ committed <= Last /\ matched <= persisted
      /\ disk.log.hi <= store.log.hi /\ store.log.hi <= Last
  BY Order
<1>3. p \in Nat /\ persisted <= p /\ p <= disk.log.hi
  BY PersistBounds
<1>4. m = IF state = "Leader" /\ p > persisted /\ p > matched THEN p ELSE matched
  BY DEF MatchedAfter
<1> HIDE DEF p
<1>5. m \in Nat /\ m <= p /\ m <= Last /\ (state # "Leader" => m = matched)
  BY <1>1, <1>2, <1>3, <1>4
<1>6. CommittedAfter(n, un) = IF m > matched THEN LeaderCommit(un, m) ELSE committed
  BY DEF CommittedAfter
<1> HIDE DEF m
<1>7. /\ LeaderCommit(un, m) \in Nat
      /\ committed <= LeaderCommit(un, m)
      /\ LeaderCommit(un, m) = committed \/ LeaderCommit(un, m) = m
      /\ state # "Leader" => LeaderCommit(un, m) = committed
  BY <1>1, <1>5, LeaderCommitBound
<1> QED
  BY <1>1, <1>2, <1>5, <1>6, <1>7 DEF m, p

\* OnPersistReady(n) keeps the invariant.
LEMMA OnPersistReadyStep ==
    ASSUME SaveLightCommit, IInv, NEW n \in 1..MaxReady, OnPersistReady(n)
    PROVE  IInv'
<1>0. /\ StateTypes /\ ReadyShape /\ DiskBehind /\ Watermarks /\ RecordsOK
      /\ NothingToDrain /\ HardStatesOK /\ FollowerLog
  BY DEF IInv
<1>1. /\ stage = "idle" /\ n \in Nat /\ n <= durable_number
      /\ records' = RecordsAfterPersist(n)
      /\ persisted' = PersistedAfter(n, unstable)
      /\ matched' = MatchedAfter(n, unstable)
      /\ committed' = CommittedAfter(n, unstable)
  BY DEF OnPersistReady
<1>2. UNCHANGED <<store, disk, unstable, applied, state, term, vote,
                  pending_conf_index, last_log_tail_index, read_states, prev_state,
                  prev_hs, max_number, commit_since_index, stage, rd, light, inbox,
                  sm, durable_number, panics, read_index, crashes>>
  BY DEF OnPersistReady, appVars
<1>3. /\ Last \in Nat /\ persisted \in Nat /\ committed \in Nat
      /\ disk.log.hi \in Nat /\ store.log.hi \in Nat /\ commit_since_index \in Nat
      /\ unstable.lo \in Nat
  BY <1>0, Numbers
<1>4. /\ persisted < unstable.lo
      /\ disk.log.hi <= store.log.hi /\ store.log.hi <= Last
      /\ commit_since_index <= persisted /\ commit_since_index <= committed
  BY Order
<1>5. Last' = Last /\ WrittenNumber' = WrittenNumber
  BY <1>2 DEF Last, WrittenNumber
<1>6. /\ persisted' \in Nat
      /\ persisted <= persisted'
      /\ persisted' <= disk.log.hi
      /\ persisted' = persisted \/ persisted' < unstable.lo
  BY <1>1, PersistBounds
<1>7. /\ matched' \in Nat /\ matched' <= persisted'
      /\ committed' \in Nat /\ committed <= committed' /\ committed' <= Last
      /\ state # "Leader" => committed' = committed
  BY <1>1, CommitBounds
<1>8. /\ records' \in Seq(ReadyRecord)
      /\ RecordsOK'
      /\ \A k \in DOMAIN records' : \E j \in DOMAIN records : records'[k] = records[j]
  BY <1>1, <1>2, <1>5, RecordsLeft
<1>9. StateTypes'
  BY <1>0, <1>2, <1>6, <1>7, <1>8 DEF StateTypes, LogTypes, RaftTypes, NodeTypes, AppTypes
<1>10. ReadyShape' /\ DiskBehind' /\ InOrder' /\ HandedOutIsDurable' /\ NoPanic'
  BY <1>0, <1>1, <1>2 DEF IInv, ReadyShape, InReady, DiskBehind, InOrder,
                          HandedOutIsDurable, NoPanic
<1>11. Watermarks'
  <2>1. commit_since_index <= persisted' /\ commit_since_index <= committed'
        /\ persisted' < unstable.lo
    BY <1>3, <1>4, <1>6, <1>7
  <2> QED
    BY <1>0, <1>2, <1>5, <1>6, <1>7, <2>1 DEF Watermarks
<1>12. NothingToDrain'
  BY <1>0, <1>2, <1>8 DEF NothingToDrain
<1>13. HardStatesOK'
  <2>1. NotOlder(WrittenHs, HardState')
    BY <1>0, <1>2, <1>7, CommitGrows
  <2>2. WrittenHs' = WrittenHs
    BY <1>2 DEF WrittenHs
  <2> QED
    BY <1>0, <1>1, <1>2, <2>1, <2>2 DEF HardStatesOK, InReady
<1>14. FollowerLog'
  <2>1. Last = persisted => persisted' = persisted
    BY <1>3, <1>4, <1>6
  <2>2. state = "Follower" => committed' = committed
    BY <1>7
  <2> QED
    BY <1>0, <1>2, <1>5, <2>1, <2>2 DEF FollowerLog
<1> QED
  BY <1>8, <1>9, <1>10, <1>11, <1>12, <1>13, <1>14 DEF IInv

\* commit_ready finds the record it expects and leaves no unstable entries.
LEMMA CommitReady ==
    ASSUME IInv, stage = "written", NEW un, un = UnstableAfterCommitReady
    PROVE  /\ IsSegment(un)
           /\ IsEmpty(un)
           /\ un.lo = store.log.hi + 1
           /\ unstable.lo <= un.lo
           /\ LastIndex(store, un) = Last
           /\ Last = store.log.hi
           /\ Last = 1 /\ store.log.lo = 1
                 => LogEntry(store, un, 1) = LogEntry(store, unstable, 1)
           /\ CommitReadyChecks = {}
<1>0. StateTypes /\ ReadyShape /\ RecordsOK
  BY DEF IInv
<1>1. /\ unstable.lo \in Nat \ {0} /\ unstable.hi \in Nat /\ unstable.lo <= unstable.hi + 1
      /\ store.log.lo \in Nat \ {0} /\ store.log.hi \in Nat
      /\ max_number \in Nat
      /\ IsSegment(unstable)
  BY <1>0, Numbers DEF StateTypes, LogTypes
<1>2. /\ rd.number = max_number
      /\ records # <<>>
      /\ records[Len(records)].last_entry =
            IF IsEmpty(unstable) THEN NoEntry
            ELSE <<unstable.hi, unstable.ent[unstable.hi].term>>
  BY <1>0 DEF ReadyShape, InReady
<1>3. records[Len(records)].number = rd.number
  <2>1. /\ records \in Seq(ReadyRecord) /\ Len(records) \in Nat
        /\ DOMAIN records = 1..Len(records)
    BY <1>0 DEF StateTypes, NodeTypes
  <2>2. Len(records) \in DOMAIN records
    BY <1>2, <2>1
  <2>3. records[Len(records)].number = max_number - Len(records) + Len(records)
    BY <1>0, <2>2 DEF RecordsOK
  <2> QED
    BY <1>1, <1>2, <2>1, <2>3
<1>4. CASE IsEmpty(unstable)
  <2>1. un = unstable
    BY <1>2, <1>4 DEF UnstableAfterCommitReady
  <2>2. unstable.lo = store.log.hi + 1
    BY <1>0, <1>4 DEF ReadyShape
  <2>3. CommitReadyChecks = {}
    BY <1>2, <1>3, <1>4 DEF CommitReadyChecks, Check
  <2> QED
    BY <1>1, <1>4, <2>1, <2>2, <2>3 DEF Last, LastIndex
<1>5. CASE ~IsEmpty(unstable)
  <2>1. /\ records[Len(records)].last_entry # NoEntry
        /\ records[Len(records)].last_entry[1] = unstable.hi
        /\ records[Len(records)].last_entry[2] = unstable.ent[unstable.hi].term
    BY <1>2, <1>5, Present
  <2>2. un = EmptyAt(unstable.hi + 1)
    BY <2>1 DEF UnstableAfterCommitReady, StableEntries
  <2>3. /\ IsSegment(un) /\ IsEmpty(un)
        /\ un.lo = unstable.hi + 1
    BY <1>1, <2>2, EmptyAtType
  <2>4. /\ store.log.hi = unstable.hi
        /\ \A i \in unstable.lo..unstable.hi : store.log.ent[i] = unstable.ent[i]
    BY <1>0, <1>5 DEF ReadyShape
  <2>5. Last = unstable.hi /\ LastIndex(store, un) = store.log.hi
    BY <1>5, <2>3 DEF Last, LastIndex
  <2>6. CommitReadyChecks = {}
    BY <1>3, <1>5, <2>1 DEF CommitReadyChecks, Check, CanStable
  <2>7. ASSUME Last = 1
        PROVE  LogEntry(store, un, 1) = LogEntry(store, unstable, 1)
    BY <1>1, <2>3, <2>4, <2>5, <2>7 DEF LogEntry
  <2> QED
    BY <1>1, <2>3, <2>4, <2>5, <2>6, <2>7
<1> QED
  BY <1>4, <1>5

\* The HardState of the Ready is in storage once it is written.
LEMMA CommitReadyHs ==
    ASSUME IInv, stage = "written"
    PROVE  /\ PrevHsAfterCommitReady = store.hs
           /\ store.hs \in HardStates
           /\ store.hs.term = term /\ store.hs.vote = vote
           /\ store.hs.commit <= committed
           /\ WrittenHs = store.hs
<1>0. StateTypes /\ HardStatesOK
  BY DEF IInv
<1>1. WrittenHs = store.hs
  BY DEF WrittenHs
<1>2. store.hs.commit <= committed
  BY <1>0, <1>1 DEF HardStatesOK, NotOlder, HardState
<1> QED
  BY <1>0, <1>1, <1>2, WrittenHsType DEF HardStatesOK, InReady

\* AdvanceAppendAsync keeps the invariant.
LEMMA AdvanceAppendAsyncStep ==
    ASSUME SaveLightCommit, IInv, AdvanceAppendAsync
    PROVE  IInv'
<1>0. /\ StateTypes /\ ReadyShape /\ DiskBehind /\ Watermarks /\ RecordsOK
      /\ NothingToDrain /\ HardStatesOK /\ FollowerLog
  BY DEF IInv
<1>1. /\ stage = "written" /\ stage' = "idle"
      /\ unstable' = UnstableAfterCommitReady
      /\ prev_hs' = PrevHsAfterCommitReady
      /\ prev_state' = rd.state
      /\ panics' = CommitReadyChecks
      /\ rd' = NoReady
  BY DEF AdvanceAppendAsync
<1>2. UNCHANGED <<store, disk, committed, persisted, applied, state, term, vote,
                  matched, pending_conf_index, last_log_tail_index, read_states,
                  max_number, records, commit_since_index, light, inbox, sm,
                  durable_number, read_index, crashes>>
  BY DEF AdvanceAppendAsync, raftVars
<1>3. /\ IsSegment(unstable') /\ IsEmpty(unstable')
      /\ unstable'.lo = store.log.hi + 1
      /\ unstable.lo <= unstable'.lo
      /\ Last' = Last
      /\ Last = 1 /\ store.log.lo = 1
            => LogEntry(store, unstable', 1) = LogEntry(store, unstable, 1)
      /\ CommitReadyChecks = {}
  <2> DEFINE un == UnstableAfterCommitReady
  <2>1. /\ IsSegment(un) /\ IsEmpty(un)
        /\ un.lo = store.log.hi + 1
        /\ unstable.lo <= un.lo
        /\ LastIndex(store, un) = Last
        /\ Last = 1 /\ store.log.lo = 1
              => LogEntry(store, un, 1) = LogEntry(store, unstable, 1)
        /\ CommitReadyChecks = {}
    BY <1>1, CommitReady
  <2>2. unstable' = un /\ store' = store
    BY <1>1, <1>2
  <2> HIDE DEF un
  <2> QED
    BY <2>1, <2>2 DEF Last
<1>4. rd.state = state
  BY <1>0, <1>1 DEF ReadyShape, InReady
<1>5. /\ prev_hs' = store.hs /\ store.hs \in HardStates /\ WrittenHs = store.hs
  BY <1>1, CommitReadyHs
<1>6. StateTypes'
  <2>1. LogTypes'
    BY <1>0, <1>2, <1>3 DEF StateTypes, LogTypes
  <2>2. RaftTypes'
    BY <1>0, <1>2 DEF StateTypes, RaftTypes
  <2>3. NodeTypes'
    BY <1>0, <1>1, <1>2, <1>4, <1>5 DEF StateTypes, NodeTypes, RaftTypes
  <2>4. AppTypes'
    <3>1. IsReady(NoReady)
      <4>1. IsSegment(EmptyAt(1))
        BY EmptyAtType
      <4> QED
        BY <4>1 DEF IsReady, NoReady
    <3> QED
      BY <1>0, <1>1, <1>2, <3>1 DEF StateTypes, AppTypes
  <2> QED
    BY <2>1, <2>2, <2>3, <2>4 DEF StateTypes
<1>7. ReadyShape' /\ NothingToDrain'
  BY <1>1, <1>2, <1>3, <1>4 DEF ReadyShape, InReady, NothingToDrain
<1>8. DiskBehind' /\ InOrder' /\ HandedOutIsDurable' /\ NoPanic'
  BY <1>0, <1>1, <1>2, <1>3 DEF IInv, DiskBehind, InOrder, HandedOutIsDurable, NoPanic
<1>9. Watermarks'
  <2>1. persisted < unstable'.lo
    <3>1. persisted \in Nat /\ unstable.lo \in Nat /\ store.log.hi \in Nat
      BY <1>0, Numbers
    <3>2. persisted < unstable.lo
      BY Order
    <3> QED
      BY <1>3, <3>1, <3>2
  <2> QED
    BY <1>0, <1>2, <1>3, <2>1 DEF Watermarks
<1>10. RecordsOK'
  <2>1. WrittenNumber' = WrittenNumber
    BY <1>1, <1>2 DEF WrittenNumber
  <2>2. ASSUME NEW k \in DOMAIN records
        PROVE  RecordPlace(records[k])'
    BY <1>0, <1>2, <1>3, <2>1 DEF RecordsOK, RecordPlace
  <2> QED
    BY <1>0, <1>2, <2>1, <2>2 DEF RecordsOK
<1>11. HardStatesOK'
  <2>1. HardState' = HardState
    BY <1>2 DEF HardState
  <2>2. WrittenHs' = store.hs
    BY <1>1, <1>2 DEF WrittenHs
  <2> QED
    BY <1>0, <1>1, <1>2, <1>5, <2>1, <2>2 DEF HardStatesOK, InReady
<1>12. FollowerLog'
  BY <1>0, <1>2, <1>3 DEF FollowerLog
<1> QED
  BY <1>6, <1>7, <1>8, <1>9, <1>10, <1>11, <1>12 DEF IInv

\* AdvanceAppend, with or without the advance_apply_to of advance, keeps the
\* invariant.
LEMMA AdvanceAppendStep ==
    ASSUME SaveLightCommit, IInv, NEW apply \in BOOLEAN, AdvanceAppend(apply)
    PROVE  IInv'
<1>0. /\ StateTypes /\ ReadyShape /\ DiskBehind /\ Watermarks /\ RecordsOK
      /\ NothingToDrain /\ HardStatesOK /\ FollowerLog
  BY DEF IInv
<1> DEFINE un   == UnstableAfterCommitReady
           per  == PersistedAfter(max_number, un)
           com  == CommittedAfter(max_number, un)
           hs   == [term |-> term, vote |-> vote, commit |-> com]
           prev == PrevHsAfterCommitReady
<1>1. /\ stage = "written" /\ stage' = "light"
      /\ durable_number = max_number
      /\ apply => inbox = <<>>
      /\ unstable' = un
      /\ records' = RecordsAfterPersist(max_number)
      /\ persisted' = per
      /\ matched' = MatchedAfter(max_number, un)
      /\ committed' = com
      /\ light' = IF com > prev.commit THEN com ELSE 0
      /\ prev_hs' = hs
      /\ prev_state' = rd.state
      /\ applied' = IF apply THEN AppliedTo(applied, commit_since_index) ELSE applied
      /\ rd' = NoReady
  BY DEF AdvanceAppend
<1>2. UNCHANGED <<store, disk, state, term, vote, pending_conf_index,
                  last_log_tail_index, read_states, max_number, sm,
                  durable_number, read_index, crashes>>
  BY DEF AdvanceAppend
<1>3. panics' = CommitReadyChecks
          \cup Check("advance_append_hard_state",
                     prev.commit <= com /\ prev.term = term /\ prev.vote = vote)
          \cup Check("applied_to", apply => CanApply(com, per, applied, commit_since_index))
  BY DEF AdvanceAppend
<1>4. PICK to \in DeliverTo(store, com, per) :
         /\ inbox' = inbox \o Delivered(store, un, to)
         /\ commit_since_index' = to
  BY DEF AdvanceAppend
<1> HIDE DEF un, per, com, prev
<1>5. /\ store.log.lo \in Nat /\ store.log.hi \in Nat /\ disk.log.hi \in Nat
      /\ unstable.lo \in Nat
      /\ Last \in Nat /\ persisted \in Nat /\ committed \in Nat /\ applied \in Nat
      /\ commit_since_index \in Nat /\ Len(sm) \in Nat /\ Len(inbox) \in Nat
      /\ max_number \in Nat
  BY <1>0, Numbers
<1>6. /\ persisted < unstable.lo /\ disk.log.hi <= store.log.hi
      /\ store.log.lo <= applied + 1 /\ applied <= Len(sm)
      /\ commit_since_index = Len(sm) + Len(inbox)
      /\ commit_since_index <= persisted /\ commit_since_index <= committed
      /\ Len(sm) <= disk.hs.commit
  BY Order
<1>7. /\ IsSegment(un) /\ IsEmpty(un)
      /\ un.lo = store.log.hi + 1
      /\ unstable.lo <= un.lo
      /\ LastIndex(store, un) = Last
      /\ Last = store.log.hi
      /\ Last = 1 /\ store.log.lo = 1
            => LogEntry(store, un, 1) = LogEntry(store, unstable, 1)
      /\ CommitReadyChecks = {}
  BY <1>1, CommitReady DEF un
<1>8. /\ prev = store.hs /\ store.hs \in HardStates
      /\ store.hs.term = term /\ store.hs.vote = vote
      /\ store.hs.commit <= committed
      /\ WrittenHs = store.hs
  BY <1>1, CommitReadyHs DEF prev
<1>9. max_number <= durable_number
  BY <1>1, <1>5
<1>10. /\ per \in Nat
       /\ persisted <= per
       /\ per <= disk.log.hi
       /\ per < un.lo
  <2>1. /\ per \in Nat
        /\ persisted <= per
        /\ per <= disk.log.hi
    BY <1>5, <1>9, PersistBounds DEF per
  <2> QED
    BY <1>5, <1>6, <1>7, <2>1
<1>11. /\ matched' \in Nat /\ matched' <= per
       /\ com \in Nat /\ committed <= com /\ com <= Last
       /\ state # "Leader" => com = committed
  BY <1>1, <1>5, <1>9, CommitBounds DEF com, per
<1>12. Last' = Last /\ WrittenNumber' = WrittenNumber
  <2>1. Last' = LastIndex(store, un)
    BY <1>1, <1>2 DEF Last
  <2>2. WrittenNumber = max_number /\ WrittenNumber' = max_number
    BY <1>1, <1>2 DEF WrittenNumber
  <2> QED
    BY <1>7, <2>1, <2>2
<1>13. records' \in Seq(ReadyRecord) /\ RecordsOK'
  BY <1>1, <1>2, <1>5, <1>9, <1>12, RecordsLeft DEF per
<1>14. /\ commit_since_index <= per /\ commit_since_index <= com
       /\ un.lo \in Nat
  <2>1. un.lo \in Nat
    BY <1>5, <1>7
  <2>2. commit_since_index <= per
    BY <1>5, <1>6, <1>10
  <2>3. commit_since_index <= com
    BY <1>5, <1>6, <1>11
  <2> QED
    BY <2>1, <2>2, <2>3
<1>15. /\ commit_since_index' \in Nat
       /\ commit_since_index' <= com
       /\ commit_since_index' <= per
       /\ inbox' \in Seq(AppEntry)
       /\ InOrder'
       /\ HandedOutIsDurable'
  <2>1. sm' = sm /\ disk' = disk
    BY <1>2
  <2> QED
    BY <1>4, <1>10, <1>11, <1>14, <2>1, HandOut
<1>16. rd.state = state
  BY <1>0, <1>1 DEF ReadyShape, InReady
<1>17. applied' \in Nat /\ applied <= applied' /\ applied' <= Len(sm)
  <2>1. CASE apply
    <3>1. Len(inbox) = 0
      BY <1>1, <2>1
    <3>2. applied' = applied \/ applied' = commit_since_index
      BY <1>1, <2>1 DEF AppliedTo
    <3> QED
      BY <1>5, <1>6, <3>1, <3>2
  <2>2. CASE ~apply
    BY <1>1, <1>5, <1>6, <2>2
  <2> QED
    BY <2>1, <2>2
<1>18. /\ hs \in HardStates
       /\ hs.term = term /\ hs.vote = vote /\ hs.commit = com
  <2>1. term \in Nat /\ vote \in {INVALID_ID, ID} /\ (term = 0 => vote = INVALID_ID)
    BY <1>0 DEF StateTypes, RaftTypes, HardStatesOK
  <2> QED
    BY <1>11, <2>1 DEF HardStates
<1>19. HardState' = hs
  BY <1>1, <1>2 DEF HardState
<1>20. light' \in Nat
  BY <1>1, <1>11
<1> HIDE DEF hs
<1>21. StateTypes'
  <2>1. LogTypes'
    BY <1>0, <1>1, <1>2, <1>7, <1>10, <1>11, <1>17 DEF StateTypes, LogTypes
  <2>2. RaftTypes'
    BY <1>0, <1>2, <1>11 DEF StateTypes, RaftTypes
  <2>3. NodeTypes'
    BY <1>0, <1>1, <1>2, <1>13, <1>15, <1>16, <1>18 DEF StateTypes, NodeTypes, RaftTypes
  <2>4. AppTypes'
    <3>1. IsReady(NoReady)
      <4>1. IsSegment(EmptyAt(1))
        BY EmptyAtType
      <4> QED
        BY <4>1 DEF IsReady, NoReady
    <3> QED
      BY <1>0, <1>1, <1>2, <1>15, <1>20, <3>1 DEF StateTypes, AppTypes
  <2> QED
    BY <2>1, <2>2, <2>3, <2>4 DEF StateTypes
<1>22. ReadyShape' /\ NothingToDrain' /\ DiskBehind'
  BY <1>0, <1>1, <1>2, <1>7, <1>16 DEF ReadyShape, InReady, NothingToDrain, DiskBehind
<1>23. Watermarks'
  <2>1. store.log.lo <= applied' + 1
    BY <1>5, <1>6, <1>17
  <2> QED
    BY <1>1, <1>2, <1>6, <1>10, <1>11, <1>12, <1>15, <1>17, <2>1 DEF Watermarks
<1>24. HardStatesOK'
  <2>1. WrittenHs' = hs
    <3>1. CASE com > store.hs.commit
      <4>1. light' = com /\ com # 0
        BY <1>1, <1>8, <1>11, <3>1 DEF HardStates
      <4>2. WrittenHs' = [store.hs EXCEPT !.commit = com]
        BY <1>1, <1>2, <4>1 DEF WrittenHs
      <4> QED
        BY <1>8, <4>2 DEF hs, HardStates
    <3>2. CASE ~(com > store.hs.commit)
      <4>1. light' = 0
        BY <1>1, <1>8, <3>2
      <4>2. WrittenHs' = store.hs
        BY <1>1, <1>2, <4>1 DEF WrittenHs
      <4>3. store.hs.commit = com
        BY <1>5, <1>8, <1>11, <3>2 DEF HardStates
      <4> QED
        BY <1>8, <4>2, <4>3 DEF hs, HardStates
    <3> QED
      BY <3>1, <3>2
  <2>2. NotOlder(store.hs, hs) /\ NotOlder(hs, hs)
    <3>1. store.hs.commit <= com /\ com <= com /\ term <= term
      <4>1. store.hs.commit \in Nat /\ term \in Nat
        BY <1>8 DEF HardStates
      <4> QED
        BY <1>5, <1>8, <1>11, <4>1
    <3> QED
      BY <1>8, <1>18, <3>1 DEF NotOlder
  <2> QED
    BY <1>0, <1>1, <1>2, <1>19, <2>1, <2>2 DEF HardStatesOK, InReady
<1>25. FollowerLog'
  <2>1. Last = persisted => per = persisted
    BY <1>5, <1>6, <1>7, <1>10
  <2>2. state = "Follower" => com = committed
    BY <1>11
  <2> QED
    BY <1>0, <1>1, <1>2, <1>7, <1>12, <2>1, <2>2 DEF FollowerLog
<1>26. NoPanic'
  <2>1. prev.commit <= com /\ prev.term = term /\ prev.vote = vote
    BY <1>5, <1>8, <1>11 DEF HardStates
  <2>2. apply => CanApply(com, per, applied, commit_since_index)
    <3>1. applied <= commit_since_index
      BY <1>5, <1>6
    <3> QED
      BY <1>14, <3>1 DEF CanApply, NextTo
  <2> QED
    BY <1>3, <1>7, <2>1, <2>2 DEF NoPanic, Check
<1> QED
  BY <1>13, <1>15, <1>21, <1>22, <1>23, <1>24, <1>25, <1>26 DEF IInv

\* What survives a crash is enough to start again: the HardState on disk, if
\* there is one, points into the log on disk and covers what is applied.
LEMMA Restartable ==
    ASSUME IInv
    PROVE  /\ RestartHs(disk) = disk.hs
           /\ RestartCommitted(disk) = disk.hs.commit
           /\ disk.hs \in HardStates
           /\ disk.log.lo <= Len(sm) + 1
           /\ Len(sm) <= disk.hs.commit
           /\ disk.hs.commit <= disk.log.hi
<1>0. StateTypes
  BY DEF IInv
<1>1. /\ disk.hs \in HardStates
      /\ disk.log.lo \in Nat \ {0} /\ disk.log.hi \in Nat /\ Len(sm) \in Nat
  BY <1>0, WrittenHsType, Numbers
<1>2. /\ disk.log.lo <= Len(sm) + 1
      /\ Len(sm) <= disk.hs.commit
      /\ disk.hs.commit <= disk.log.hi
  BY DEF IInv, HandedOutIsDurable, DiskBehind, Watermarks
<1>3. RestartCommitted(disk) = disk.hs.commit
  <2>1. CASE disk.hs = NoHardState
    <3>1. disk.hs.commit = 0
      BY <2>1 DEF NoHardState
    <3>2. disk.log.lo = 1
      BY <1>1, <1>2, <3>1
    <3> QED
      BY <2>1, <3>1, <3>2 DEF RestartCommitted
  <2>2. CASE disk.hs # NoHardState
    BY <2>2 DEF RestartCommitted
  <2> QED
    BY <2>1, <2>2
<1>4. RestartHs(disk) = disk.hs
  BY <1>1, <1>3 DEF RestartHs, HardStates
<1> QED
  BY <1>1, <1>2, <1>3, <1>4

\* A crash and restart keep the invariant.
LEMMA CrashRestartStep ==
    ASSUME SaveLightCommit, IInv, CrashRestart
    PROVE  IInv'
<1>0. StateTypes /\ InOrder /\ HandedOutIsDurable
  BY DEF IInv
<1>1. /\ disk.log.lo \in Nat \ {0} /\ disk.log.hi \in Nat /\ Len(sm) \in Nat
      /\ disk.log.lo <= disk.log.hi + 1
      /\ IsStorage(disk) /\ IsSegment(disk.log)
      /\ sm \in Seq(AppEntry) /\ crashes \in Nat /\ read_index \in Nat
  BY <1>0, Numbers DEF StateTypes, LogTypes, IsStorage, AppTypes
<1>2. /\ RestartHs(disk) = disk.hs
      /\ RestartCommitted(disk) = disk.hs.commit
      /\ disk.hs \in HardStates
      /\ disk.log.lo <= Len(sm) + 1
      /\ Len(sm) <= disk.hs.commit
      /\ disk.hs.commit <= disk.log.hi
  BY Restartable
<1>3. /\ disk.hs.term \in Nat /\ disk.hs.vote \in {INVALID_ID, ID}
      /\ disk.hs.commit \in Nat
      /\ disk.hs.term = 0 => disk.hs.vote = INVALID_ID
  BY <1>2 DEF HardStates
<1>4. /\ store' = disk
      /\ disk' = disk
      /\ unstable' = EmptyAt(disk.log.hi + 1)
      /\ committed' = disk.hs.commit
      /\ persisted' = disk.log.hi
      /\ applied' = AppliedTo(disk.log.lo - 1, Len(sm))
  BY <1>2 DEF CrashRestart
<1>5. /\ state' = "Follower"
      /\ term' = disk.hs.term
      /\ vote' = disk.hs.vote
      /\ matched' = disk.log.hi
      /\ pending_conf_index' = 0
      /\ last_log_tail_index' = 0
      /\ read_states' = <<>>
  BY DEF CrashRestart
<1>6. /\ prev_state' = "Follower"
      /\ prev_hs' = disk.hs
      /\ max_number' = 0
      /\ records' = <<>>
      /\ commit_since_index' = Len(sm)
  BY <1>2 DEF CrashRestart
<1>7. /\ stage' = "idle"
      /\ rd' = NoReady
      /\ light' = 0
      /\ inbox' = <<>>
      /\ durable_number' = 0
      /\ crashes' = crashes + 1
      /\ sm' = sm /\ read_index' = read_index
  BY DEF CrashRestart
<1>8. /\ IsSegment(unstable')
      /\ IsEmpty(unstable')
      /\ unstable'.lo = disk.log.hi + 1
  <2>1. disk.log.hi + 1 \in Nat \ {0}
    BY <1>1
  <2> QED
    BY <1>4, <2>1, EmptyAtType
<1>9. Last' = disk.log.hi
  BY <1>4, <1>8 DEF Last, LastIndex
<1>10. applied' \in Nat /\ disk.log.lo <= applied' + 1 /\ applied' <= Len(sm)
  <2>1. CASE Len(sm) = 0
    BY <1>1, <1>2, <1>4, <2>1 DEF AppliedTo
  <2>2. CASE Len(sm) # 0
    BY <1>1, <1>2, <1>4, <2>2 DEF AppliedTo
  <2> QED
    BY <2>1, <2>2
<1>11. StateTypes'
  <2>1. LogTypes'
    BY <1>1, <1>3, <1>4, <1>8, <1>10 DEF LogTypes
  <2>2. RaftTypes'
    <3>1. <<>> \in Seq(Nat)
      OBVIOUS
    <3> QED
      BY <1>1, <1>3, <1>5, <3>1 DEF RaftTypes
  <2>3. NodeTypes'
    <3>1. <<>> \in Seq(ReadyRecord)
      OBVIOUS
    <3> QED
      BY <1>1, <1>2, <1>6, <3>1 DEF NodeTypes
  <2>4. AppTypes'
    <3>1. IsReady(NoReady)
      <4>1. IsSegment(EmptyAt(1))
        BY EmptyAtType
      <4> QED
        BY <4>1 DEF IsReady, NoReady
    <3>2. <<>> \in Seq(AppEntry)
      OBVIOUS
    <3> QED
      BY <1>1, <1>7, <3>1, <3>2 DEF AppTypes
  <2> QED
    BY <2>1, <2>2, <2>3, <2>4 DEF StateTypes
<1>12. ReadyShape' /\ NothingToDrain'
  BY <1>4, <1>5, <1>6, <1>7, <1>8 DEF ReadyShape, InReady, NothingToDrain
<1>13. DiskBehind'
  <2>1. NotOlder(disk.hs, disk.hs)
    BY <1>3 DEF NotOlder
  <2> QED
    BY <1>1, <1>2, <1>4, <2>1 DEF DiskBehind
<1>14. Watermarks'
  <2>1. Len(sm) <= disk.log.hi
    BY <1>1, <1>2, <1>3
  <2>2. disk.log.hi < unstable'.lo /\ disk.log.hi <= disk.log.hi
    BY <1>1, <1>8
  <2> QED
    BY <1>2, <1>4, <1>5, <1>6, <1>7, <1>9, <1>10, <2>1, <2>2 DEF Watermarks
<1>15. RecordsOK'
  <2>1. WrittenNumber' = 0
    BY <1>6, <1>7 DEF WrittenNumber
  <2>2. DOMAIN records' = {}
    BY <1>6
  <2> QED
    BY <1>7, <2>1, <2>2 DEF RecordsOK
<1>16. HardStatesOK'
  <2>1. WrittenHs' = disk.hs
    BY <1>4, <1>7 DEF WrittenHs
  <2>2. HardState' = disk.hs
    <3>1. disk.hs = [term |-> disk.hs.term, vote |-> disk.hs.vote, commit |-> disk.hs.commit]
      BY <1>2 DEF HardStates
    <3> QED
      BY <1>4, <1>5, <3>1 DEF HardState
  <2>3. NotOlder(disk.hs, disk.hs)
    BY <1>3 DEF NotOlder
  <2>4. ~InReady'
    BY <1>7 DEF InReady
  <2> QED
    BY <1>2, <1>3, <1>4, <1>5, <1>6, <2>1, <2>2, <2>3, <2>4 DEF HardStatesOK
<1>17. FollowerLog'
  BY <1>4, <1>5, <1>8, <1>9 DEF FollowerLog
<1>18. InOrder' /\ HandedOutIsDurable'
  <2>1. Len(inbox') = 0
    BY <1>7
  <2> QED
    BY <1>0, <1>1, <1>4, <1>6, <1>7, <2>1 DEF InOrder, HandedOutIsDurable
<1>19. NoPanic'
  <2>1. disk.log.lo - 1 <= disk.hs.commit
    BY <1>1, <1>2, <1>3
  <2>2. CanApply(disk.hs.commit, disk.log.hi, disk.log.lo - 1, Len(sm))
    BY <1>1, <1>2, <1>3 DEF CanApply, NextTo
  <2> QED
    BY <1>2, <2>1, <2>2 DEF CrashRestart, NoPanic, Check
<1> QED
  BY <1>11, <1>12, <1>13, <1>14, <1>15, <1>16, <1>17, <1>18, <1>19 DEF IInv

\* The first start establishes the invariant.
LEMMA InitInv ==
    ASSUME Init
    PROVE  IInv
<1>1. /\ IsSegment(EmptyAt(1)) /\ IsEmpty(EmptyAt(1))
      /\ EmptyAt(1).lo = 1 /\ EmptyAt(1).hi = 0
  BY EmptyAtType
<1>2. /\ NoHardState \in HardStates
      /\ NoHardState.term = 0 /\ NoHardState.vote = INVALID_ID /\ NoHardState.commit = 0
      /\ NotOlder(NoHardState, NoHardState)
  BY DEF NoHardState, HardStates, INVALID_ID, NotOlder
<1>3. /\ store = disk
      /\ store.log = EmptyAt(1) /\ store.hs = NoHardState
      /\ store = [log |-> store.log, hs |-> store.hs]
  BY DEF Init, NewStorage
<1>4. Last = 0
  BY <1>1, <1>3 DEF Init, Last, LastIndex
<1>5. StateTypes
  <2>1. LogTypes
    BY <1>1, <1>2, <1>3 DEF Init, LogTypes, IsStorage
  <2>2. RaftTypes
    BY DEF Init, RaftTypes, INVALID_ID
  <2>3. NodeTypes
    BY <1>2 DEF Init, NodeTypes
  <2>4. AppTypes
    <3>1. IsReady(NoReady)
      BY <1>1 DEF IsReady, NoReady
    <3> QED
      BY <3>1 DEF Init, AppTypes
  <2> QED
    BY <2>1, <2>2, <2>3, <2>4 DEF StateTypes
<1>6. ReadyShape /\ NothingToDrain /\ NoPanic
  BY <1>1, <1>3 DEF Init, ReadyShape, InReady, NothingToDrain, NoPanic
<1>7. DiskBehind /\ Watermarks
  BY <1>1, <1>2, <1>3, <1>4 DEF Init, DiskBehind, Watermarks
<1>8. RecordsOK
  BY DEF Init, RecordsOK, WrittenNumber
<1>9. HardStatesOK
  <2>1. WrittenHs = NoHardState
    BY <1>3 DEF Init, WrittenHs
  <2>2. HardState = NoHardState
    BY DEF Init, HardState, NoHardState, INVALID_ID
  <2> QED
    BY <1>1, <1>2, <1>3, <2>1, <2>2 DEF Init, HardStatesOK, InReady
<1>10. FollowerLog
  BY <1>1, <1>4 DEF Init, FollowerLog
<1>11. InOrder /\ HandedOutIsDurable
  BY <1>1, <1>3 DEF Init, InOrder, HandedOutIsDurable
<1> QED
  BY <1>5, <1>6, <1>7, <1>8, <1>9, <1>10, <1>11 DEF IInv

-----------------------------------------------------------------------------
\* The invariant holds in every reachable state: one lemma for each action.
THEOREM Invariance ==
    ASSUME SaveLightCommit
    PROVE  Spec => []IInv
<1>1. Init => IInv
  BY InitInv
<1>2. IInv /\ [Next]_vars => IInv'
  <2>1. SUFFICES ASSUME IInv, [Next]_vars
                 PROVE  IInv'
    OBVIOUS
  <2>2. CASE UNCHANGED vars
    BY <2>1, <2>2, Stutter
  <2>3. CASE Hup
    BY <2>1, <2>3, HupStep
  <2>4. CASE BootStrap
    BY <2>1, <2>4, BootStrapStep
  <2>5. ASSUME NEW p \in Proposals, Propose(p)
        PROVE  IInv'
    BY <2>1, <2>5, ProposeStep
  <2>6. CASE ReadIndex
    BY <2>1, <2>6, ReadIndexStep
  <2>7. CASE GetReady
    BY <2>1, <2>7, GetReadyStep
  <2>8. ASSUME NEW apply \in BOOLEAN, AdvanceAppend(apply)
        PROVE  IInv'
    BY <2>1, <2>8, AdvanceAppendStep
  <2>9. CASE AdvanceAppendAsync
    BY <2>1, <2>9, AdvanceAppendAsyncStep
  <2>10. ASSUME NEW n \in 1..MaxReady, OnPersistReady(n)
         PROVE  IInv'
    BY <2>1, <2>10, OnPersistReadyStep
  <2>11. CASE AdvanceApply
    BY <2>1, <2>11, AdvanceApplyStep
  <2>12. CASE WriteEntries
    BY <2>1, <2>12, WriteEntriesStep
  <2>13. CASE WriteHardState
    BY <2>1, <2>13, WriteHardStateStep
  <2>14. CASE WriteCommit
    BY <2>1, <2>14, WriteCommitStep
  <2>15. CASE Sync
    BY <2>1, <2>15, SyncStep
  <2>16. CASE ApplyEntry
    BY <2>1, <2>16, ApplyEntryStep
  <2>17. CASE Compact
    BY <2>1, <2>17, CompactStep
  <2>18. CASE CrashRestart
    BY <2>1, <2>18, CrashRestartStep
  <2> QED
    BY <2>1, <2>2, <2>3, <2>4, <2>5, <2>6, <2>7, <2>8, <2>9, <2>10, <2>11, <2>12,
       <2>13, <2>14, <2>15, <2>16, <2>17, <2>18 DEF Next
<1> QED
  BY <1>1, <1>2, PTL DEF Spec

\* The variables have their types; for uncommitted_size see TypesHold.
THEOREM TypeSafety ==
    ASSUME SaveLightCommit
    PROVE  Spec => []StateTypes
<1>1. IInv => StateTypes
  BY DEF IInv
<1> QED
  BY <1>1, Invariance, PTL

\* No assertion of the pipeline or of a restart fails: commit_ready finds its
\* record, stable_entries its entry, advance_append a HardState that only moved
\* its commit index, applied_to an index in range, a leader a persisted log, and
\* load_state a commit index that is in the log on disk.
THEOREM PanicFreedom ==
    ASSUME SaveLightCommit
    PROVE  Spec => []NoPanic
<1>1. IInv => NoPanic
  BY DEF IInv
<1> QED
  BY <1>1, Invariance, PTL

\* The application is handed the log in order, without gaps and duplicates,
\* whatever Readies, LightReadies and restarts it comes through.
THEOREM OrderedDelivery ==
    ASSUME SaveLightCommit
    PROVE  Spec => []InOrder
<1>1. IInv => InOrder
  BY DEF IInv
<1> QED
  BY <1>1, Invariance, PTL

\* Nothing is handed to the application that a crash could take away.
THEOREM DurableDelivery ==
    ASSUME SaveLightCommit
    PROVE  Spec => []HandedOutIsDurable
<1>1. IInv => HandedOutIsDurable
  BY DEF IInv
<1> QED
  BY <1>1, Invariance, PTL

\* The invariants documented on the fields of RaftLog.
THEOREM WatermarkOrder ==
    ASSUME SaveLightCommit
    PROVE  Spec => []LogWatermarks
<1>1. IInv => LogWatermarks
  <2>1. SUFFICES ASSUME IInv
                 PROVE  LogWatermarks
    OBVIOUS
  <2>2. /\ applied \in Nat /\ committed \in Nat /\ persisted \in Nat
        /\ Len(sm) \in Nat /\ commit_since_index \in Nat
    BY <2>1, Numbers DEF IInv
  <2>3. /\ applied <= Len(sm) /\ Len(sm) <= commit_since_index
        /\ commit_since_index <= persisted /\ commit_since_index <= committed
        /\ persisted < unstable.lo
    BY <2>1, Order
  <2> QED
    BY <2>2, <2>3 DEF LogWatermarks
<1> QED
  BY <1>1, Invariance, PTL

\* What the node believes to be persisted is on disk, entry by entry.
THEOREM PersistedSafety ==
    ASSUME SaveLightCommit
    PROVE  Spec => []PersistedIsDurable
<1>1. IInv => PersistedIsDurable
  <2>1. SUFFICES ASSUME IInv
                 PROVE  PersistedIsDurable
    OBVIOUS
  <2>2. /\ persisted \in Nat /\ disk.log.lo \in Nat /\ disk.log.hi \in Nat
        /\ store.log.lo \in Nat
    BY <2>1, Numbers DEF IInv
  <2>3. persisted <= disk.log.hi /\ disk.log.lo <= store.log.lo
    BY <2>1, Order
  <2>4. \A i \in store.log.lo..disk.log.hi : disk.log.ent[i] = store.log.ent[i]
    BY <2>1 DEF IInv, DiskBehind
  <2> QED
    BY <2>2, <2>3, <2>4 DEF PersistedIsDurable, Has
<1> QED
  BY <1>1, Invariance, PTL

\* Between two Readies the storage holds the HardState the node compares with.
THEOREM HardStateSaved ==
    ASSUME SaveLightCommit
    PROVE  Spec => []NoLostHardState
<1>1. IInv => NoLostHardState
  BY DEF IInv, HardStatesOK, InReady, WrittenHs, NoLostHardState
<1> QED
  BY <1>1, Invariance, PTL

\* Term, vote and commit index on disk are never taken back: only a sync changes
\* the disk, and the storage it writes is never older.
THEOREM HardStateProgress ==
    ASSUME SaveLightCommit
    PROVE  Spec => HardStateMonotone
<1>1. IInv /\ [Next]_vars => [NotOlder(disk.hs, disk.hs')]_vars
  <2>1. SUFFICES ASSUME IInv, [Next]_vars
                 PROVE  NotOlder(disk.hs, disk.hs')
    OBVIOUS
  <2>2. disk' \in {disk, store}
    BY <2>1 DEF Next, vars, Hup, BootStrap, Propose, ReadIndex, GetReady,
       AdvanceAppend, AdvanceAppendAsync, OnPersistReady, AdvanceApply,
       WriteEntries, WriteHardState, WriteCommit, Sync, ApplyEntry, Compact,
       CrashRestart
  <2>3. NotOlder(disk.hs, store.hs)
    BY <2>1 DEF IInv, DiskBehind
  <2>4. NotOlder(disk.hs, disk.hs)
    BY <2>1, WrittenHsType DEF IInv, NotOlder, HardStates
  <2> QED
    BY <2>2, <2>3, <2>4
<1> QED
  BY <1>1, Invariance, PTL DEF Spec, HardStateMonotone

-----------------------------------------------------------------------------
\* The log of the node

\* A storage and the unstable entries after what it holds.
LogShape(st, un) ==
    /\ IsStorage(st) /\ IsSegment(un)
    /\ st.log.lo <= un.lo /\ un.lo <= st.log.hi + 1
    /\ IsEmpty(un) => un.lo = st.log.hi + 1

\* The log of the node has this shape.
LEMMA ShapeHolds ==
    ASSUME IInv
    PROVE  LogShape(store, unstable)
<1>1. StateTypes /\ ReadyShape
  BY DEF IInv
<1> QED
  BY <1>1 DEF StateTypes, LogTypes, IsStorage, IsSegment, ReadyShape, IsEmpty, LogShape

\* So has the log after a step.
LEMMA ShapeAfter ==
    ASSUME IInv'
    PROVE  LogShape(store', unstable')
<1>1. StateTypes' /\ ReadyShape'
  BY DEF IInv
<1> QED
  BY <1>1 DEF StateTypes, LogTypes, IsStorage, IsSegment, ReadyShape, IsEmpty, LogShape

\* The term of an index is that of the entry the log has there.
LEMMA TermOfEntry ==
    ASSUME NEW st, NEW un, LogShape(st, un), NEW i \in Nat, i <= LastIndex(st, un)
    PROVE  /\ i >= st.log.lo => LogTerm(st, un, i) = LogEntry(st, un, i).term
           /\ i < st.log.lo => LogTerm(st, un, i) \in {0, NoTerm}
<1>1. /\ st.log.lo \in Nat \ {0} /\ st.log.hi \in Nat
      /\ un.lo \in Nat \ {0} /\ un.hi \in Nat
      /\ st.log.lo <= un.lo /\ un.lo <= st.log.hi + 1
      /\ IsEmpty(un) => un.lo = st.log.hi + 1
      /\ LastIndex(st, un) \in Nat
  BY DEF LogShape, IsStorage, IsSegment, LastIndex
<1>2. CASE i < st.log.lo
  BY <1>1, <1>2 DEF LogTerm, StorageTerm, Has
<1>3. CASE i >= st.log.lo /\ i >= un.lo
  <2>1. Has(un, i)
    BY <1>1, <1>3 DEF LastIndex, IsEmpty, Has
  <2> QED
    BY <1>1, <1>3, <2>1 DEF LogTerm, LogEntry
<1>4. CASE i >= st.log.lo /\ i < un.lo
  <2>1. ~Has(un, i) /\ Has(st.log, i) /\ i # 0
    BY <1>1, <1>4 DEF Has
  <2> QED
    BY <1>1, <1>4, <2>1 DEF LogTerm, LogEntry, StorageTerm
<1> QED
  BY <1>1, <1>2, <1>3, <1>4

\* What it has there is an entry.
LEMMA EntryType ==
    ASSUME NEW st, NEW un, LogShape(st, un), NEW i \in st.log.lo..LastIndex(st, un)
    PROVE  LogEntry(st, un, i) \in Entry
<1>1. /\ st.log.lo \in Nat \ {0} /\ st.log.hi \in Nat
      /\ un.lo \in Nat \ {0} /\ un.hi \in Nat
      /\ st.log.lo <= un.lo /\ un.lo <= st.log.hi + 1
      /\ IsEmpty(un) => un.lo = st.log.hi + 1
      /\ st.log.ent \in [st.log.lo..st.log.hi -> Entry]
      /\ un.ent \in [un.lo..un.hi -> Entry]
  BY DEF LogShape, IsStorage, IsSegment
<1> QED
  BY <1>1 DEF LogEntry, LastIndex, IsEmpty

\* What storage has is what the node reads.
LEMMA StoredEntry ==
    ASSUME IInv, NEW i \in store.log.lo..store.log.hi
    PROVE  LogEntry(store, unstable, i) = store.log.ent[i]
<1>1. StateTypes /\ ReadyShape
  BY DEF IInv
<1>2. /\ unstable.lo \in Nat /\ unstable.hi \in Nat
      /\ store.log.lo \in Nat /\ store.log.hi \in Nat
  BY <1>1, Numbers
<1> QED
  BY <1>1, <1>2 DEF ReadyShape, LogEntry, IsEmpty

\* A step that keeps the log, but for what it compacts.
LogKept ==
    /\ Last' = Last
    /\ store.log.lo <= store'.log.lo
    /\ \A i \in store'.log.lo..Last :
          LogEntry(store', unstable', i) = LogEntry(store, unstable, i)

\* A step that appends an entry to it.
LogAppended(e) ==
    /\ Last' = Last + 1
    /\ store'.log.lo = store.log.lo
    /\ \A i \in store.log.lo..Last :
          LogEntry(store', unstable', i) = LogEntry(store, unstable, i)
    /\ LogEntry(store', unstable', Last + 1) = e

\* A step that leaves storage and unstable entries alone keeps the log.
LEMMA KeptBySame ==
    ASSUME IInv, store'.log = store.log, unstable' = unstable
    PROVE  LogKept
<1>1. store.log.lo \in Nat
  BY Numbers DEF IInv
<1> QED
  BY <1>1 DEF LogKept, LogEntry, Last, LastIndex

\* So does the write of the unstable entries to storage.
LEMMA KeptByWriteEntries ==
    ASSUME IInv, WriteEntries
    PROVE  LogKept
<1>1. StateTypes /\ ReadyShape
  BY DEF IInv
<1>2. LogShape(store, unstable) /\ rd.entries = unstable /\ unstable' = unstable
      /\ store' = StorageAppend(store, unstable) /\ stage = "ready"
  BY <1>1, ShapeHolds DEF WriteEntries, ReadyShape, InReady, logVars
<1>3. /\ unstable.lo \in Nat /\ unstable.hi \in Nat
      /\ store.log.lo \in Nat /\ store.log.hi \in Nat
  BY <1>1, Numbers
<1>4. CASE IsEmpty(unstable)
  BY <1>2, <1>4, KeptBySame DEF StorageAppend
<1>5. CASE ~IsEmpty(unstable)
  <2>1. store'.log = Splice(store.log, unstable)
    BY <1>1, <1>2, <1>5 DEF StorageAppend, StateTypes, LogTypes, IsStorage
  <2>2. /\ store'.log.lo = store.log.lo /\ store'.log.hi = unstable.hi
        /\ \A i \in store.log.lo..unstable.hi :
              i < unstable.lo => store'.log.ent[i] = store.log.ent[i]
    BY <2>1 DEF Splice
  <2>3. Last' = Last /\ Last = unstable.hi
    BY <1>2, <1>5 DEF Last, LastIndex
  <2> QED
    BY <1>2, <1>3, <2>2, <2>3 DEF LogKept, LogEntry
<1> QED
  BY <1>4, <1>5

\* And commit_ready, which forgets the unstable entries.
LEMMA KeptByCommitReady ==
    ASSUME IInv, stage = "written", store' = store, unstable' = UnstableAfterCommitReady
    PROVE  LogKept
<1>1. PICK un : un = UnstableAfterCommitReady
  OBVIOUS
<1>2. un.lo = store.log.hi + 1 /\ LastIndex(store, un) = Last /\ Last = store.log.hi
  BY <1>1, CommitReady
<1>3. Last' = Last
  BY <1>1, <1>2 DEF Last
<1>4. store.log.lo \in Nat /\ store.log.hi \in Nat
  BY Numbers DEF IInv
<1>5. ASSUME NEW i \in store.log.lo..Last
      PROVE  LogEntry(store, un, i) = LogEntry(store, unstable, i)
  BY <1>2, <1>4, StoredEntry DEF LogEntry
<1> QED
  BY <1>1, <1>3, <1>4, <1>5 DEF LogKept

\* And compaction.
LEMMA KeptByCompact ==
    ASSUME IInv, Compact
    PROVE  LogKept
<1>1. PICK i \in (store.log.lo + 1)..applied : store' = StorageCompact(store, i)
  BY DEF Compact
<1>2. StateTypes /\ unstable' = unstable
  BY DEF IInv, Compact, logVars
<1>3. /\ store.log.lo \in Nat /\ store.log.hi \in Nat /\ applied \in Nat
      /\ unstable.lo \in Nat /\ unstable.hi \in Nat
  BY <1>2, Numbers
<1>4. store'.log = From(store.log, i)
  BY <1>1, <1>2, <1>3 DEF StorageCompact, StateTypes, LogTypes, IsStorage
<1>5. /\ store'.log.lo = i /\ store'.log.hi = store.log.hi
      /\ \A k \in i..store.log.hi : store'.log.ent[k] = store.log.ent[k]
  BY <1>4 DEF From
<1>6. Last' = Last
  BY <1>2, <1>5 DEF Last, LastIndex
<1>7. unstable.lo <= store.log.hi + 1
  BY ShapeHolds DEF LogShape
<1>8. ASSUME NEW k \in i..Last
      PROVE  LogEntry(store', unstable', k) = LogEntry(store, unstable, k)
  BY <1>1, <1>2, <1>3, <1>5, <1>7 DEF LogEntry
<1> QED
  BY <1>1, <1>3, <1>5, <1>6, <1>8 DEF LogKept

\* A call that appends an entry keeps the entries there are.
LEMMA AppendedByCall ==
    ASSUME IInv, NEW e \in Entry, stage = "idle", store' = store,
           unstable' = TruncateAndAppend(unstable, Single(Last + 1, e))
    PROVE  LogAppended(e)
<1>1. StateTypes /\ ReadyShape
  BY DEF IInv
<1>2. /\ unstable.lo \in Nat /\ unstable.hi \in Nat /\ unstable.lo <= unstable.hi + 1
      /\ store.log.lo \in Nat /\ store.log.hi \in Nat /\ Last \in Nat
  BY <1>1, Numbers
<1>3. unstable.lo = store.log.hi + 1 /\ IsSegment(unstable) /\ IsSegment(store.log)
  BY <1>1 DEF ReadyShape, StateTypes, LogTypes, IsStorage
<1>4. PICK one : one = Single(Last + 1, e)
  OBVIOUS
<1>5. one.lo = Last + 1 /\ one.hi = Last + 1 /\ one.ent[Last + 1] = e
  BY <1>2, <1>4 DEF Single
<1>6. CASE IsEmpty(unstable)
  <2>1. Last = store.log.hi /\ unstable' = one
    BY <1>2, <1>3, <1>4, <1>5, <1>6 DEF Last, LastIndex, TruncateAndAppend
  <2> QED
    BY <1>2, <1>3, <1>5, <2>1 DEF LogAppended, Last, LastIndex, IsEmpty, LogEntry
<1>7. CASE ~IsEmpty(unstable)
  <2>1. Last = unstable.hi /\ unstable' = Splice(unstable, one)
    BY <1>2, <1>4, <1>5, <1>7 DEF Last, LastIndex, TruncateAndAppend, IsEmpty
  <2>2. /\ unstable'.lo = unstable.lo /\ unstable'.hi = Last + 1
        /\ unstable'.ent[Last + 1] = e
        /\ \A i \in unstable.lo..Last : unstable'.ent[i] = unstable.ent[i]
    BY <1>2, <1>5, <1>7, <2>1 DEF Splice, IsEmpty
  <2> QED
    BY <1>2, <1>3, <1>7, <2>1, <2>2 DEF LogAppended, Last, LastIndex, IsEmpty, LogEntry
<1> QED
  BY <1>6, <1>7

-----------------------------------------------------------------------------
\* Configuration changes that are not applied

\* A step that keeps the log and moves applied on keeps what is known of them.
LEMMA ConfKept ==
    ASSUME IInv, IInv', ConfOK, LogKept, applied <= applied',
           state' = "Leader" => /\ state = "Leader"
                                /\ pending_conf_index' = pending_conf_index
    PROVE  ConfOK'
<1>1. /\ applied \in Nat /\ Last \in Nat /\ store.log.lo \in Nat
      /\ store.log.lo <= applied + 1
  BY Numbers, Order DEF IInv
<1>2. applied' \in Nat /\ store'.log.lo \in Nat /\ store'.log.lo <= applied' + 1
  BY DEF IInv, StateTypes, LogTypes, IsStorage, IsSegment, Watermarks
<1>3. \A i \in (applied' + 1)..Last' :
         /\ i \in (applied + 1)..Last
         /\ LogEntry(store', unstable', i) = LogEntry(store, unstable, i)
  BY <1>1, <1>2 DEF LogKept
<1> QED
  BY <1>3 DEF ConfOK, OneUnappliedConf

\* A proposal is only a configuration change when no other may be unapplied.
LEMMA ConfProposed ==
    ASSUME IInv, IInv', ConfOK, NEW p \in Proposals, Propose(p)
    PROVE  ConfOK'
<1>1. /\ applied \in Nat /\ Last \in Nat /\ store.log.lo \in Nat
      /\ store.log.lo <= applied + 1 /\ pending_conf_index \in Nat
  BY Numbers, Order DEF IInv, StateTypes, RaftTypes
<1>2. PICK e : e = ProposedEntry(p)
  OBVIOUS
<1>3. /\ e \in Entry /\ e.type \in {"normal", "conf"}
      /\ e.type = "conf" => pending_conf_index <= applied
  <2>1. p.type \in {"normal", "conf"} /\ p.size \in Nat /\ term \in Nat
    BY NodeAssumption DEF IInv, StateTypes, RaftTypes
  <2> QED
    BY <1>1, <1>2, <2>1 DEF ProposedEntry, Entry, HasPendingConf
<1>4. /\ state = "Leader" /\ state' = state /\ applied' = applied /\ store' = store
      /\ stage = "idle"
      /\ pending_conf_index' = IF e.type = "conf" THEN Last + 1 ELSE pending_conf_index
      /\ \/ unstable' = TruncateAndAppend(unstable, Single(Last + 1, e))
         \/ unstable' = unstable
  BY <1>2 DEF Propose
<1>5. /\ \A i, j \in (applied + 1)..Last :
            /\ LogEntry(store, unstable, i).type = "conf"
            /\ LogEntry(store, unstable, j).type = "conf"
            => i = j
      /\ \A i \in (applied + 1)..Last :
            LogEntry(store, unstable, i).type = "conf" => i <= pending_conf_index
  BY <1>4 DEF ConfOK, OneUnappliedConf
<1>6. CASE unstable' = TruncateAndAppend(unstable, Single(Last + 1, e))
  <2>1. LogAppended(e)
    BY <1>3, <1>4, <1>6, AppendedByCall
  <2>2. \A i \in (applied' + 1)..Last' :
           \/ i = Last + 1 /\ LogEntry(store', unstable', i) = e
           \/ /\ i \in (applied + 1)..Last
              /\ LogEntry(store', unstable', i) = LogEntry(store, unstable, i)
    BY <1>1, <1>4, <2>1 DEF LogAppended
  <2>3. \A i \in (applied' + 1)..Last' :
           LogEntry(store', unstable', i).type = "conf" => i <= pending_conf_index'
    BY <1>1, <1>4, <1>5, <2>2
  <2>4. CASE e.type = "conf"
    <3>1. \A i \in (applied + 1)..Last : LogEntry(store, unstable, i).type # "conf"
      BY <1>1, <1>3, <1>5, <2>4
    <3> QED
      BY <2>2, <2>3, <3>1 DEF ConfOK, OneUnappliedConf
  <2>5. CASE e.type # "conf"
    BY <1>5, <2>2, <2>3, <2>5 DEF ConfOK, OneUnappliedConf
  <2> QED
    BY <2>4, <2>5
<1>7. CASE unstable' = unstable
  <2>1. LogKept
    BY <1>4, <1>7, KeptBySame
  <2>2. \A i \in (applied' + 1)..Last' :
           /\ i \in (applied + 1)..Last
           /\ LogEntry(store', unstable', i) = LogEntry(store, unstable, i)
    BY <1>1, <1>4, <2>1 DEF LogKept
  <2> QED
    BY <1>1, <1>4, <1>5, <2>2 DEF ConfOK, OneUnappliedConf
<1> QED
  BY <1>4, <1>6, <1>7

\* A leader takes every entry of its predecessors for one that may be a
\* configuration change.
LEMMA ConfCampaign ==
    ASSUME IInv, IInv', ConfOK, Hup
    PROVE  ConfOK'
<1>1. /\ applied \in Nat /\ Last \in Nat /\ store.log.lo \in Nat
      /\ store.log.lo <= applied + 1 /\ term \in Nat
  BY Numbers, Order DEF IInv
<1>2. PICK e : e = [term |-> term + 1, type |-> "normal", size |-> 0]
  OBVIOUS
<1>3. e \in Entry /\ e.type = "normal"
  BY <1>1, <1>2 DEF Entry
<1>4. /\ applied' = applied /\ store' = store /\ stage = "idle"
      /\ pending_conf_index' = Last
      /\ unstable' = TruncateAndAppend(unstable, Single(Last + 1, e))
  BY <1>2 DEF Hup
<1>5. LogAppended(e)
  BY <1>3, <1>4, AppendedByCall
<1>6. \A i \in (applied' + 1)..Last' :
         \/ i = Last + 1 /\ LogEntry(store', unstable', i) = e
         \/ /\ i \in (applied + 1)..Last
            /\ LogEntry(store', unstable', i) = LogEntry(store, unstable, i)
  BY <1>1, <1>4, <1>5 DEF LogAppended
<1>7. \A i \in (applied' + 1)..Last' :
         LogEntry(store', unstable', i).type = "conf" => i <= pending_conf_index'
  BY <1>1, <1>3, <1>4, <1>6
<1> QED
  BY <1>3, <1>6, <1>7 DEF ConfOK, OneUnappliedConf

\* boot_strap gives an empty log its one configuration change.
LEMMA ConfBootstrapped ==
    ASSUME IInv, IInv', ConfOK, BootStrap
    PROVE  ConfOK'
<1>1. /\ applied \in Nat /\ Last = 0 /\ state = "Follower"
  <2>1. IsEmpty(unstable) /\ state = "Follower" /\ store.log.hi = 0
    BY DEF IInv, FollowerLog, BootStrap
  <2> QED
    BY <2>1, Numbers DEF IInv, Last, LastIndex
<1>2. PICK e : e = [term |-> 1, type |-> "conf", size |-> 1]
  OBVIOUS
<1>3. e \in Entry
  BY <1>2 DEF Entry
<1>4. LogAppended(e)
  BY <1>1, <1>2, <1>3, AppendedByCall DEF BootStrap
<1>5. Last' = 1 /\ applied' = applied /\ state' = "Follower"
  BY <1>1, <1>4 DEF LogAppended, BootStrap
<1> QED
  BY <1>1, <1>5 DEF ConfOK, OneUnappliedConf

\* After a crash the log is shorter, and all that was taken is applied.
LEMMA ConfRestarted ==
    ASSUME IInv, IInv', ConfOK, CrashRestart
    PROVE  ConfOK'
<1>1. /\ applied \in Nat /\ Last \in Nat /\ store.log.lo \in Nat /\ store.log.hi \in Nat
      /\ disk.log.lo \in Nat /\ disk.log.hi \in Nat /\ Len(sm) \in Nat
      /\ store.log.lo <= applied + 1 /\ applied <= Len(sm)
      /\ disk.log.lo <= store.log.lo /\ disk.log.hi <= store.log.hi
      /\ store.log.hi <= Last
  BY Numbers, Order DEF IInv
<1>2. /\ store' = disk /\ unstable' = EmptyAt(disk.log.hi + 1) /\ state' = "Follower"
      /\ applied' = AppliedTo(disk.log.lo - 1, Len(sm))
  BY DEF CrashRestart
<1>3. applied' \in Nat /\ applied <= applied'
  <2>1. applied' \in Nat
    BY DEF IInv, StateTypes, LogTypes
  <2> QED
    BY <1>1, <1>2, <2>1 DEF AppliedTo
<1>4. unstable'.lo = disk.log.hi + 1 /\ Last' = disk.log.hi
  BY <1>1, <1>2 DEF EmptyAt, Last, LastIndex, IsEmpty
<1>5. \A i \in (applied' + 1)..Last' :
         /\ i \in (applied + 1)..Last
         /\ LogEntry(store', unstable', i) = LogEntry(store, unstable, i)
  <2> TAKE i \in (applied' + 1)..Last'
  <2>1. i \in store.log.lo..disk.log.hi /\ i \in store.log.lo..store.log.hi
        /\ i \in (applied + 1)..Last
    <3>1. i \in Nat /\ applied' + 1 <= i /\ i <= disk.log.hi
      BY <1>1, <1>3, <1>4
    <3>2. applied + 1 <= i /\ store.log.lo <= i
      BY <1>1, <1>3, <3>1
    <3>3. i <= store.log.hi /\ i <= Last
      BY <1>1, <3>1
    <3> QED
      BY <1>1, <3>1, <3>2, <3>3
  <2>2. LogEntry(store', unstable', i) = disk.log.ent[i]
    BY <1>1, <1>2, <1>4, <2>1 DEF LogEntry
  <2>3. disk.log.ent[i] = store.log.ent[i]
    BY <2>1 DEF IInv, DiskBehind
  <2> QED
    BY <2>1, <2>2, <2>3, StoredEntry
<1> QED
  BY <1>2, <1>5 DEF ConfOK, OneUnappliedConf

-----------------------------------------------------------------------------
\* The terms of what is committed

\* CommitTermOK in the next state.
TermOKAfter(hs) ==
    hs.commit \in store'.log.lo..Last' => LogEntry(store', unstable', hs.commit).term <= hs.term

\* What is committed stays what it is.
LEMMA TermKept ==
    ASSUME IInv, IInv', NEW hs \in HardStates, hs.commit <= Last, CommitTermOK(hs),
           NEW e, LogKept \/ LogAppended(e)
    PROVE  TermOKAfter(hs)
<1>1. /\ hs.commit \in Nat /\ Last \in Nat /\ store.log.lo \in Nat
      /\ store'.log.lo \in Nat
  BY ShapeAfter, Numbers DEF IInv, HardStates, LogShape, IsStorage, IsSegment
<1>2. CASE LogKept
  BY <1>1, <1>2 DEF LogKept, TermOKAfter, CommitTermOK
<1>3. CASE LogAppended(e)
  BY <1>1, <1>3 DEF LogAppended, TermOKAfter, CommitTermOK
<1> QED
  BY <1>2, <1>3

\* A step that keeps or appends to the log, syncs or writes what is to be written,
\* and moves the HardState on by what is of its term.
LEMMA CommitTermsKept ==
    ASSUME IInv, IInv', CommitTermsOK, NEW e, LogKept \/ LogAppended(e),
           disk' = disk \/ disk' = store,
           store'.hs = store.hs \/ store'.hs = WrittenHs,
           WrittenHs' = WrittenHs \/ WrittenHs' = HardState \/ WrittenHs' = HardState',
           HardState' = HardState \/ TermOKAfter(HardState')
    PROVE  CommitTermsOK'
<1>1. /\ store.hs \in HardStates /\ WrittenHs \in HardStates /\ HardState \in HardStates
  BY WrittenHsType, HardStateType DEF IInv
<1>2. store.hs.commit <= Last /\ WrittenHs.commit <= Last /\ HardState.commit <= Last
  <2>1. HardState.commit = committed
    BY DEF HardState
  <2>2. store.hs.commit <= store.log.hi /\ store.log.hi <= Last /\ committed <= Last
    BY Order DEF IInv, HardStatesOK
  <2>3. store.hs.commit \in Nat /\ store.log.hi \in Nat /\ Last \in Nat
    BY <1>1, Numbers DEF IInv, HardStates
  <2> QED
    BY <2>1, <2>2, <2>3, WrittenCommit DEF IInv
<1>3. /\ TermOKAfter(store.hs) /\ TermOKAfter(WrittenHs) /\ TermOKAfter(HardState)
  BY <1>1, <1>2, TermKept DEF CommitTermsOK
<1>4. /\ TermOKAfter(HardState') /\ TermOKAfter(WrittenHs') /\ TermOKAfter(store'.hs)
  BY <1>3
<1>5. Has(disk'.log, disk'.hs.commit) => disk'.log.ent[disk'.hs.commit].term <= disk'.hs.term
  <2>1. CASE disk' = disk
    BY <2>1 DEF CommitTermsOK
  <2>2. CASE disk' = store
    <3>1. SUFFICES ASSUME Has(store.log, store.hs.commit)
          PROVE  store.log.ent[store.hs.commit].term <= store.hs.term
      BY <2>2
    <3>2. /\ store.hs.commit \in Nat /\ store.log.lo \in Nat /\ store.log.hi \in Nat
          /\ Last \in Nat /\ store.log.hi <= Last
      BY <1>1, Numbers, Order DEF IInv, HardStates
    <3>3. store.hs.commit \in store.log.lo..store.log.hi /\ store.hs.commit \in store.log.lo..Last
      BY <3>1, <3>2 DEF Has
    <3> QED
      BY <3>3, StoredEntry DEF CommitTermsOK, CommitTermOK
  <2> QED
    BY <2>1, <2>2
<1> QED
  BY <1>4, <1>5 DEF CommitTermsOK, CommitTermOK, TermOKAfter

\* A step that commits nothing and keeps the term or goes to a later one.
LEMMA TermMovesOn ==
    ASSUME IInv, IInv', CommitTermsOK, NEW e, LogKept \/ LogAppended(e),
           committed' = committed, term <= term'
    PROVE  TermOKAfter(HardState')
<1>1. /\ HardState \in HardStates /\ HardState.commit = committed /\ HardState.term = term
      /\ committed <= Last
  BY HardStateType, Order DEF IInv, HardState
<1>2. TermOKAfter(HardState)
  BY <1>1, TermKept DEF CommitTermsOK
<1>3. HardState'.commit = committed' /\ HardState'.term = term'
  BY DEF HardState
<1>4. SUFFICES ASSUME committed \in store'.log.lo..Last'
      PROVE  LogEntry(store', unstable', committed).term <= term'
  BY <1>3 DEF TermOKAfter
<1>5. LogEntry(store', unstable', committed) \in Entry
  BY <1>4, ShapeAfter, EntryType DEF Last
<1>6. LogEntry(store', unstable', committed).term \in Nat /\ term \in Nat /\ term' \in Nat
  BY <1>5, Numbers DEF IInv, StateTypes, RaftTypes, Entry
<1>7. LogEntry(store', unstable', committed).term <= term
  BY <1>1, <1>2, <1>4 DEF TermOKAfter
<1> QED
  BY <1>6, <1>7

\* A step in which a leader commits an entry of its term.
LEMMA TermCommits ==
    ASSUME IInv, IInv', committed' <= Last, LogKept, NEW un, LastIndex(store, un) = Last,
           \A i \in store.log.lo..Last : LogEntry(store, un, i) = LogEntry(store, unstable, i),
           LogShape(store, un), LogTerm(store, un, committed') = term, term' = term
    PROVE  TermOKAfter(HardState')
<1>1. HardState'.commit = committed' /\ HardState'.term = term'
  BY DEF HardState
<1>2. SUFFICES ASSUME committed' \in store'.log.lo..Last'
      PROVE  LogEntry(store', unstable', committed').term <= term
  BY <1>1 DEF TermOKAfter
<1>3. /\ committed' \in Nat /\ store.log.lo \in Nat /\ store'.log.lo \in Nat
      /\ Last \in Nat /\ term \in Nat
  BY ShapeAfter, Numbers DEF IInv, StateTypes, LogTypes, LogShape, IsStorage, IsSegment
<1>4. committed' \in store.log.lo..Last /\ committed' \in store'.log.lo..Last
  BY <1>2, <1>3 DEF LogKept
<1>5. LogEntry(store', unstable', committed') = LogEntry(store, un, committed')
  BY <1>4 DEF LogKept
<1>6. LogTerm(store, un, committed') = LogEntry(store, un, committed').term
  BY <1>3, <1>4, TermOfEntry
<1> QED
  BY <1>3, <1>5, <1>6

-----------------------------------------------------------------------------
\* Reads

\* What a leader has committed is not of its term unless it was before.
LEMMA CommitTermStays ==
    ASSUME IInv, IInv', NEW e, LogKept \/ LogAppended(e), committed' = committed,
           term' = term, term # 0, CommitToCurrentTerm'
    PROVE  CommitToCurrentTerm
<1>1. /\ committed \in Nat /\ Last \in Nat /\ committed <= Last /\ store.log.lo \in Nat
      /\ store'.log.lo \in Nat /\ term \in Nat
  BY ShapeAfter, Numbers, Order DEF IInv, LogShape, IsStorage, IsSegment
<1>2. LogShape(store, unstable) /\ LogShape(store', unstable')
  BY ShapeHolds, ShapeAfter
<1>3. committed <= Last' /\ store.log.lo <= store'.log.lo
  BY <1>1 DEF LogKept, LogAppended
<1>4. LogTerm(store', unstable', committed) = term
  BY DEF CommitToCurrentTerm
<1>5. committed >= store'.log.lo
        /\ LogTerm(store', unstable', committed) = LogEntry(store', unstable', committed).term
  <2>1. committed <= LastIndex(store', unstable')
    BY <1>3 DEF Last
  <2> QED
    BY <1>1, <1>2, <1>4, <2>1, TermOfEntry DEF NoTerm
<1>6. LogTerm(store, unstable, committed) = LogEntry(store, unstable, committed).term
  <2>1. committed <= LastIndex(store, unstable) /\ committed >= store.log.lo
    BY <1>1, <1>3, <1>5 DEF Last
  <2> QED
    BY <1>1, <1>2, <2>1, TermOfEntry
<1>7. LogEntry(store', unstable', committed) = LogEntry(store, unstable, committed)
  BY <1>1, <1>3, <1>5 DEF LogKept, LogAppended
<1> QED
  BY <1>4, <1>5, <1>6, <1>7 DEF CommitToCurrentTerm

\* Reads already given stay behind what a leader knows, whatever it commits, persists
\* and appends.
LEMMA ReadKept ==
    ASSUME IInv, IInv', ReadOK, NEW e, LogKept \/ LogAppended(e),
           disk.log.hi <= disk'.log.hi, read_index' = read_index,
           state' = "Leader" =>
              /\ state = "Leader" /\ term' = term /\ matched <= matched'
              /\ committed' = committed \/ committed' = matched'
    PROVE  ReadOK'
<1>1. /\ read_index \in Nat /\ disk.log.hi \in Nat /\ disk'.log.hi \in Nat
      /\ matched \in Nat /\ matched' \in Nat /\ committed \in Nat
  BY DEF IInv, StateTypes, LogTypes, RaftTypes, AppTypes, IsStorage, IsSegment
<1>2. read_index' <= disk'.log.hi
  BY <1>1 DEF ReadOK
<1>3. ASSUME state' = "Leader"
      PROVE  /\ read_index' <= matched' /\ committed' <= matched'
             /\ read_index' <= committed' \/ ~CommitToCurrentTerm'
  <2>1. /\ state = "Leader" /\ term' = term /\ matched <= matched'
        /\ committed' = committed \/ committed' = matched'
        /\ read_index <= matched /\ committed <= matched
        /\ read_index <= committed \/ ~CommitToCurrentTerm
    BY <1>3 DEF ReadOK
  <2>2. term # 0
    BY <2>1 DEF IInv, FollowerLog
  <2>3. read_index <= matched' /\ committed <= matched'
    BY <1>1, <2>1
  <2>4. CASE committed' = committed
    BY <2>1, <2>2, <2>3, <2>4, CommitTermStays
  <2>5. CASE committed' = matched'
    BY <1>1, <2>3, <2>5
  <2> QED
    BY <2>1, <2>4, <2>5
<1> QED
  BY <1>2, <1>3 DEF ReadOK

\* A new leader has persisted all that was read, and committed nothing in its term.
LEMMA ReadCampaign ==
    ASSUME IInv, IInv', CommitTermsOK, ReadOK, Hup
    PROVE  ReadOK'
<1>1. /\ read_index \in Nat /\ disk.log.hi \in Nat /\ persisted \in Nat
      /\ committed \in Nat /\ store.log.hi \in Nat /\ Last \in Nat /\ term \in Nat
      /\ store.log.lo \in Nat
  BY Numbers DEF IInv, StateTypes, AppTypes
<1>2. /\ disk' = disk /\ read_index' = read_index /\ committed' = committed
      /\ term' = term + 1 /\ matched' = persisted /\ Last = persisted
      /\ stage = "idle" /\ store' = store
  BY CampaignPersisted DEF Hup
<1>3. /\ committed <= Last /\ disk.log.hi <= store.log.hi /\ store.log.hi <= Last
      /\ read_index <= disk.log.hi
  BY Order DEF ReadOK
<1>4. read_index' <= disk'.log.hi /\ read_index' <= matched' /\ committed' <= matched'
  BY <1>1, <1>2, <1>3
<1>5. ~CommitToCurrentTerm'
  <2>1. PICK e : e = [term |-> term + 1, type |-> "normal", size |-> 0]
    OBVIOUS
  <2>2. e \in Entry
    BY <1>1, <2>1 DEF Entry
  <2>3. LogAppended(e)
    BY <1>2, <2>1, <2>2, AppendedByCall DEF Hup
  <2>4. committed <= LastIndex(store', unstable') /\ LogShape(store', unstable')
    BY <1>1, <1>3, <2>3, ShapeAfter DEF LogAppended, Last
  <2>5. CASE committed < store.log.lo
    <3>1. LogTerm(store', unstable', committed) \in {0, NoTerm}
      BY <1>1, <1>2, <2>4, <2>5, TermOfEntry
    <3> QED
      BY <1>1, <1>2, <3>1 DEF CommitToCurrentTerm, NoTerm
  <2>6. CASE committed >= store.log.lo
    <3>1. LogTerm(store', unstable', committed) = LogEntry(store', unstable', committed).term
      BY <1>1, <1>2, <2>4, <2>6, TermOfEntry
    <3>2. LogEntry(store', unstable', committed) = LogEntry(store, unstable, committed)
      BY <1>1, <1>3, <2>3, <2>6 DEF LogAppended
    <3>3. LogEntry(store, unstable, committed).term <= term
      BY <1>1, <1>3, <2>6 DEF CommitTermsOK, CommitTermOK, HardState
    <3>4. LogEntry(store, unstable, committed).term \in Nat
      <4>1. committed \in store.log.lo..LastIndex(store, unstable)
        BY <1>1, <1>3, <2>6 DEF Last
      <4> QED
        BY <4>1, ShapeHolds, EntryType DEF Entry
    <3> QED
      BY <1>1, <1>2, <3>1, <3>2, <3>3, <3>4 DEF CommitToCurrentTerm
  <2> QED
    BY <1>1, <2>5, <2>6
<1> QED
  BY <1>4, <1>5 DEF ReadOK

\* A read is at the commit index, which is on disk.
LEMMA ReadGiven ==
    ASSUME IInv, IInv', ReadOK, ReadIndex
    PROVE  ReadOK' /\ read_index <= committed /\ committed <= disk.log.hi
<1>1. /\ disk.log.hi \in Nat /\ persisted \in Nat /\ committed \in Nat /\ matched \in Nat
  BY Numbers DEF IInv
<1>2. /\ committed <= matched /\ matched <= persisted /\ persisted <= disk.log.hi
      /\ read_index <= committed
  BY Order DEF ReadOK, ReadIndex
<1>3. /\ disk' = disk /\ read_index' = committed /\ committed' = committed
      /\ matched' = matched
  BY DEF ReadIndex, logVars
<1>4. committed <= disk.log.hi /\ committed <= committed
  BY <1>1, <1>2
<1> QED
  BY <1>2, <1>3, <1>4 DEF ReadOK

-----------------------------------------------------------------------------
\* Every step

\* A step that neither appends nor restarts: what it does to the log, the HardStates
\* and the indexes.
Ordinary ==
    /\ LogKept
    /\ applied <= applied'
    /\ UNCHANGED <<state, term, vote, pending_conf_index>>
    /\ disk' = disk \/ disk' = store
    /\ store'.hs = store.hs \/ store'.hs = WrittenHs
    /\ WrittenHs' = WrittenHs \/ WrittenHs' = HardState \/ WrittenHs' = HardState'
    /\ matched <= matched'
    /\ committed' = committed \/ (committed' = matched' /\ TermOKAfter(HardState'))

\* Such a step keeps LogInv, when it gives no read.
LEMMA OrdinaryKeeps ==
    ASSUME IInv, IInv', LogInv, Ordinary
    PROVE  /\ ConfOK' /\ CommitTermsOK'
           /\ read_index' = read_index => ReadOK'
<1>1. ConfOK'
  BY ConfKept DEF Ordinary, LogInv
<1>2. CommitTermsOK'
  <2>1. HardState' = HardState \/ TermOKAfter(HardState')
    BY DEF Ordinary, HardState
  <2> QED
    BY <2>1, CommitTermsKept DEF Ordinary, LogInv
<1>3. disk.log.hi <= disk'.log.hi
  <2>1. disk.log.hi \in Nat /\ disk.log.hi <= store.log.hi
    BY Numbers, Order DEF IInv
  <2> QED
    BY <2>1 DEF Ordinary
<1>4. read_index' = read_index => ReadOK'
  BY <1>3, ReadKept DEF Ordinary, LogInv
<1> QED
  BY <1>1, <1>2, <1>4

\* A leader commits what it has persisted in its term.
LEMMA LeaderCommitTerm ==
    ASSUME NEW un, NEW m
    PROVE  \/ LeaderCommit(un, m) = committed
           \/ LeaderCommit(un, m) = m /\ LogTerm(store, un, m) = term
BY DEF LeaderCommit, MaybeCommit

\* With the log as it is, the term of what it commits is its own.
LEMMA CommitsOwnTerm ==
    ASSUME IInv, IInv', LogKept, term' = term, vote' = vote,
           NEW un, un = unstable \/ (un = unstable' /\ store' = store),
           committed' = committed
             \/ (committed' = matched' /\ LogTerm(store, un, matched') = term)
    PROVE  committed' = committed \/ (committed' = matched' /\ TermOKAfter(HardState'))
<1>1. SUFFICES ASSUME committed' = matched', LogTerm(store, un, matched') = term
      PROVE  TermOKAfter(HardState')
  OBVIOUS
<1>2. committed' <= Last
  BY DEF IInv, Watermarks, LogKept
<1>3. /\ LastIndex(store, un) = Last /\ LogShape(store, un)
      /\ \A i \in store.log.lo..Last : LogEntry(store, un, i) = LogEntry(store, unstable, i)
  <2>1. CASE un = unstable
    BY <2>1, ShapeHolds DEF Last
  <2>2. CASE un = unstable' /\ store' = store
    BY <2>2, ShapeAfter DEF LogKept, Last
  <2> QED
    BY <2>1, <2>2
<1> QED
  BY <1>1, <1>2, <1>3, TermCommits

\* on_persist_entries lets a leader's matched index grow and commits up to it.
LEMMA MatchedGrows ==
    ASSUME IInv, NEW n \in Nat, n <= durable_number, NEW un
    PROVE  /\ matched <= MatchedAfter(n, un)
           /\ \/ CommittedAfter(n, un) = committed
              \/ /\ CommittedAfter(n, un) = MatchedAfter(n, un)
                 /\ LogTerm(store, un, MatchedAfter(n, un)) = term
<1>1. matched \in Nat /\ MatchedAfter(n, un) \in Nat
  BY CommitBounds, Numbers DEF IInv
<1>2. matched <= MatchedAfter(n, un)
  <2>1. PICK p : p = PersistedAfter(n, un)
    OBVIOUS
  <2>2. (MatchedAfter(n, un) = p /\ p > matched) \/ MatchedAfter(n, un) = matched
    BY <2>1 DEF MatchedAfter
  <2> QED
    BY <1>1, <2>2
<1>3. PICK m : m = MatchedAfter(n, un)
  OBVIOUS
<1>4. CommittedAfter(n, un) = IF m > matched THEN LeaderCommit(un, m) ELSE committed
  BY <1>3 DEF CommittedAfter
<1> QED
  BY <1>2, <1>3, <1>4, LeaderCommitTerm

\* The steps that leave log, HardStates and commit index alone.
QuietStep ==
    /\ store' = store /\ unstable' = unstable /\ committed' = committed
    /\ matched' = matched
    /\ UNCHANGED <<state, term, vote, pending_conf_index>>
    /\ disk' = disk \/ disk' = store
    /\ applied' = applied \/ applied' = Len(sm)
    /\ WrittenHs' = WrittenHs \/ WrittenHs' = HardState

\* They are ordinary.
LEMMA QuietIsOrdinary ==
    ASSUME IInv, QuietStep
    PROVE  Ordinary
<1>1. LogKept
  BY KeptBySame DEF QuietStep
<1>2. applied \in Nat /\ matched \in Nat /\ Len(sm) \in Nat /\ applied <= Len(sm)
  BY Numbers, Order DEF IInv
<1>3. applied <= applied' /\ matched <= matched'
  BY <1>2 DEF QuietStep
<1> QED
  BY <1>1, <1>3 DEF Ordinary, QuietStep

\* A Ready has the HardState of the node, or none.
LEMMA GetReadyQuiet ==
    ASSUME IInv, GetReady
    PROVE  QuietStep /\ read_index' = read_index
<1>1. /\ store' = store /\ disk' = disk /\ unstable' = unstable /\ committed' = committed
      /\ matched' = matched /\ applied' = applied /\ read_index' = read_index
      /\ UNCHANGED <<state, term, vote, pending_conf_index>>
      /\ stage = "idle" /\ stage' = "ready"
  BY DEF GetReady, logVars
<1>2. rd'.hs = HardState \/ rd'.hs = NoHs
  BY DEF GetReady
<1>3. WrittenHs = store.hs
  BY <1>1 DEF WrittenHs
<1>4. WrittenHs' = IF rd'.hs # NoHs THEN rd'.hs ELSE store'.hs
  BY <1>1 DEF WrittenHs
<1>5. WrittenHs' = WrittenHs \/ WrittenHs' = HardState
  BY <1>1, <1>2, <1>3, <1>4
<1> QED
  BY <1>1, <1>5 DEF QuietStep

\* fsync takes storage to disk.
LEMMA SyncQuiet ==
    ASSUME IInv, Sync
    PROVE  QuietStep
<1>1. WrittenHs' = WrittenHs
  BY DEF Sync, WrittenHs
<1> QED
  BY <1>1 DEF Sync, QuietStep, logVars, raftVars

\* A call of advance_apply moves applied on.
LEMMA AdvanceApplyQuiet ==
    ASSUME IInv, AdvanceApply
    PROVE  QuietStep
<1>1. WrittenHs' = WrittenHs
  BY DEF AdvanceApply, WrittenHs, appVars
<1> QED
  BY <1>1 DEF AdvanceApply, QuietStep, raftVars

\* A read leaves everything but the reads alone.
LEMMA ReadIndexQuiet ==
    ASSUME IInv, ReadIndex
    PROVE  QuietStep
<1>1. WrittenHs' = WrittenHs
  BY DEF ReadIndex, WrittenHs, appVars
<1> QED
  BY <1>1 DEF ReadIndex, QuietStep, logVars

\* The writes of the application.
LEMMA WriteSteps ==
    ASSUME SaveLightCommit, IInv, WriteEntries \/ WriteHardState \/ WriteCommit \/ Compact
    PROVE  Ordinary
<1>0. store = [log |-> store.log, hs |-> store.hs]
  BY DEF IInv, StateTypes, LogTypes, IsStorage
<1>1. /\ unstable' = unstable /\ committed' = committed /\ matched' = matched
      /\ applied' = applied /\ disk' = disk
      /\ UNCHANGED <<state, term, vote, pending_conf_index>>
  BY DEF WriteEntries, WriteHardState, WriteCommit, Compact, logVars, raftVars
<1>2. applied \in Nat /\ matched \in Nat
  BY Numbers DEF IInv
<1>3. CASE WriteEntries
  <2>1. LogKept
    BY <1>3, KeptByWriteEntries
  <2>2. store'.hs = store.hs /\ WrittenHs' = WrittenHs
    BY <1>0, <1>3 DEF WriteEntries, StorageAppend, WrittenHs
  <2> QED
    BY <1>1, <1>2, <2>1, <2>2 DEF Ordinary
<1>4. CASE WriteHardState
  <2>1. store'.log = store.log /\ store'.hs = WrittenHs /\ stage' = "written"
    BY <1>0, <1>4 DEF WriteHardState, WrittenHs, SetHardState
  <2>2. LogKept /\ WrittenHs' = WrittenHs
    BY <1>1, <2>1, KeptBySame DEF WrittenHs
  <2> QED
    BY <1>1, <1>2, <2>1, <2>2 DEF Ordinary
<1>5. CASE WriteCommit
  <2>1. store'.log = store.log /\ store'.hs = WrittenHs /\ stage' = "idle"
    BY <1>0, <1>5 DEF WriteCommit, WrittenHs, SetCommit
  <2>2. LogKept /\ WrittenHs' = WrittenHs
    BY <1>1, <2>1, KeptBySame DEF WrittenHs
  <2> QED
    BY <1>1, <1>2, <2>1, <2>2 DEF Ordinary
<1>6. CASE Compact
  <2>1. LogKept
    BY <1>6, KeptByCompact
  <2>2. store'.hs = store.hs /\ WrittenHs' = WrittenHs
    BY <1>0, <1>6 DEF Compact, StorageCompact, WrittenHs, appVars
  <2> QED
    BY <1>1, <1>2, <2>1, <2>2 DEF Ordinary
<1> QED
  BY <1>3, <1>4, <1>5, <1>6

\* The steps in which a leader may commit.
LEMMA CommitSteps ==
    ASSUME SaveLightCommit, IInv, IInv',
           ApplyEntry \/ \E n \in 1..MaxReady : OnPersistReady(n)
    PROVE  Ordinary
<1>1. /\ store' = store /\ disk' = disk /\ unstable' = unstable /\ applied' = applied
      /\ UNCHANGED <<state, term, vote, pending_conf_index, stage, rd, light>>
  BY DEF ApplyEntry, OnPersistReady, raftVars, appVars
<1>2. LogKept
  BY <1>1, KeptBySame
<1>3. applied \in Nat /\ matched \in Nat
  BY Numbers DEF IInv
<1>4. WrittenHs' = WrittenHs
  BY <1>1 DEF WrittenHs
<1>5. /\ matched <= matched'
      /\ committed' = committed
           \/ (committed' = matched' /\ LogTerm(store, unstable, matched') = term)
  <2>1. CASE ApplyEntry
    BY <1>3, <2>1, LeaderCommitTerm DEF ApplyEntry, raftVars
  <2>2. ASSUME NEW n \in 1..MaxReady, OnPersistReady(n)
        PROVE  /\ matched <= matched'
               /\ committed' = committed
                    \/ (committed' = matched' /\ LogTerm(store, unstable, matched') = term)
    <3>1. n \in Nat /\ n <= durable_number
      BY <2>2 DEF OnPersistReady
    <3>2. matched' = MatchedAfter(n, unstable) /\ committed' = CommittedAfter(n, unstable)
      BY <2>2 DEF OnPersistReady
    <3> QED
      BY <3>1, <3>2, MatchedGrows
  <2> QED
    BY <2>1, <2>2
<1>6. committed' = committed \/ (committed' = matched' /\ TermOKAfter(HardState'))
  BY <1>1, <1>2, <1>5, CommitsOwnTerm
<1> QED
  BY <1>1, <1>2, <1>3, <1>4, <1>5, <1>6 DEF Ordinary

\* advance_append_async forgets the unstable entries and remembers the HardState.
LEMMA AsyncStep ==
    ASSUME SaveLightCommit, IInv, IInv', AdvanceAppendAsync
    PROVE  Ordinary
<1>1. /\ store' = store /\ disk' = disk /\ unstable' = UnstableAfterCommitReady
      /\ applied' = applied /\ committed' = committed /\ matched' = matched
      /\ UNCHANGED <<state, term, vote, pending_conf_index>>
      /\ stage = "written" /\ stage' = "idle"
  BY DEF AdvanceAppendAsync, raftVars
<1>2. LogKept
  BY <1>1, KeptByCommitReady
<1>3. applied \in Nat /\ matched \in Nat
  BY Numbers DEF IInv
<1>4. WrittenHs' = WrittenHs
  BY <1>1 DEF WrittenHs
<1> QED
  BY <1>1, <1>2, <1>3, <1>4 DEF Ordinary

\* advance_append commits, and the LightReady has the commit index that is to be saved.
LEMMA AppendStep ==
    ASSUME SaveLightCommit, IInv, IInv', NEW apply \in BOOLEAN, AdvanceAppend(apply)
    PROVE  Ordinary
<1>1. /\ store' = store /\ disk' = disk /\ unstable' = UnstableAfterCommitReady
      /\ UNCHANGED <<state, term, vote, pending_conf_index>>
      /\ stage = "written" /\ stage' = "light" /\ durable_number = max_number
  BY DEF AdvanceAppend
<1>2. LogKept
  BY <1>1, KeptByCommitReady
<1>3. /\ applied \in Nat /\ matched \in Nat /\ commit_since_index \in Nat
      /\ max_number \in Nat /\ committed \in Nat /\ Len(sm) \in Nat /\ Len(inbox) \in Nat
  BY Numbers DEF IInv
<1>4. applied <= applied'
  <2>1. applied <= commit_since_index
    BY <1>3, Order
  <2>2. applied' = applied \/ applied' = commit_since_index
    BY DEF AdvanceAppend, AppliedTo
  <2> QED
    BY <1>3, <2>1, <2>2
<1>5. PICK un : un = UnstableAfterCommitReady
  OBVIOUS
<1>6. /\ matched' = MatchedAfter(max_number, un) /\ committed' = CommittedAfter(max_number, un)
  BY <1>5 DEF AdvanceAppend
<1>7. /\ matched <= matched'
      /\ committed' = committed
           \/ (committed' = matched' /\ LogTerm(store, un, matched') = term)
  BY <1>1, <1>3, <1>6, MatchedGrows
<1>8. committed' = committed \/ (committed' = matched' /\ TermOKAfter(HardState'))
  BY <1>1, <1>2, <1>5, <1>7, CommitsOwnTerm
<1>9. WrittenHs' = WrittenHs \/ WrittenHs' = HardState'
  <2>1. /\ PrevHsAfterCommitReady = store.hs /\ store.hs \in HardStates
        /\ store.hs.term = term /\ store.hs.vote = vote /\ WrittenHs = store.hs
    BY <1>1, CommitReadyHs
  <2>2. light' = IF committed' > store.hs.commit THEN committed' ELSE 0
    BY <1>5, <1>6, <2>1 DEF AdvanceAppend
  <2>3. WrittenHs' = IF light' # 0 THEN [store.hs EXCEPT !.commit = light'] ELSE store.hs
    BY <1>1 DEF WrittenHs
  <2>4. HardState' = [term |-> term, vote |-> vote, commit |-> committed']
    BY <1>1 DEF HardState
  <2>5. CASE light' = 0
    BY <2>1, <2>3, <2>5
  <2>6. CASE light' # 0
    <3>1. light' = committed'
      BY <2>2, <2>6
    <3>2. store.hs = [term |-> term, vote |-> vote, commit |-> store.hs.commit]
      BY <2>1 DEF HardStates
    <3> QED
      BY <2>3, <2>4, <2>6, <3>1, <3>2
  <2> QED
    BY <2>5, <2>6
<1> QED
  BY <1>1, <1>2, <1>4, <1>7, <1>8, <1>9 DEF Ordinary

-----------------------------------------------------------------------------
\* Appending, and starting again

\* A proposal appends its entry or is refused.
LEMMA ProposeKeepsLog ==
    ASSUME IInv, IInv', LogInv, NEW p \in Proposals, Propose(p)
    PROVE  LogInv'
<1>1. ConfOK'
  BY ConfProposed DEF LogInv
<1>2. PICK e : e = ProposedEntry(p)
  OBVIOUS
<1>3. /\ store' = store /\ disk' = disk /\ stage = "idle" /\ committed' = committed
      /\ UNCHANGED <<state, term, vote, matched, stage, rd, light, read_index>>
      /\ \/ unstable' = TruncateAndAppend(unstable, Single(Last + 1, e))
         \/ unstable' = unstable
  BY <1>2 DEF Propose, appVars
<1>4. e \in Entry
  <2>1. p.type \in {"normal", "conf"} /\ p.size \in Nat /\ term \in Nat
    BY NodeAssumption DEF IInv, StateTypes, RaftTypes
  <2> QED
    BY <1>2, <2>1 DEF ProposedEntry, Entry
<1>5. LogKept \/ LogAppended(e)
  BY <1>3, <1>4, KeptBySame, AppendedByCall
<1>6. HardState' = HardState /\ WrittenHs' = WrittenHs
  BY <1>3 DEF HardState, WrittenHs
<1>7. CommitTermsOK'
  BY <1>3, <1>5, <1>6, CommitTermsKept DEF LogInv
<1>8. disk.log.hi <= disk'.log.hi /\ matched <= matched'
  <2>1. disk.log.hi \in Nat /\ matched \in Nat
    BY Numbers DEF IInv
  <2>2. disk' = disk /\ matched' = matched
    BY <1>3
  <2> QED
    BY <2>1, <2>2
<1>9. /\ state' = state /\ term' = term /\ committed' = committed
      /\ read_index' = read_index /\ ReadOK
  BY <1>3 DEF LogInv
<1>10. ReadOK'
  BY <1>5, <1>8, <1>9, ReadKept
<1> QED
  BY <1>1, <1>7, <1>10 DEF LogInv

\* A campaign appends the empty entry of the new term.
LEMMA HupKeepsLog ==
    ASSUME IInv, IInv', LogInv, Hup
    PROVE  LogInv'
<1>1. ConfOK' /\ ReadOK'
  BY ConfCampaign, ReadCampaign DEF LogInv
<1>2. term \in Nat
  BY Numbers DEF IInv
<1>3. PICK e : e = [term |-> term + 1, type |-> "normal", size |-> 0]
  OBVIOUS
<1>4. /\ store' = store /\ disk' = disk /\ stage = "idle" /\ committed' = committed
      /\ UNCHANGED <<stage, rd, light>> /\ term' = term + 1
      /\ unstable' = TruncateAndAppend(unstable, Single(Last + 1, e))
  BY <1>3 DEF Hup, appVars
<1>5. e \in Entry
  BY <1>2, <1>3 DEF Entry
<1>6. LogAppended(e)
  BY <1>4, <1>5, AppendedByCall
<1>7. WrittenHs' = WrittenHs
  BY <1>4 DEF WrittenHs
<1>8. TermOKAfter(HardState')
  BY <1>2, <1>4, <1>6, TermMovesOn DEF LogInv
<1>9. CommitTermsOK'
  BY <1>4, <1>6, <1>7, <1>8, CommitTermsKept DEF LogInv
<1> QED
  BY <1>1, <1>9 DEF LogInv

\* boot_strap appends its configuration change and commits it.
LEMMA BootStrapKeepsLog ==
    ASSUME IInv, IInv', LogInv, BootStrap
    PROVE  LogInv'
<1>1. ConfOK'
  BY ConfBootstrapped DEF LogInv
<1>2. PICK e : e = [term |-> 1, type |-> "conf", size |-> 1]
  OBVIOUS
<1>3. IsEmpty(unstable) /\ state = "Follower" /\ Last = 0
  <2>1. IsEmpty(unstable) /\ state = "Follower" /\ store.log.hi = 0
    BY DEF IInv, FollowerLog, BootStrap
  <2> QED
    BY <2>1, Numbers DEF IInv, Last, LastIndex
<1>4. /\ store' = store /\ disk' = disk /\ stage = "idle" /\ committed' = 1
      /\ UNCHANGED <<state, stage, rd, light, read_index>> /\ term' = 1
      /\ unstable' = TruncateAndAppend(unstable, Single(Last + 1, e))
  BY <1>2, <1>3 DEF BootStrap, appVars
<1>5. e \in Entry
  BY <1>2 DEF Entry
<1>6. LogAppended(e)
  BY <1>4, <1>5, AppendedByCall
<1>7. WrittenHs' = WrittenHs
  BY <1>4 DEF WrittenHs
<1>8. TermOKAfter(HardState')
  <2>1. HardState'.commit = 1 /\ HardState'.term = 1
    BY <1>4 DEF HardState
  <2>2. LogEntry(store', unstable', 1).term = 1
    BY <1>2, <1>3, <1>6 DEF LogAppended
  <2> QED
    BY <2>1, <2>2 DEF TermOKAfter
<1>9. CommitTermsOK'
  BY <1>4, <1>6, <1>7, <1>8, CommitTermsKept DEF LogInv
<1>10. ReadOK'
  <2>1. disk.log.hi <= disk'.log.hi /\ state' # "Leader"
    BY <1>3, <1>4, Numbers DEF IInv
  <2> QED
    BY <1>4, <1>6, <2>1, ReadKept DEF LogInv
<1> QED
  BY <1>1, <1>9, <1>10 DEF LogInv

\* A node that starts again knows what is on disk.
LEMMA RestartKeepsLog ==
    ASSUME IInv, IInv', LogInv, CrashRestart
    PROVE  LogInv'
<1>1. ConfOK'
  BY ConfRestarted DEF LogInv
<1>2. /\ store' = disk /\ disk' = disk /\ unstable' = EmptyAt(disk.log.hi + 1)
      /\ state' = "Follower" /\ term' = disk.hs.term /\ vote' = disk.hs.vote
      /\ committed' = RestartCommitted(disk) /\ stage' = "idle" /\ read_index' = read_index
  BY DEF CrashRestart
<1>3. ReadOK'
  BY <1>2 DEF ReadOK, LogInv
<1>4. /\ disk.log.hi \in Nat /\ disk.log.lo \in Nat /\ disk.hs \in HardStates
      /\ disk.hs.commit \in Nat /\ disk.hs.commit <= disk.log.hi
  BY Numbers, WrittenHsType DEF IInv, HardStates, DiskBehind
<1>5. Last' = disk.log.hi /\ unstable'.lo = disk.log.hi + 1
  BY <1>2, <1>4 DEF EmptyAt, Last, LastIndex, IsEmpty
<1>6. \A i \in disk.log.lo..disk.log.hi : LogEntry(store', unstable', i) = disk.log.ent[i]
  BY <1>2, <1>4, <1>5 DEF LogEntry
<1>7. TermOKAfter(disk.hs)
  BY <1>2, <1>4, <1>5, <1>6 DEF TermOKAfter, LogInv, CommitTermsOK, Has
<1>8. store'.hs = disk.hs /\ WrittenHs' = disk.hs
  BY <1>2 DEF WrittenHs
<1>9. TermOKAfter(HardState')
  <2>1. HardState'.commit = RestartCommitted(disk) /\ HardState'.term = disk.hs.term
    BY <1>2 DEF HardState
  <2>2. CASE disk.hs = NoHardState
    BY <1>2, <1>4, <2>1, <2>2 DEF RestartCommitted, TermOKAfter
  <2>3. CASE disk.hs # NoHardState
    BY <1>7, <2>1, <2>3 DEF RestartCommitted, TermOKAfter
  <2> QED
    BY <2>2, <2>3
<1>10. CommitTermsOK'
  BY <1>2, <1>7, <1>8, <1>9 DEF CommitTermsOK, CommitTermOK, TermOKAfter, LogInv
<1> QED
  BY <1>1, <1>3, <1>10 DEF LogInv

-----------------------------------------------------------------------------
\* All of it

\* It holds at the start.
LEMMA LogInit ==
    ASSUME Init
    PROVE  LogInv
<1>1. store = NewStorage /\ disk = NewStorage /\ store.hs = NoHardState
      /\ unstable = EmptyAt(1) /\ applied = 0 /\ state = "Follower" /\ read_index = 0
      /\ committed = 0 /\ term = 0 /\ stage = "idle"
  BY DEF Init, NewStorage
<1>2. NewStorage.log.hi = 0 /\ NewStorage.log.lo = 1 /\ NewStorage.hs.commit = 0
  BY DEF NewStorage, EmptyAt, NoHardState
<1>3. Last = 0
  BY <1>1, <1>2 DEF Last, LastIndex, IsEmpty, EmptyAt
<1>4. WrittenHs = store.hs /\ HardState.commit = 0
  BY <1>1 DEF WrittenHs, HardState
<1>5. ConfOK /\ ReadOK
  BY <1>1, <1>2, <1>3 DEF ConfOK, OneUnappliedConf, ReadOK
<1>6. CommitTermsOK
  BY <1>1, <1>2, <1>3, <1>4 DEF CommitTermsOK, CommitTermOK, Has
<1> QED
  BY <1>5, <1>6 DEF LogInv

\* Nothing happens.
LEMMA StutterKeepsLog ==
    ASSUME IInv, IInv', LogInv, UNCHANGED vars
    PROVE  LogInv'
<1>1. QuietStep /\ read_index' = read_index
  <2>1. WrittenHs' = WrittenHs
    BY DEF WrittenHs, vars, appVars
  <2> QED
    BY <2>1 DEF QuietStep, vars, logVars, raftVars
<1> QED
  BY <1>1, QuietIsOrdinary, OrdinaryKeeps DEF LogInv

\* Every step keeps it.
LEMMA LogStep ==
    ASSUME SaveLightCommit, IInv, IInv', LogInv, [Next]_vars
    PROVE  LogInv'
<1>1. CASE UNCHANGED vars
  BY <1>1, StutterKeepsLog
<1>2. CASE Hup
  BY <1>2, HupKeepsLog
<1>3. CASE BootStrap
  BY <1>3, BootStrapKeepsLog
<1>4. ASSUME NEW p \in Proposals, Propose(p)
      PROVE  LogInv'
  BY <1>4, ProposeKeepsLog
<1>5. CASE ReadIndex
  <2>1. Ordinary
    BY <1>5, ReadIndexQuiet, QuietIsOrdinary
  <2>2. ConfOK' /\ CommitTermsOK'
    BY <2>1, OrdinaryKeeps
  <2>3. ReadOK'
    BY <1>5, ReadGiven DEF LogInv
  <2> QED
    BY <2>2, <2>3 DEF LogInv
<1>6. CASE GetReady
  <2>1. Ordinary /\ read_index' = read_index
    BY <1>6, GetReadyQuiet, QuietIsOrdinary
  <2> QED
    BY <2>1, OrdinaryKeeps DEF LogInv
<1>7. ASSUME NEW apply \in BOOLEAN, AdvanceAppend(apply)
      PROVE  LogInv'
  <2>1. read_index' = read_index
    BY <1>7 DEF AdvanceAppend
  <2>2. Ordinary
    BY <1>7, AppendStep
  <2> QED
    BY <2>1, <2>2, OrdinaryKeeps DEF LogInv
<1>8. CASE AdvanceAppendAsync
  <2>1. read_index' = read_index
    BY <1>8 DEF AdvanceAppendAsync
  <2>2. Ordinary
    BY <1>8, AsyncStep
  <2> QED
    BY <2>1, <2>2, OrdinaryKeeps DEF LogInv
<1>9. CASE AdvanceApply
  <2>1. read_index' = read_index
    BY <1>9 DEF AdvanceApply
  <2>2. Ordinary
    BY <1>9, AdvanceApplyQuiet, QuietIsOrdinary
  <2> QED
    BY <2>1, <2>2, OrdinaryKeeps DEF LogInv
<1>10. CASE WriteEntries \/ WriteHardState \/ WriteCommit \/ Compact
  <2>1. read_index' = read_index
    BY <1>10 DEF WriteEntries, WriteHardState, WriteCommit, Compact
  <2>2. Ordinary
    BY <1>10, WriteSteps
  <2> QED
    BY <2>1, <2>2, OrdinaryKeeps DEF LogInv
<1>11. CASE Sync
  <2>1. read_index' = read_index
    BY <1>11 DEF Sync
  <2>2. Ordinary
    BY <1>11, SyncQuiet, QuietIsOrdinary
  <2> QED
    BY <2>1, <2>2, OrdinaryKeeps DEF LogInv
<1>12. CASE ApplyEntry \/ \E n \in 1..MaxReady : OnPersistReady(n)
  <2>1. read_index' = read_index
    BY <1>12 DEF ApplyEntry, OnPersistReady
  <2>2. Ordinary
    BY <1>12, CommitSteps
  <2> QED
    BY <2>1, <2>2, OrdinaryKeeps DEF LogInv
<1>13. CASE CrashRestart
  BY <1>13, RestartKeepsLog
<1> QED
  BY <1>1, <1>2, <1>3, <1>4, <1>5, <1>6, <1>7, <1>8, <1>9, <1>10, <1>11, <1>12, <1>13
     DEF Next

\* What is known of the configuration changes, the terms and the reads holds for ever.
THEOREM LogInvariance ==
    ASSUME SaveLightCommit
    PROVE  Spec => []LogInv
<1>1. Init => LogInv
  BY LogInit
<1>2. IInv /\ IInv' /\ LogInv /\ [Next]_vars => LogInv'
  BY LogStep
<1> QED
  BY <1>1, <1>2, Invariance, PTL DEF Spec

\* At most one configuration change in the log is not applied: a leader holds back
\* the next one, a candidate waits for those it has committed, and what a crash takes
\* away was not handed out.
THEOREM OneConfAtATime ==
    ASSUME SaveLightCommit
    PROVE  Spec => []OneUnappliedConf
<1>1. LogInv => OneUnappliedConf
  BY DEF LogInv, ConfOK
<1> QED
  BY <1>1, LogInvariance, PTL

-----------------------------------------------------------------------------
\* The sums by which UncommittedState is accounted for

\* The sum of f over S, as FoldFunctionOnSet takes it: some element first, then the
\* rest.  The fold is one recursive function of the subsets of S.
Sum(f, S) == FoldFunctionOnSet(+, 0, f, S)

Some(s) == CHOOSE x \in s : TRUE

IsFold(it, f, S) ==
    it = [s \in SUBSET S |-> IF s = {} THEN 0 ELSE f[Some(s)] + it[s \ {Some(s)}]]

\* Among sets of elements of a finite set, one has no other below it.
LEMMA SmallestSet ==
    ASSUME NEW S, IsFiniteSet(S), NEW B \in SUBSET (SUBSET S), B # {}
    PROVE  \E t \in B : \A u \in B : u \subseteq t => u = t
<1>1. IsWellFoundedOn(StrictSubsetOrdering(S), FiniteSubsetsOf(S))
  BY FS_StrictSubsetOrderingWellFounded
<1>2. FiniteSubsetsOf(S) = SUBSET S
  BY FS_FiniteSubsetsOfFinite
<1>3. B \subseteq FiniteSubsetsOf(S)
  BY <1>2
<1>4. PICK t \in B : \A u \in B : ~(<<u, t>> \in StrictSubsetOrdering(S))
  BY <1>1, <1>3, WFMin
<1>5. ASSUME NEW u \in B, u \subseteq t, u # t PROVE FALSE
  <2>1. <<u, t>> \in StrictSubsetOrdering(S)
    BY <1>5 DEF StrictSubsetOrdering
  <2> QED
    BY <1>4, <2>1
<1> QED
  BY <1>5

\* A fold at a subset.
LEMMA FoldAt ==
    ASSUME NEW f, NEW S, NEW it, IsFold(it, f, S), NEW s \in SUBSET S
    PROVE  it[s] = IF s = {} THEN 0 ELSE f[Some(s)] + it[s \ {Some(s)}]
<1> DEFINE body(j, t) == IF t = {} THEN 0 ELSE f[Some(t)] + j[t \ {Some(t)}]
<1>1. it = [t \in SUBSET S |-> body(it, t)]
  BY DEF IsFold
<1> HIDE DEF body
<1>2. it[s] = body(it, s)
  BY <1>1
<1> QED
  BY <1>2 DEF body

\* An element of a set that is not empty, and what is left without it.
LEMMA SomeIsIn ==
    ASSUME NEW s, s # {}
    PROVE  Some(s) \in s /\ s \ {Some(s)} \subseteq s /\ s \ {Some(s)} # s
BY DEF Some

\* Two folds of f agree wherever both are defined.
LEMMA FoldsAgree ==
    ASSUME NEW f, NEW S, IsFiniteSet(S), NEW T, NEW i, NEW j,
           IsFold(i, f, S), IsFold(j, f, T), NEW r \in SUBSET S, r \subseteq T
    PROVE  i[r] = j[r]
<1> DEFINE B == {t \in SUBSET S : t \subseteq T /\ i[t] # j[t]}
<1>1. SUFFICES ASSUME B # {} PROVE FALSE
  OBVIOUS
<1>2. PICK t \in B : \A u \in B : u \subseteq t => u = t
  <2>1. B \in SUBSET (SUBSET S) /\ B # {}
    BY <1>1
  <2> HIDE DEF B
  <2> QED
    BY <2>1, SmallestSet
<1>3. i[t] = IF t = {} THEN 0 ELSE f[Some(t)] + i[t \ {Some(t)}]
  BY <1>2, FoldAt
<1>4. j[t] = IF t = {} THEN 0 ELSE f[Some(t)] + j[t \ {Some(t)}]
  BY <1>2, FoldAt
<1>5. t # {}
  BY <1>2, <1>3, <1>4
<1>6. t \ {Some(t)} \notin B
  BY <1>2, <1>5, SomeIsIn
<1>7. t \ {Some(t)} \in SUBSET S /\ t \ {Some(t)} \subseteq T
  BY <1>2
<1>8. i[t \ {Some(t)}] = j[t \ {Some(t)}]
  BY <1>6, <1>7
<1> QED
  BY <1>2, <1>3, <1>4, <1>5, <1>8

\* Every finite set has a fold.
LEMMA FoldExists ==
    ASSUME NEW f, NEW S, IsFiniteSet(S)
    PROVE  \E it : IsFold(it, f, S)
<1> DEFINE B == {t \in SUBSET S : ~\E it : IsFold(it, f, t)}
<1>1. SUFFICES ASSUME B # {} PROVE FALSE
  OBVIOUS
<1>2. PICK t \in B : \A u \in B : u \subseteq t => u = t
  <2>1. B \in SUBSET (SUBSET S) /\ B # {}
    BY <1>1
  <2> HIDE DEF B
  <2> QED
    BY <2>1, SmallestSet
<1> DEFINE F(u) == CHOOSE it : IsFold(it, f, u)
<1>3. ASSUME NEW u \in SUBSET t, u # t PROVE IsFold(F(u), f, u) /\ IsFiniteSet(u)
  <2>1. u \notin B /\ u \in SUBSET S
    BY <1>2, <1>3
  <2>2. \E it : IsFold(it, f, u)
    BY <2>1
  <2>3. IsFold(F(u), f, u)
    BY <2>2
  <2> QED
    BY <2>1, <2>3, FS_Subset
<1> DEFINE val(u) == IF u = {} THEN 0 ELSE f[Some(u)] + F(u \ {Some(u)})[u \ {Some(u)}]
           it == [u \in SUBSET t |-> val(u)]
<1> HIDE DEF F
<1>4. ASSUME NEW u \in SUBSET t, u # t PROVE F(u)[u] = val(u)
  <2>1. IsFold(F(u), f, u) /\ IsFiniteSet(u)
    BY <1>3, <1>4
  <2>2. F(u)[u] = IF u = {} THEN 0 ELSE f[Some(u)] + F(u)[u \ {Some(u)}]
    BY <2>1, FoldAt
  <2>3. CASE u # {}
    <3>1. PICK w : w = u \ {Some(u)}
      OBVIOUS
    <3>2. w \in SUBSET u /\ w # u /\ w \in SUBSET t /\ w # t
      BY <2>3, <3>1, SomeIsIn
    <3>3. IsFold(F(w), f, w)
      BY <1>3, <3>2
    <3>4. F(u)[w] = F(w)[w]
      BY <2>1, <3>2, <3>3, FoldsAgree
    <3> QED
      BY <2>2, <2>3, <3>1, <3>4
  <2> QED
    BY <2>2, <2>3
<1>5. ASSUME NEW u \in SUBSET t
      PROVE  it[u] = IF u = {} THEN 0 ELSE f[Some(u)] + it[u \ {Some(u)}]
  <2>1. it[u] = val(u)
    OBVIOUS
  <2>2. CASE u # {}
    <3>1. PICK w : w = u \ {Some(u)}
      OBVIOUS
    <3>2. w \in SUBSET t /\ w # t
      BY <2>2, <3>1, SomeIsIn
    <3>3. it[w] = F(w)[w]
      BY <1>4, <3>2
    <3> QED
      BY <2>1, <2>2, <3>1, <3>3
  <2> QED
    BY <2>1, <2>2
<1>6. IsFold(it, f, t)
  <2> DEFINE body(u) == IF u = {} THEN 0 ELSE f[Some(u)] + it[u \ {Some(u)}]
  <2>1. it = [u \in SUBSET t |-> it[u]]
    OBVIOUS
  <2>2. \A u \in SUBSET t : it[u] = body(u)
    BY <1>5
  <2> HIDE DEF it, body
  <2>3. it = [u \in SUBSET t |-> body(u)]
    BY <2>1, <2>2
  <2> QED
    BY <2>3 DEF IsFold, body
<1> QED
  BY <1>2, <1>6

\* The sum is what any fold over a larger set says.
LEMMA SumIsFold ==
    ASSUME NEW f, NEW S, IsFiniteSet(S), NEW it, IsFold(it, f, S), NEW s \in SUBSET S
    PROVE  Sum(f, s) = it[s]
<1>1. IsFiniteSet(s)
  BY FS_Subset
<1>2. \E j : IsFold(j, f, s)
  BY <1>1, FoldExists
<1> DEFINE c == CHOOSE j :
              j = [t \in SUBSET s |-> IF t = {} THEN 0 ELSE f[Some(t)] + j[t \ {Some(t)}]]
<1>3. IsFold(c, f, s)
  BY <1>2 DEF IsFold
<1>4. Sum(f, s) = c[s]
  BY Zenon DEF Sum, FoldFunctionOnSet, MapThenFoldSet, Some
<1> HIDE DEF c
<1>5. c[s] = it[s]
  BY <1>1, <1>3, FoldsAgree
<1> QED
  BY <1>4, <1>5

\* The sum over no elements, and the first step of any other.
LEMMA SumStep ==
    ASSUME NEW f, NEW S, IsFiniteSet(S)
    PROVE  /\ S = {} => Sum(f, S) = 0
           /\ S # {} => Sum(f, S) = f[Some(S)] + Sum(f, S \ {Some(S)})
<1>1. PICK it : IsFold(it, f, S)
  BY FoldExists
<1>2. it[S] = IF S = {} THEN 0 ELSE f[Some(S)] + it[S \ {Some(S)}]
  BY <1>1, FoldAt
<1>3. Sum(f, S) = it[S] /\ Sum(f, S \ {Some(S)}) = it[S \ {Some(S)}]
  BY <1>1, SumIsFold
<1> QED
  BY <1>2, <1>3

\* A sum of natural numbers is one.
LEMMA SumType ==
    ASSUME NEW f, NEW S, IsFiniteSet(S), \A x \in S : f[x] \in Nat
    PROVE  Sum(f, S) \in Nat
<1> DEFINE B == {t \in SUBSET S : Sum(f, t) \notin Nat}
<1>1. SUFFICES ASSUME B # {} PROVE FALSE
  OBVIOUS
<1>2. PICK t \in B : \A u \in B : u \subseteq t => u = t
  <2>1. B \in SUBSET (SUBSET S) /\ B # {}
    BY <1>1
  <2> HIDE DEF B
  <2> QED
    BY <2>1, SmallestSet
<1>3. IsFiniteSet(t) /\ Sum(f, t) \notin Nat
  BY <1>2, FS_Subset
<1>4. t # {}
  <2>1. t = {} => Sum(f, t) = 0
    BY <1>3, SumStep
  <2> QED
    BY <1>3, <2>1
<1>5. PICK w : w = t \ {Some(t)}
  OBVIOUS
<1>6. w \subseteq t /\ w # t /\ Some(t) \in S
  BY <1>2, <1>4, <1>5, SomeIsIn
<1>7. Sum(f, w) \in Nat /\ f[Some(t)] \in Nat
  <2>1. w \notin B /\ w \in SUBSET S
    BY <1>2, <1>6
  <2> QED
    BY <1>6, <2>1
<1>8. Sum(f, t) = f[Some(t)] + Sum(f, w)
  BY <1>3, <1>4, <1>5, SumStep
<1> QED
  BY <1>3, <1>7, <1>8

\* A sum depends on the values of its elements only.
LEMMA SumSame ==
    ASSUME NEW f, NEW g, NEW S, IsFiniteSet(S), \A x \in S : f[x] = g[x]
    PROVE  Sum(f, S) = Sum(g, S)
<1> DEFINE B == {t \in SUBSET S : Sum(f, t) # Sum(g, t)}
<1>1. SUFFICES ASSUME B # {} PROVE FALSE
  OBVIOUS
<1>2. PICK t \in B : \A u \in B : u \subseteq t => u = t
  <2>1. B \in SUBSET (SUBSET S) /\ B # {}
    BY <1>1
  <2> HIDE DEF B
  <2> QED
    BY <2>1, SmallestSet
<1>3. IsFiniteSet(t) /\ Sum(f, t) # Sum(g, t)
  BY <1>2, FS_Subset
<1>4. t # {}
  BY <1>3, SumStep
<1>5. PICK w : w = t \ {Some(t)}
  OBVIOUS
<1>6. w \subseteq t /\ w # t /\ Some(t) \in S
  BY <1>2, <1>4, <1>5, SomeIsIn
<1>7. Sum(f, w) = Sum(g, w) /\ f[Some(t)] = g[Some(t)]
  BY <1>2, <1>6
<1>8. /\ Sum(f, t) = f[Some(t)] + Sum(f, w)
      /\ Sum(g, t) = g[Some(t)] + Sum(g, w)
  BY <1>3, <1>4, <1>5, SumStep
<1> QED
  BY <1>3, <1>7, <1>8

\* Any element may be taken first.
LEMMA SumWithout ==
    ASSUME NEW f, NEW S, IsFiniteSet(S), \A x \in S : f[x] \in Nat, NEW x \in S
    PROVE  Sum(f, S) = f[x] + Sum(f, S \ {x})
<1> DEFINE B == {t \in SUBSET S : \E y \in t : Sum(f, t) # f[y] + Sum(f, t \ {y})}
<1>1. SUFFICES ASSUME B # {} PROVE FALSE
  OBVIOUS
<1>2. PICK t \in B : \A u \in B : u \subseteq t => u = t
  <2>1. B \in SUBSET (SUBSET S) /\ B # {}
    BY <1>1
  <2> HIDE DEF B
  <2> QED
    BY <2>1, SmallestSet
<1>3. PICK y \in t : Sum(f, t) # f[y] + Sum(f, t \ {y})
  BY <1>2
<1>4. PICK c : c = Some(t)
  OBVIOUS
<1>5. t \in SUBSET S /\ IsFiniteSet(t) /\ c \in t /\ c \in S /\ y \in S
  BY <1>2, <1>3, <1>4, SomeIsIn, FS_Subset
<1>6. Sum(f, t) = f[c] + Sum(f, t \ {c})
  BY <1>3, <1>4, <1>5, SumStep
<1>7. c # y
  BY <1>3, <1>6
<1>8. PICK w : w = t \ {c}
  OBVIOUS
<1>9. PICK v : v = t \ {y}
  OBVIOUS
<1>10. PICK r : r = w \ {y}
  OBVIOUS
<1>11. /\ w \in SUBSET S /\ w \subseteq t /\ w # t /\ y \in w
       /\ v \in SUBSET S /\ v \subseteq t /\ v # t /\ c \in v
       /\ r = v \ {c} /\ r \in SUBSET S
  BY <1>3, <1>5, <1>7, <1>8, <1>9, <1>10
<1>12. w \notin B /\ v \notin B
  BY <1>2, <1>11
<1>13. Sum(f, w) = f[y] + Sum(f, r) /\ Sum(f, v) = f[c] + Sum(f, r)
  BY <1>10, <1>11, <1>12
<1>14. IsFiniteSet(r)
  BY <1>11, FS_Subset
<1>15. Sum(f, r) \in Nat /\ f[y] \in Nat /\ f[c] \in Nat
  BY <1>5, <1>11, <1>14, SumType
<1> QED
  BY <1>3, <1>6, <1>8, <1>9, <1>13, <1>15

\* The sum over two sets that share nothing.
LEMMA SumOfBoth ==
    ASSUME NEW f, NEW S, NEW T, IsFiniteSet(S), IsFiniteSet(T), S \cap T = {},
           \A x \in S \cup T : f[x] \in Nat
    PROVE  Sum(f, S \cup T) = Sum(f, S) + Sum(f, T)
<1> DEFINE B == {t \in SUBSET S : Sum(f, t \cup T) # Sum(f, t) + Sum(f, T)}
<1>1. SUFFICES ASSUME B # {} PROVE FALSE
  OBVIOUS
<1>2. PICK t \in B : \A u \in B : u \subseteq t => u = t
  <2>1. B \in SUBSET (SUBSET S) /\ B # {}
    BY <1>1
  <2> HIDE DEF B
  <2> QED
    BY <2>1, SmallestSet
<1>3. t \in SUBSET S /\ IsFiniteSet(t) /\ Sum(f, t \cup T) # Sum(f, t) + Sum(f, T)
  BY <1>2, FS_Subset
<1>4. Sum(f, T) \in Nat /\ Sum(f, t) \in Nat
  BY <1>3, SumType
<1>5. t # {}
  <2>1. SUFFICES ASSUME t = {} PROVE FALSE
    OBVIOUS
  <2>2. t \cup T = T
    BY <2>1
  <2>3. Sum(f, t) = 0
    BY <1>3, <2>1, SumStep
  <2>4. Sum(f, t \cup T) = Sum(f, T)
    BY <2>2
  <2> QED
    BY <1>3, <1>4, <2>3, <2>4
<1>6. PICK x \in t : TRUE
  BY <1>5
<1>7. PICK w : w = t \ {x}
  OBVIOUS
<1>8. /\ w \in SUBSET S /\ w \subseteq t /\ w # t /\ IsFiniteSet(w)
      /\ x \in t \cup T /\ (t \cup T) \ {x} = w \cup T /\ IsFiniteSet(t \cup T)
      /\ \A y \in t \cup T : f[y] \in Nat
  BY <1>3, <1>6, <1>7, FS_Subset, FS_Union
<1>9. Sum(f, w \cup T) = Sum(f, w) + Sum(f, T)
  <2>1. w \notin B
    BY <1>2, <1>8
  <2> QED
    BY <1>8, <2>1
<1>10. Sum(f, t) = f[x] + Sum(f, w)
  BY <1>3, <1>6, <1>7, <1>8, SumWithout
<1>11. Sum(f, t \cup T) = f[x] + Sum(f, w \cup T)
  BY <1>8, SumWithout
<1>12. Sum(f, w) \in Nat /\ f[x] \in Nat
  BY <1>8, SumType
<1> QED
  BY <1>3, <1>4, <1>9, <1>10, <1>11, <1>12

\* The sum over an interval, cut in two.
LEMMA SumCut ==
    ASSUME NEW f, NEW a \in Nat, NEW b \in Nat, NEW c \in Nat, a <= b + 1, b <= c,
           \A i \in a..c : f[i] \in Nat
    PROVE  /\ Sum(f, a..c) = Sum(f, a..b) + Sum(f, (b + 1)..c)
           /\ Sum(f, a..b) \in Nat /\ Sum(f, (b + 1)..c) \in Nat
<1>1. /\ a..c = (a..b) \cup ((b + 1)..c)
      /\ (a..b) \cap ((b + 1)..c) = {}
  OBVIOUS
<1>2. IsFiniteSet(a..b) /\ IsFiniteSet((b + 1)..c)
  BY FS_Interval
<1>3. Sum(f, a..b) \in Nat /\ Sum(f, (b + 1)..c) \in Nat
  BY <1>1, <1>2, SumType
<1> QED
  BY <1>1, <1>2, <1>3, SumOfBoth

Shifted(s, d) == {i + d : i \in s}

\* g holds what f holds, d further on.
Renumbered(f, g, S, d) ==
    \A i \in S : i \in Nat /\ f[i] \in Nat /\ f[i] = g[i + d]

\* The sum over indexes, whatever they are numbered from.
LEMMA SumRenumbered ==
    ASSUME NEW f, NEW g, NEW S, IsFiniteSet(S), NEW d \in Nat,
           Renumbered(f, g, S, d)
    PROVE  Sum(f, S) = Sum(g, Shifted(S, d))
<1> DEFINE B == {t \in SUBSET S : Sum(f, t) # Sum(g, Shifted(t, d))}
<1>1. SUFFICES ASSUME B # {} PROVE FALSE
  OBVIOUS
<1>2. PICK t \in B : \A u \in B : u \subseteq t => u = t
  <2>1. B \in SUBSET (SUBSET S) /\ B # {}
    BY <1>1
  <2> HIDE DEF B
  <2> QED
    BY <2>1, SmallestSet
<1>3. t \in SUBSET S /\ IsFiniteSet(t) /\ Sum(f, t) # Sum(g, Shifted(t, d))
  <2>1. t \in SUBSET S /\ Sum(f, t) # Sum(g, Shifted(t, d))
    BY <1>2
  <2> QED
    BY <2>1, FS_Subset
<1>4. t # {}
  <2>1. SUFFICES ASSUME t = {} PROVE FALSE
    OBVIOUS
  <2>2. Shifted(t, d) = {}
    BY <2>1 DEF Shifted
  <2>3. IsFiniteSet({})
    BY FS_EmptySet
  <2>4. Sum(f, t) = 0 /\ Sum(g, Shifted(t, d)) = 0
    BY <2>1, <2>2, <2>3, SumStep
  <2> QED
    BY <1>3, <2>4
<1>5. PICK x \in t : TRUE
  BY <1>4
<1>6. PICK w : w = t \ {x}
  OBVIOUS
<1>7. w \in SUBSET S /\ w \subseteq t /\ w # t /\ x \in S
  BY <1>3, <1>5, <1>6
<1>8. Sum(f, w) = Sum(g, Shifted(w, d))
  <2>1. w \notin B
    BY <1>2, <1>7
  <2> QED
    BY <1>7, <2>1
<1>9. Sum(f, t) = f[x] + Sum(f, w)
  <2>1. \A y \in t : f[y] \in Nat
    BY <1>3 DEF Renumbered
  <2> QED
    BY <1>3, <1>5, <1>6, <2>1, SumWithout
<1>10. /\ x + d \in Shifted(t, d)
       /\ \A k \in Shifted(t, d) : g[k] \in Nat
  BY <1>3, <1>5 DEF Shifted, Renumbered
<1>11. Shifted(w, d) = Shifted(t, d) \ {x + d}
  <2>1. \A y \in t : y \in Nat
    BY <1>3 DEF Renumbered
  <2> QED
    BY <1>5, <1>6, <2>1 DEF Shifted
<1>12. IsFiniteSet(Shifted(t, d))
  <2>1. [i \in t |-> i + d] \in Surjection(t, Shifted(t, d))
    BY DEF Surjection, Shifted
  <2> QED
    BY <1>3, <2>1, FS_Surjection
<1>13. Sum(g, Shifted(t, d)) = g[x + d] + Sum(g, Shifted(w, d))
  BY <1>10, <1>11, <1>12, SumWithout
<1>14. f[x] = g[x + d]
  BY <1>7 DEF Renumbered
<1> QED
  BY <1>3, <1>8, <1>9, <1>13, <1>14

\* The same for intervals.
LEMMA SumShift ==
    ASSUME NEW f, NEW g, NEW a \in Nat, NEW b \in Nat, NEW d \in Nat,
           Renumbered(f, g, a..b, d)
    PROVE  Sum(f, a..b) = Sum(g, (a + d)..(b + d))
<1>1. IsFiniteSet(a..b)
  BY FS_Interval
<1>2. Shifted(a..b, d) = (a + d)..(b + d)
  <2>1. ASSUME NEW k \in (a + d)..(b + d) PROVE k \in Shifted(a..b, d)
    <3>1. k - d \in a..b /\ k = (k - d) + d
      OBVIOUS
    <3> QED
      BY <3>1 DEF Shifted
  <2> QED
    BY <2>1 DEF Shifted
<1>3. Sum(f, a..b) = Sum(g, Shifted(a..b, d))
  BY <1>1, SumRenumbered
<1> QED
  BY <1>2, <1>3

-----------------------------------------------------------------------------
\* What is uncommitted

\* The sizes of the entries the log has from a to b, and their sum.
Sizes(a, b) == [i \in a..b |-> LogEntry(store, unstable, i).size]
LogSize(a, b) == Sum(Sizes(a, b), a..b)

\* The last index that a leader did not append in its term, or has handed out.
Settled ==
    IF last_log_tail_index > commit_since_index THEN last_log_tail_index
    ELSE commit_since_index

\* The accounting in these words.
LEMMA AccountingIs ==
    UncommittedAccounting <=>
        (state = "Leader" => uncommitted_size = LogSize(1 + Settled, Last))
BY Zenon DEF UncommittedAccounting, LogSize, Sizes, Sum, Settled

\* Where it stands.
LEMMA SettledIs ==
    ASSUME IInv, SizesOK, state = "Leader"
    PROVE  /\ Settled \in Nat /\ Last \in Nat /\ commit_since_index \in Nat
           /\ last_log_tail_index \in Nat /\ store.log.lo \in Nat
           /\ commit_since_index <= Settled /\ last_log_tail_index <= Settled
           /\ Settled <= Last /\ store.log.lo <= Settled + 1
           /\ uncommitted_size \in Nat
           /\ uncommitted_size = LogSize(1 + Settled, Last)
<1>1. /\ commit_since_index \in Nat /\ Last \in Nat /\ store.log.lo \in Nat
      /\ last_log_tail_index \in Nat /\ committed \in Nat /\ Len(sm) \in Nat
  BY Numbers DEF IInv, StateTypes, RaftTypes
<1>2. /\ commit_since_index <= Last /\ store.log.lo <= commit_since_index + 1
  BY <1>1, Order
<1>3. /\ last_log_tail_index <= Last /\ uncommitted_size \in Nat
      /\ uncommitted_size = LogSize(1 + Settled, Last)
  BY AccountingIs DEF SizesOK
<1> QED
  BY <1>1, <1>2, <1>3 DEF Settled

\* The sizes are numbers, and those of a piece of the interval are the same.
LEMMA SizesType ==
    ASSUME IInv, NEW a \in Nat, store.log.lo <= a
    PROVE  \A i \in a..Last : Sizes(a, Last)[i] \in Nat
<1>1. store.log.lo \in Nat /\ Last \in Nat
  BY Numbers DEF IInv
<1>2. ASSUME NEW i \in a..Last PROVE Sizes(a, Last)[i] \in Nat
  <2>1. i \in store.log.lo..LastIndex(store, unstable)
    BY <1>1 DEF Last
  <2>2. LogEntry(store, unstable, i) \in Entry
    BY <2>1, ShapeHolds, EntryType
  <2> QED
    BY <2>2 DEF Sizes, Entry
<1> QED
  BY <1>2

\* The size of the log from a on is that of a piece of it and of the rest.
LEMMA LogSizeCut ==
    ASSUME IInv, NEW a \in Nat, store.log.lo <= a, NEW b \in Nat, a <= b + 1, b <= Last
    PROVE  /\ LogSize(a, Last) = Sum(Sizes(a, Last), a..b) + LogSize(b + 1, Last)
           /\ Sum(Sizes(a, Last), a..b) \in Nat
           /\ LogSize(b + 1, Last) \in Nat
<1>1. Last \in Nat
  BY Numbers DEF IInv
<1>2. \A i \in a..Last : Sizes(a, Last)[i] \in Nat
  BY SizesType
<1>3. PICK g, c : g = Sizes(a, Last) /\ c = Last
  OBVIOUS
<1>4. /\ Sum(g, a..c) = Sum(g, a..b) + Sum(g, (b + 1)..c)
      /\ Sum(g, a..b) \in Nat /\ Sum(g, (b + 1)..c) \in Nat
  <2>1. c \in Nat /\ b <= c /\ \A i \in a..c : g[i] \in Nat
    BY <1>1, <1>2, <1>3
  <2> QED
    BY <2>1, SumCut
<1>5. Sum(g, (b + 1)..c) = LogSize(b + 1, Last)
  <2>1. \A i \in (b + 1)..c : g[i] = Sizes(b + 1, c)[i]
    BY <1>1, <1>3 DEF Sizes
  <2>2. IsFiniteSet((b + 1)..c)
    BY <1>1, <1>3, FS_Interval
  <2>3. Sum(g, (b + 1)..c) = Sum(Sizes(b + 1, c), (b + 1)..c)
    BY <2>1, <2>2, SumSame
  <2> QED
    BY <1>3, <2>3 DEF LogSize
<1> QED
  BY <1>3, <1>4, <1>5 DEF LogSize

\* MaybeReduce takes off exactly what is handed out of the leader's own entries.
LEMMA HandedSize ==
    ASSUME IInv, SizesOK, NEW un, un.lo \in Nat, NEW com \in Nat, NEW per \in Nat,
           per < un.lo, per <= disk.log.hi,
           commit_since_index <= per, commit_since_index <= com,
           NEW to \in DeliverTo(store, com, per), state = "Leader"
    PROVE  MaybeReduce(Delivered(store, un, to)) =
              LogSize(1 + (IF last_log_tail_index > to THEN last_log_tail_index ELSE to), Last)
<1>1. PICK es : es = Delivered(store, un, to)
  OBVIOUS
<1>2. PICK c, tail, m, last :
         c = commit_since_index /\ tail = last_log_tail_index /\ m = Settled /\ last = Last
  OBVIOUS
<1>3. /\ to \in Nat /\ c <= to /\ to <= per
      /\ es \in Seq(AppEntry) /\ Len(es) = to - c
      /\ \A k \in 1..Len(es) : es[k].index = c + k /\ es[k].entry = store.log.ent[c + k]
  BY <1>1, <1>2, HandedEntries
<1>4. /\ m \in Nat /\ last \in Nat /\ c \in Nat /\ tail \in Nat /\ store.log.lo \in Nat
      /\ m = (IF tail > c THEN tail ELSE c)
      /\ m <= last /\ store.log.lo <= m + 1 /\ store.log.lo <= c + 1
      /\ uncommitted_size \in Nat /\ uncommitted_size = LogSize(1 + m, last)
  <2>1. Len(sm) \in Nat /\ store.log.lo <= Len(sm) + 1 /\ Len(sm) <= commit_since_index
    BY Order, Numbers DEF IInv
  <2>2. m = (IF tail > c THEN tail ELSE c)
    BY <1>2 DEF Settled
  <2> QED
    BY <1>2, <2>1, <2>2, SettledIs
<1>5. /\ to <= store.log.hi /\ store.log.hi \in Nat /\ store.log.hi <= last
  <2>1. disk.log.hi \in Nat /\ store.log.hi \in Nat
    BY Numbers DEF IInv
  <2>2. disk.log.hi <= store.log.hi /\ store.log.hi <= last
    BY <1>2, Order
  <2> QED
    BY <1>3, <2>1, <2>2
<1> DEFINE f == [k \in DOMAIN es |-> es[k].entry.size]
           g == Sizes(1 + m, last)
           a == m + 1 - c
           b == to - c
           K == {k \in DOMAIN es : es[k].index > tail}
<1>6. a \in Nat /\ b \in Nat /\ a + c = 1 + m /\ b + c = to /\ DOMAIN es = 1..b
  <2>1. DOMAIN es = 1..Len(es) /\ Len(es) = to - c
    BY <1>3
  <2>2. to \in Nat /\ c \in Nat /\ c <= to /\ m \in Nat /\ c <= m
    BY <1>3, <1>4
  <2> QED
    BY <2>1, <2>2
<1>7. K = a..b
  <2>1. \A k \in 1..b : k \in K <=> c + k > tail
    BY <1>3, <1>6
  <2>2. \A k \in 1..b : c + k > tail <=> k >= a
    BY <1>3, <1>4, <1>6
  <2>3. 1 <= a
    BY <1>4
  <2> QED
    BY <1>6, <2>1, <2>2, <2>3
<1>8. OwnSize(es) = Sum(f, a..b)
  <2>1. OwnSize(es) = Sum(f, K)
    BY <1>2, Zenon DEF OwnSize, Sum
  <2> QED
    BY <1>7, <2>1
<1>9. Renumbered(f, g, a..b, c)
  <2>1. ASSUME NEW k \in a..b
        PROVE  k \in Nat /\ f[k] \in Nat /\ f[k] = g[k + c]
    <3>a. k \in Nat /\ a <= k /\ k <= b
      BY <1>6
    <3>b. 1 <= a /\ 1 + m <= k + c /\ k + c <= to
      BY <1>3, <1>4, <1>6, <3>a
    <3>c. k \in 1..b /\ k \in 1..Len(es)
      BY <1>3, <1>6, <3>a, <3>b
    <3>d. c + k = k + c /\ k + c \in Nat
      BY <1>3, <1>4, <3>a
    <3>e. c + k \in store.log.lo..store.log.hi /\ k + c \in (1 + m)..last
      BY <1>3, <1>4, <1>5, <3>b, <3>d
    <3>1. k \in Nat /\ k \in 1..b /\ k \in 1..Len(es) /\ c + k = k + c
          /\ c + k \in store.log.lo..store.log.hi /\ k + c \in (1 + m)..last
      BY <3>a, <3>c, <3>d, <3>e
    <3>2. f[k] = store.log.ent[c + k].size
      BY <1>3, <1>6, <3>1
    <3>3. LogEntry(store, unstable, k + c) = store.log.ent[c + k]
      BY <3>1, StoredEntry
    <3>4. g[k + c] = store.log.ent[c + k].size
      BY <3>1, <3>3 DEF Sizes
    <3>5. g[k + c] \in Nat
      BY <1>2, <1>4, <3>1, SizesType
    <3> QED
      BY <3>1, <3>2, <3>4, <3>5
  <2> QED
    BY <2>1 DEF Renumbered
<1>10. OwnSize(es) = Sum(g, (1 + m)..to)
  <2> HIDE DEF f, g, a, b
  <2>1. Sum(f, a..b) = Sum(g, (a + c)..(b + c))
    BY <1>4, <1>6, <1>9, SumShift
  <2> QED
    BY <1>6, <1>8, <2>1
<1>11. CASE m <= to
  <2>0. /\ 1 + m \in Nat /\ store.log.lo <= 1 + m /\ to \in Nat
        /\ 1 + m <= to + 1 /\ to <= Last
    BY <1>2, <1>3, <1>4, <1>5, <1>11
  <2>1. /\ LogSize(1 + m, last) = Sum(g, (1 + m)..to) + LogSize(to + 1, last)
        /\ Sum(g, (1 + m)..to) \in Nat /\ LogSize(to + 1, last) \in Nat
    BY <1>2, <2>0, LogSizeCut
  <2>2. MaybeReduce(es) = LogSize(to + 1, last)
    <3> HIDE DEF g
    <3> QED
      BY <1>4, <1>10, <2>1 DEF MaybeReduce
  <2>3. to + 1 = 1 + (IF tail > to THEN tail ELSE to)
    BY <1>3, <1>4, <1>11
  <2> QED
    BY <1>1, <1>2, <2>2, <2>3
<1>12. CASE to < m
  <2>1. (1 + m)..to = {}
    BY <1>3, <1>4, <1>12
  <2>2. OwnSize(es) = 0
    BY <1>10, <2>1, FS_EmptySet, SumStep
  <2>3. MaybeReduce(es) = LogSize(1 + m, last)
    BY <1>4, <2>2 DEF MaybeReduce
  <2>4. m = (IF tail > to THEN tail ELSE to)
    BY <1>3, <1>4, <1>12
  <2> QED
    BY <1>1, <1>2, <2>3, <2>4
<1> QED
  BY <1>3, <1>4, <1>11, <1>12

\* The watermarks this is about.
SettledWatermarks ==
    /\ commit_since_index \in Nat /\ Last \in Nat /\ store.log.lo \in Nat
    /\ last_log_tail_index \in Nat
    /\ store.log.lo <= commit_since_index + 1

\* They are in order wherever the invariant holds.
LEMMA SettledWatermarksHold == IInv => SettledWatermarks
<1> SUFFICES ASSUME IInv PROVE SettledWatermarks
  OBVIOUS
<1>1. /\ commit_since_index \in Nat /\ Last \in Nat /\ store.log.lo \in Nat
      /\ last_log_tail_index \in Nat /\ Len(sm) \in Nat
  BY Numbers DEF IInv, StateTypes, RaftTypes
<1> QED
  BY <1>1, Order DEF SettledWatermarks

\* So they are after a step.
LEMMA SettledAfter ==
    ASSUME IInv'
    PROVE  /\ commit_since_index' \in Nat /\ Last' \in Nat /\ store'.log.lo \in Nat
           /\ last_log_tail_index' \in Nat
           /\ store'.log.lo <= commit_since_index' + 1
<1>1. SettledWatermarks'
  BY SettledWatermarksHold, PTL
<1> QED
  BY <1>1 DEF SettledWatermarks

\* The accounting after a step.
LEMMA AccountingAfter ==
    UncommittedAccounting' <=>
        (state' = "Leader" => uncommitted_size' = LogSize(1 + Settled, Last)')
BY Zenon DEF UncommittedAccounting, LogSize, Sizes, Sum, Settled

\* The size of entries that a step keeps.
LEMMA SizeKept ==
    ASSUME NEW a \in Nat, NEW b \in Nat,
           \A i \in a..b : LogEntry(store', unstable', i) = LogEntry(store, unstable, i)
    PROVE  LogSize(a, b)' = LogSize(a, b)
<1>1. Sizes(a, b)' = Sizes(a, b)
  BY DEF Sizes
<1> QED
  BY <1>1 DEF LogSize

\* So much is handed out, and the accounting goes on.
LEMMA SizesHanded ==
    ASSUME IInv, IInv', SizesOK, LogKept,
           state' = state, last_log_tail_index' = last_log_tail_index,
           uncommitted_size' \in Nat,
           state = "Leader" => uncommitted_size' =
              LogSize(1 + (IF last_log_tail_index > commit_since_index'
                           THEN last_log_tail_index ELSE commit_since_index'), Last)
    PROVE  SizesOK'
<1>1. CASE state # "Leader"
  BY <1>1 DEF SizesOK, UncommittedAccounting
<1>2. CASE state = "Leader"
  <2>1. PICK m, last : m = Settled' /\ last = Last
    OBVIOUS
  <2>2. m = (IF last_log_tail_index > commit_since_index'
             THEN last_log_tail_index ELSE commit_since_index')
    BY <2>1 DEF Settled
  <2>3. /\ m \in Nat /\ last \in Nat /\ store'.log.lo \in Nat /\ store'.log.lo <= 1 + m
        /\ Last' = last
    <3>1. Last' = last
      BY <2>1 DEF LogKept
    <3> QED
      BY <2>2, <3>1, SettledAfter
  <2>4. LogSize(1 + m, last)' = LogSize(1 + m, last)
    <3>1. \A i \in (1 + m)..last : i \in store'.log.lo..last
      BY <2>3
    <3>2. \A i \in (1 + m)..last :
             LogEntry(store', unstable', i) = LogEntry(store, unstable, i)
      BY <2>1, <3>1 DEF LogKept
    <3> QED
      BY <2>3, <3>2, SizeKept
  <2>5. uncommitted_size' = LogSize(1 + m, last)
    BY <1>2, <2>1, <2>2
  <2>6. LogSize(1 + Settled, Last)' = LogSize(1 + m, last)'
    BY <2>1, <2>3 DEF LogSize, Sizes
  <2>7. UncommittedAccounting'
    <3>1. uncommitted_size' = LogSize(1 + Settled, Last)'
      BY <2>4, <2>5, <2>6
    <3> QED
      BY <3>1, AccountingAfter
  <2>8. last_log_tail_index' <= Last'
    BY <1>2 DEF SizesOK, LogKept
  <2> QED
    BY <2>7, <2>8 DEF SizesOK
<1> QED
  BY <1>1, <1>2

\* A step that keeps the log and the counters keeps the accounting.
LEMMA SizesKept ==
    ASSUME IInv, IInv', SizesOK, LogKept, state' = state,
           UNCHANGED <<uncommitted_size, last_log_tail_index, commit_since_index>>
    PROVE  SizesOK'
<1>1. uncommitted_size' \in Nat
  BY DEF SizesOK
<1>2. state = "Leader" => uncommitted_size' = LogSize(1 + Settled, Last)
  BY SettledIs
<1> QED
  BY <1>1, <1>2, SizesHanded DEF Settled

\* An appended entry adds its size.
LEMMA AppendedSize ==
    ASSUME IInv, IInv', NEW e \in Entry, LogAppended(e),
           NEW a \in Nat, store.log.lo <= a, a <= Last + 1, NEW c, c = Last + 1
    PROVE  LogSize(a, c)' = LogSize(a, Last) + e.size
<1>1. PICK last : last = Last
  OBVIOUS
<1>2. /\ last \in Nat /\ c = last + 1 /\ store.log.lo \in Nat
      /\ store'.log.lo = store.log.lo /\ Last' = c
      /\ \A i \in store.log.lo..last :
            LogEntry(store', unstable', i) = LogEntry(store, unstable, i)
      /\ LogEntry(store', unstable', c) = e
  BY <1>1, Numbers DEF IInv, LogAppended
<1>3. PICK g : g = Sizes(a, c)'
  OBVIOUS
<1>4. g = [i \in a..c |-> LogEntry(store', unstable', i).size]
  BY <1>3 DEF Sizes
<1>5. \A i \in a..last : g[i] = Sizes(a, last)[i] /\ g[i] \in Nat
  <2>1. ASSUME NEW i \in a..last PROVE g[i] = Sizes(a, last)[i]
    <3>1. i \in store.log.lo..last /\ i \in a..c
      BY <1>1, <1>2
    <3> QED
      BY <1>2, <1>4, <3>1 DEF Sizes
  <2> QED
    BY <1>1, <2>1, SizesType
<1>6. g[c] = e.size /\ e.size \in Nat
  BY <1>1, <1>2, <1>4 DEF Entry
<1>7. \A i \in a..c : g[i] \in Nat
  BY <1>2, <1>5, <1>6
<1>8. /\ c \in a..c /\ (a..c) \ {c} = a..last
      /\ IsFiniteSet(a..c) /\ IsFiniteSet(a..last)
  <2>1. c \in Nat /\ last \in Nat /\ c = last + 1 /\ a <= c
    BY <1>1, <1>2
  <2>2. c \in a..c /\ (a..c) \ {c} = a..last
    BY <2>1
  <2>3. c \in Int /\ last \in Int /\ a \in Int
    BY <2>1
  <2>4. IsFiniteSet(a..c) /\ IsFiniteSet(a..last)
    BY <2>3, FS_Interval
  <2> QED
    BY <2>2, <2>4
<1>9. Sum(g, a..c) = g[c] + Sum(g, a..last)
  <2>1. PICK S, x : S = a..c /\ x = c
    OBVIOUS
  <2>2. IsFiniteSet(S) /\ x \in S /\ \A y \in S : g[y] \in Nat
    BY <1>7, <1>8, <2>1
  <2>3. Sum(g, S) = g[x] + Sum(g, S \ {x})
    BY <2>2, SumWithout
  <2> QED
    BY <1>8, <2>1, <2>3
<1>10. Sum(g, a..last) = LogSize(a, last)
  <2>1. PICK S, h : S = a..last /\ h = Sizes(a, last)
    OBVIOUS
  <2>2. IsFiniteSet(S) /\ \A x \in S : g[x] = h[x]
    BY <1>5, <1>8, <2>1
  <2>3. Sum(g, S) = Sum(h, S)
    BY <2>2, SumSame
  <2> QED
    BY <2>1, <2>3 DEF LogSize
<1>11. LogSize(a, last) \in Nat
  <2>1. \A i \in a..last : Sizes(a, last)[i] \in Nat
    BY <1>1, SizesType
  <2> QED
    BY <1>8, <2>1, SumType DEF LogSize
<1>12. LogSize(a, c)' = Sum(g, a..c)
  BY <1>3 DEF LogSize
<1> QED
  BY <1>1, <1>6, <1>9, <1>10, <1>11, <1>12

\* A size is a number.
LEMMA LogSizeType ==
    ASSUME IInv, NEW a \in Nat, store.log.lo <= a
    PROVE  LogSize(a, Last) \in Nat
<1>1. PICK g, last : g = Sizes(a, last) /\ last = Last
  OBVIOUS
<1>2. last \in Nat /\ IsFiniteSet(a..last)
  BY <1>1, Numbers, FS_Interval DEF IInv
<1>3. \A i \in a..last : g[i] \in Nat
  BY <1>1, SizesType
<1>4. Sum(g, a..last) \in Nat
  BY <1>2, <1>3, SumType
<1> QED
  BY <1>1, <1>4 DEF LogSize

\* A Ready or LightReady takes what it hands out off the size.
LEMMA SizesHandOut ==
    ASSUME IInv, IInv', SizesOK, LogKept,
           NEW un, un.lo \in Nat, NEW com \in Nat, NEW per \in Nat,
           per < un.lo, per <= disk.log.hi,
           commit_since_index <= per, commit_since_index <= com,
           NEW to \in DeliverTo(store, com, per),
           commit_since_index' = to, state' = state,
           last_log_tail_index' = last_log_tail_index,
           uncommitted_size' = MaybeReduce(Delivered(store, un, to))
    PROVE  SizesOK'
<1>1. CASE state # "Leader"
  <2>1. uncommitted_size' = uncommitted_size
    BY <1>1 DEF MaybeReduce
  <2> QED
    BY <1>1, <2>1, SizesHanded DEF SizesOK
<1>2. CASE state = "Leader"
  <2>1. PICK m : m = (IF last_log_tail_index > to THEN last_log_tail_index ELSE to)
    OBVIOUS
  <2>2. uncommitted_size' = LogSize(1 + m, Last)
    BY <1>2, <2>1, HandedSize
  <2>3. m \in Nat /\ store.log.lo <= 1 + m
    <3>1. to \in Nat /\ commit_since_index <= to
      BY HandedEntries
    <3>2. SettledWatermarks
      BY SettledWatermarksHold
    <3> QED
      BY <2>1, <3>1, <3>2 DEF SettledWatermarks
  <2>4. uncommitted_size' \in Nat
    BY <2>2, <2>3, LogSizeType
  <2> QED
    BY <2>1, <2>2, <2>4, SizesHanded
<1> QED
  BY <1>1, <1>2

\* A Ready does.
LEMMA GetReadySizes ==
    ASSUME IInv, IInv', SizesOK, GetReady
    PROVE  SizesOK'
<1>1. PICK to \in DeliverTo(store, committed, persisted) :
         /\ uncommitted_size' = MaybeReduce(Delivered(store, unstable, to))
         /\ commit_since_index' = to
  BY DEF GetReady
<1>2. LogKept /\ state' = state /\ last_log_tail_index' = last_log_tail_index
  <2>1. Ordinary
    BY GetReadyQuiet, QuietIsOrdinary
  <2> QED
    BY <2>1 DEF Ordinary, GetReady
<1>3. /\ unstable.lo \in Nat /\ committed \in Nat /\ persisted \in Nat
      /\ persisted < unstable.lo /\ persisted <= disk.log.hi
      /\ commit_since_index <= persisted /\ commit_since_index <= committed
  BY Numbers, Order DEF IInv
<1> QED
  BY <1>1, <1>2, <1>3, SizesHandOut

\* So does the LightReady of advance_append, with what that has persisted and committed.
LEMMA AdvanceAppendSizes ==
    ASSUME SaveLightCommit, IInv, IInv', SizesOK, NEW apply \in BOOLEAN, AdvanceAppend(apply)
    PROVE  SizesOK'
<1>1. PICK un, n : un = UnstableAfterCommitReady /\ n = max_number
  OBVIOUS
<1>2. PICK per, com : per = PersistedAfter(n, un) /\ com = CommittedAfter(n, un)
  OBVIOUS
<1>3. PICK to \in DeliverTo(store, com, per) :
         /\ uncommitted_size' = MaybeReduce(Delivered(store, un, to))
         /\ commit_since_index' = to
  BY <1>1, <1>2 DEF AdvanceAppend
<1>4. LogKept /\ state' = state /\ last_log_tail_index' = last_log_tail_index
  <2>1. Ordinary
    BY AppendStep
  <2> QED
    BY <2>1 DEF Ordinary, AdvanceAppend
<1>5. stage = "written" /\ n \in Nat /\ n <= durable_number /\ durable_number \in Nat
  BY <1>1, Numbers DEF IInv, AdvanceAppend
<1>6. un.lo = store.log.hi + 1
  BY <1>1, <1>5, CommitReady
<1>7. /\ store.log.hi \in Nat /\ disk.log.hi \in Nat /\ disk.log.hi <= store.log.hi
      /\ persisted \in Nat /\ committed \in Nat /\ commit_since_index \in Nat
      /\ commit_since_index <= persisted /\ commit_since_index <= committed
  BY Numbers, Order DEF IInv
<1>8. per \in Nat /\ persisted <= per /\ per <= disk.log.hi
  BY <1>2, <1>5, PersistBounds
<1>9. com \in Nat /\ committed <= com
  BY <1>2, <1>5, CommitBounds
<1>10. /\ un.lo \in Nat /\ per < un.lo
       /\ commit_since_index <= per /\ commit_since_index <= com
  BY <1>6, <1>7, <1>8, <1>9
<1> QED
  BY <1>3, <1>4, <1>8, <1>9, <1>10, SizesHandOut

\* A proposal that is accepted adds its size.
LEMMA ProposeSizes ==
    ASSUME IInv, IInv', SizesOK, NEW p \in Proposals, Propose(p)
    PROVE  SizesOK'
<1>1. PICK e : e = ProposedEntry(p)
  OBVIOUS
<1>2. /\ store' = store /\ stage = "idle" /\ state = "Leader" /\ state' = state
      /\ last_log_tail_index' = last_log_tail_index
      /\ commit_since_index' = commit_since_index
      /\ \/ /\ uncommitted_size' = uncommitted_size + e.size
            /\ unstable' = TruncateAndAppend(unstable, Single(Last + 1, e))
         \/ UNCHANGED <<uncommitted_size, unstable>>
  BY <1>1 DEF Propose, nodeVars
<1>3. CASE UNCHANGED <<uncommitted_size, unstable>>
  BY <1>2, <1>3, KeptBySame, SizesKept
<1>4. CASE /\ uncommitted_size' = uncommitted_size + e.size
           /\ unstable' = TruncateAndAppend(unstable, Single(Last + 1, e))
  <2>1. e \in Entry
    <3>1. p.type \in {"normal", "conf"} /\ p.size \in Nat /\ term \in Nat
      BY NodeAssumption DEF IInv, StateTypes, RaftTypes
    <3> QED
      BY <1>1, <3>1 DEF ProposedEntry, Entry
  <2>2. LogAppended(e)
    BY <1>2, <1>4, <2>1, AppendedByCall
  <2>3. PICK m, c : m = Settled /\ c = Last + 1
    OBVIOUS
  <2>4. /\ m \in Nat /\ Last \in Nat /\ m <= Last /\ store.log.lo <= m + 1
        /\ store.log.lo \in Nat /\ last_log_tail_index \in Nat /\ last_log_tail_index <= m
        /\ uncommitted_size \in Nat
        /\ uncommitted_size = LogSize(1 + m, Last)
    BY <1>2, <2>3, SettledIs
  <2>5. LogSize(1 + m, c)' = LogSize(1 + m, Last) + e.size
    <3>1. 1 + m \in Nat /\ store.log.lo <= 1 + m /\ 1 + m <= Last + 1
      BY <2>4
    <3> QED
      BY <2>1, <2>2, <2>3, <3>1, AppendedSize
  <2>6. Last' = c /\ Settled' = m
    BY <1>2, <2>2, <2>3 DEF LogAppended, Settled
  <2>7. LogSize(1 + Settled, Last)' = LogSize(1 + m, c)'
    BY <2>6 DEF LogSize, Sizes
  <2>8. UncommittedAccounting'
    BY <1>4, <2>4, <2>5, <2>7, AccountingAfter
  <2>9. uncommitted_size' \in Nat /\ last_log_tail_index' <= Last'
    BY <1>2, <1>4, <2>1, <2>3, <2>4, <2>6 DEF Entry
  <2> QED
    BY <2>8, <2>9 DEF SizesOK
<1> QED
  BY <1>2, <1>3, <1>4

\* A new leader starts to count behind its log, and its empty entry counts nothing.
LEMMA HupSizes ==
    ASSUME IInv, IInv', SizesOK, Hup
    PROVE  SizesOK'
<1>1. PICK e : e = [term |-> term + 1, type |-> "normal", size |-> 0]
  OBVIOUS
<1>2. /\ store' = store /\ stage = "idle" /\ uncommitted_size' = 0
      /\ last_log_tail_index' = Last /\ commit_since_index' = commit_since_index
      /\ unstable' = TruncateAndAppend(unstable, Single(Last + 1, e))
  BY <1>1 DEF Hup, nodeVars
<1>3. term \in Nat /\ e \in Entry
  <2>1. term \in Nat
    BY Numbers DEF IInv
  <2> QED
    BY <1>1, <2>1 DEF Entry
<1>4. LogAppended(e)
  BY <1>2, <1>3, AppendedByCall
<1>5. PICK last, c : last = Last /\ c = Last + 1
  OBVIOUS
<1>6. /\ last \in Nat /\ store.log.lo \in Nat /\ store.log.hi \in Nat
      /\ store.log.lo <= store.log.hi + 1 /\ store.log.hi <= last
      /\ commit_since_index \in Nat /\ commit_since_index <= last
  <2>1. /\ last \in Nat /\ store.log.lo \in Nat /\ store.log.hi \in Nat
        /\ store.log.lo <= store.log.hi + 1 /\ committed \in Nat
        /\ commit_since_index \in Nat
    BY <1>5, Numbers DEF IInv
  <2>2. store.log.hi <= last /\ commit_since_index <= committed /\ committed <= last
    BY <1>5, Order
  <2> QED
    BY <2>1, <2>2
<1>7. LogSize(1 + last, c)' = LogSize(1 + last, last) + e.size
  <2>1. 1 + last \in Nat /\ store.log.lo <= 1 + last /\ 1 + last <= Last + 1
    BY <1>5, <1>6
  <2> QED
    BY <1>3, <1>4, <1>5, <2>1, AppendedSize
<1>8. LogSize(1 + last, last) = 0
  <2>1. (1 + last)..last = {}
    BY <1>6
  <2> QED
    BY <2>1, FS_EmptySet, SumStep DEF LogSize
<1>9. Last' = c /\ Settled' = last
  BY <1>2, <1>4, <1>5, <1>6 DEF LogAppended, Settled
<1>10. LogSize(1 + Settled, Last)' = LogSize(1 + last, c)'
  BY <1>9 DEF LogSize, Sizes
<1>11. e.size = 0
  BY <1>1
<1>12. UncommittedAccounting'
  BY <1>2, <1>7, <1>8, <1>10, <1>11, AccountingAfter
<1>13. last_log_tail_index' <= Last'
  BY <1>2, <1>5, <1>6, <1>9
<1> QED
  BY <1>2, <1>12, <1>13 DEF SizesOK

\* Every step keeps the accounting.
LEMMA SizesStep ==
    ASSUME SaveLightCommit, IInv, IInv', SizesOK, [Next]_vars
    PROVE  SizesOK'
<1> DEFINE Counters == <<uncommitted_size, last_log_tail_index, commit_since_index>>
<1>1. CASE UNCHANGED vars
  <2>1. /\ store' = store /\ unstable' = unstable /\ state' = state
        /\ UNCHANGED Counters
    BY <1>1 DEF vars, logVars, raftVars, nodeVars
  <2> QED
    BY <2>1, KeptBySame, SizesKept
<1>2. CASE Hup
  BY <1>2, HupSizes
<1>3. CASE BootStrap
  <2>1. state' = state /\ UNCHANGED Counters
    BY <1>3 DEF BootStrap
  <2>2. state = "Follower"
    BY <1>3 DEF BootStrap, IInv, FollowerLog
  <2> QED
    BY <2>1, <2>2 DEF SizesOK, UncommittedAccounting
<1>4. ASSUME NEW p \in Proposals, Propose(p)
      PROVE  SizesOK'
  BY <1>4, ProposeSizes
<1>5. CASE ReadIndex
  <2>1. UNCHANGED Counters
    BY <1>5 DEF ReadIndex, nodeVars
  <2> QED
    BY <1>5, <2>1, ReadIndexQuiet, QuietIsOrdinary, SizesKept DEF Ordinary
<1>6. CASE GetReady
  BY <1>6, GetReadySizes
<1>7. ASSUME NEW apply \in BOOLEAN, AdvanceAppend(apply)
      PROVE  SizesOK'
  BY <1>7, AdvanceAppendSizes
<1>8. CASE AdvanceAppendAsync
  <2>1. UNCHANGED Counters
    BY <1>8 DEF AdvanceAppendAsync, raftVars
  <2> QED
    BY <1>8, <2>1, AsyncStep, SizesKept DEF Ordinary
<1>9. CASE AdvanceApply
  <2>1. UNCHANGED Counters
    BY <1>9 DEF AdvanceApply, raftVars, nodeVars
  <2> QED
    BY <1>9, <2>1, AdvanceApplyQuiet, QuietIsOrdinary, SizesKept DEF Ordinary
<1>10. CASE WriteEntries \/ WriteHardState \/ WriteCommit \/ Compact
  <2>1. UNCHANGED Counters
    BY <1>10 DEF WriteEntries, WriteHardState, WriteCommit, Compact, raftVars, nodeVars
  <2> QED
    BY <1>10, <2>1, WriteSteps, SizesKept DEF Ordinary
<1>11. CASE Sync
  <2>1. UNCHANGED Counters
    BY <1>11 DEF Sync, raftVars, nodeVars
  <2> QED
    BY <1>11, <2>1, SyncQuiet, QuietIsOrdinary, SizesKept DEF Ordinary
<1>12. CASE ApplyEntry \/ \E n \in 1..MaxReady : OnPersistReady(n)
  <2>1. UNCHANGED Counters
    BY <1>12 DEF ApplyEntry, OnPersistReady, raftVars, nodeVars
  <2> QED
    BY <1>12, <2>1, CommitSteps, SizesKept DEF Ordinary
<1>13. CASE CrashRestart
  <2>1. state' = "Follower" /\ uncommitted_size' = 0
    BY <1>13 DEF CrashRestart
  <2> QED
    BY <2>1 DEF SizesOK, UncommittedAccounting
<1> QED
  BY <1>1, <1>2, <1>3, <1>4, <1>5, <1>6, <1>7, <1>8, <1>9, <1>10, <1>11, <1>12, <1>13
     DEF Next

\* The accounting holds for ever.
THEOREM SizesInvariance ==
    ASSUME SaveLightCommit
    PROVE  Spec => []SizesOK
<1>1. Init => SizesOK
  <2>1. SUFFICES ASSUME Init PROVE SizesOK
    OBVIOUS
  <2>2. state = "Follower" /\ uncommitted_size = 0
    BY <2>1 DEF Init
  <2> QED
    BY <2>2 DEF SizesOK, UncommittedAccounting
<1>2. IInv /\ IInv' /\ SizesOK /\ [Next]_vars => SizesOK'
  BY SizesStep
<1> QED
  BY <1>1, <1>2, Invariance, PTL DEF Spec

\* A leader's uncommitted_size, from which proposals are refused, is at all times the
\* size of what it has appended in its term and not handed out: MaybeReduce neither takes
\* off entries of earlier leaders nor forgets or repeats one of its own, whatever the
\* application persists late.
THEOREM AccountingHolds ==
    ASSUME SaveLightCommit
    PROVE  Spec => []UncommittedAccounting
<1>1. SizesOK => UncommittedAccounting
  BY DEF SizesOK
<1> QED
  BY <1>1, SizesInvariance, PTL

\* The variables have their types, and uncommitted_size, a usize, never underflows.
THEOREM TypesHold ==
    ASSUME SaveLightCommit
    PROVE  Spec => []TypeOK
<1>1. IInv /\ SizesOK => TypeOK
  BY DEF IInv, SizesOK, TypeOK
<1> QED
  BY <1>1, Invariance, SizesInvariance, PTL

-----------------------------------------------------------------------------
\* The refinement of DurableLog

\* The decided entries: those on a disk, and before them those a state machine took.
DecidedLog(d, s) ==
    [i \in 1..d.log.hi |-> IF i < d.log.lo THEN s[i].entry ELSE d.log.ent[i]]

\* They form a sequence.
LEMMA DecidedIsSequence ==
    ASSUME NEW d, NEW s, d.log.hi \in Nat
    PROVE  /\ Len(DecidedLog(d, s)) = d.log.hi
           /\ DecidedLog(d, s) \in Seq({DecidedLog(d, s)[i] : i \in 1..d.log.hi})
<1>1. PICK n \in Nat : n = d.log.hi
  OBVIOUS
<1>2. PICK f : f = DecidedLog(d, s)
  OBVIOUS
<1>3. PICK S : S = {f[i] : i \in 1..n}
  OBVIOUS
<1>4. f \in [1..n -> S]
  BY <1>1, <1>2, <1>3 DEF DecidedLog
<1>5. f \in Seq(S)
  BY <1>4, SeqDef
<1>6. Len(f) = n
  BY <1>4, <1>5, LenProperties
<1> QED
  BY <1>1, <1>2, <1>3, <1>5, <1>6

\* Two sequences with the same entries up to the length of the first.
LEMMA Extension ==
    ASSUME NEW S, NEW T, NEW s \in Seq(S), NEW t \in Seq(T), Len(s) <= Len(t),
           \A i \in 1..Len(s) : s[i] = t[i]
    PROVE  s = t \/ Abstract!IsStrictPrefix(s, t)
<1>1. SubSeq(s, 1, Len(s)) = SubSeq(t, 1, Len(s))
  OBVIOUS
<1> QED
  BY <1>1 DEF Abstract!IsStrictPrefix, Abstract!IsPrefix

\* What the application applies is decided already.
LEMMA TakenIsDecided ==
    ASSUME SaveLightCommit, IInv, ApplyEntry
    PROVE  /\ DecidedLog(disk', sm') = DecidedLog(disk, sm)
           /\ Len(sm') = Len(sm) + 1
           /\ Len(sm) < disk.log.hi
           /\ read_index' = read_index
<1>1. /\ disk.log.lo \in Nat /\ disk.log.hi \in Nat /\ Len(sm) \in Nat /\ Len(inbox) \in Nat
      /\ disk.log.lo <= Len(sm) + 1
  BY Numbers DEF IInv, HandedOutIsDurable
<1>2. sm \in Seq(AppEntry) /\ inbox \in Seq(AppEntry) /\ inbox # <<>>
  BY DEF IInv, StateTypes, AppTypes, ApplyEntry
<1>3. disk' = disk /\ sm' = Append(sm, Head(inbox)) /\ read_index' = read_index
  BY DEF ApplyEntry
<1>4. Len(inbox) >= 1 /\ Head(inbox) = inbox[1] /\ Head(inbox) \in AppEntry
  BY <1>2
<1>5. Len(sm) < disk.log.hi
  BY <1>1, <1>4 DEF IInv, InOrder, HandedOutIsDurable
<1>6. Len(sm') = Len(sm) + 1 /\ \A i \in 1..Len(sm) : sm'[i] = sm[i]
  BY <1>2, <1>3, <1>4
<1>7. \A i \in 1..disk.log.hi : i < disk.log.lo => sm'[i] = sm[i]
  BY <1>1, <1>6
<1>8. DecidedLog(disk, sm') = DecidedLog(disk, sm)
  BY <1>1, <1>7 DEF DecidedLog
<1> QED
  BY <1>3, <1>5, <1>6, <1>8

\* What is written to disk extends it: what is compacted was taken.
LEMMA SyncDecides ==
    ASSUME SaveLightCommit, IInv, Sync
    PROVE  /\ DecidedLog(disk', sm') = DecidedLog(disk, sm)
                \/ Abstract!IsStrictPrefix(DecidedLog(disk, sm), DecidedLog(disk', sm'))
           /\ sm' = sm /\ read_index' = read_index
<1>1. /\ disk.log.lo \in Nat /\ disk.log.hi \in Nat /\ Len(sm) \in Nat
      /\ store.log.lo \in Nat /\ store.log.hi \in Nat /\ disk.log.hi <= store.log.hi
      /\ disk.log.lo <= store.log.lo /\ store.log.lo <= Len(sm) + 1
  BY Numbers, Order DEF IInv
<1>2. disk' = store /\ sm' = sm /\ read_index' = read_index
  BY DEF Sync
<1>3. PICK old : old = DecidedLog(disk, sm)
  OBVIOUS
<1>4. PICK new : new = DecidedLog(store, sm)
  OBVIOUS
<1>5. /\ Len(old) = disk.log.hi /\ Len(new) = store.log.hi
      /\ \E S : old \in Seq(S)
      /\ \E S : new \in Seq(S)
  BY <1>1, <1>3, <1>4, DecidedIsSequence
<1>6. \A i \in 1..Len(old) : old[i] = new[i]
  <2> TAKE i \in 1..Len(old)
  <2>0. i \in Nat /\ i \in 1..disk.log.hi /\ i \in 1..store.log.hi
    <3>1. Len(old) = disk.log.hi /\ i \in 1..Len(old)
      BY <1>5
    <3> QED
      BY <1>1, <3>1
  <2>1. /\ i \in Nat /\ i \in 1..disk.log.hi /\ i \in 1..store.log.hi
        /\ old[i] = IF i < disk.log.lo THEN sm[i].entry ELSE disk.log.ent[i]
        /\ new[i] = IF i < store.log.lo THEN sm[i].entry ELSE store.log.ent[i]
    BY <1>3, <1>4, <2>0 DEF DecidedLog
  <2>2. CASE i < disk.log.lo
    BY <1>1, <2>1, <2>2
  <2>3. CASE disk.log.lo <= i /\ i < store.log.lo
    <3>1. i \in 1..Len(sm)
      BY <1>1, <2>1, <2>3
    <3>2. sm[i].index = i
      BY <3>1 DEF IInv, InOrder
    <3>3. disk.log.ent[i] = sm[i].entry
      BY <2>3, <3>1, <3>2 DEF IInv, HandedOutIsDurable
    <3> QED
      BY <1>1, <2>1, <2>3, <3>3
  <2>4. CASE store.log.lo <= i
    <3>1. disk.log.ent[i] = store.log.ent[i]
      BY <1>1, <2>1, <2>4 DEF IInv, DiskBehind
    <3> QED
      BY <1>1, <2>1, <2>4, <3>1
  <2> QED
    BY <1>1, <2>1, <2>2, <2>3, <2>4
<1>7. old = new \/ Abstract!IsStrictPrefix(old, new)
  BY <1>1, <1>5, <1>6, Extension
<1> QED
  BY <1>2, <1>3, <1>4, <1>7

\* A read is at an index that is decided, and covers what was read and taken before.
LEMMA ReadIsDecided ==
    ASSUME IInv, IInv', LogInv, ReadIndex
    PROVE  /\ disk' = disk /\ sm' = sm
           /\ read_index' \in read_index..disk.log.hi
           /\ Len(sm) <= read_index'
<1>1. disk' = disk /\ sm' = sm /\ read_index' = committed
  BY DEF ReadIndex, appVars
<1>2. read_index <= committed /\ committed <= disk.log.hi
  BY ReadGiven DEF LogInv
<1>3. /\ committed \in Nat /\ Len(sm) \in Nat /\ disk.log.hi \in Nat /\ read_index \in Nat
      /\ commit_since_index \in Nat
      /\ Len(sm) <= commit_since_index /\ commit_since_index <= committed
  BY Numbers, Order DEF IInv, StateTypes, AppTypes
<1> QED
  BY <1>1, <1>2, <1>3

\* No other step, a crash least of all, changes what is decided, taken or read.
LEMMA OthersKeepDecided ==
    ASSUME [Next]_vars, ~ReadIndex, ~Sync, ~ApplyEntry
    PROVE  UNCHANGED <<disk, sm, read_index>>
BY DEF Next, vars, Hup, BootStrap, Propose, GetReady, AdvanceAppend, AdvanceAppendAsync,
   OnPersistReady, AdvanceApply, WriteEntries, WriteHardState, WriteCommit, Compact,
   CrashRestart, appVars

\* The pipeline implements the log it promises: a sync decides, the application takes,
\* a read reads, and everything else stutters.
THEOREM DurableLogRefinement ==
    ASSUME SaveLightCommit
    PROVE  Spec => ImplementsDurableLog
<1>1. Init => Abstract!DInit
  <2> SUFFICES ASSUME Init
               PROVE  Abstract!DInit
    OBVIOUS
  <2>1. disk.log.hi = 0 /\ sm = <<>> /\ read_index = 0
    BY DEF Init, NewStorage, EmptyAt
  <2> QED
    BY <2>1 DEF Abstract!DInit
<1>2. IInv /\ IInv' /\ LogInv /\ [Next]_vars => [Abstract!DNext]_Abstract!dvars
  <2> SUFFICES ASSUME IInv, IInv', LogInv, [Next]_vars
               PROVE  [Abstract!DNext]_Abstract!dvars
    OBVIOUS
  <2>1. Len(DecidedLog(disk, sm)) = disk.log.hi
    BY Numbers, DecidedIsSequence DEF IInv
  <2>2. CASE ReadIndex
    <3>1. Abstract!Read
      BY <2>1, <2>2, ReadIsDecided DEF DecidedLog, Abstract!Read
    <3> QED
      BY <3>1 DEF Abstract!DNext
  <2>3. CASE Sync
    <3>1. Abstract!Decide \/ UNCHANGED Abstract!dvars
      BY <2>3, SyncDecides DEF DecidedLog, Abstract!Decide, Abstract!dvars
    <3> QED
      BY <3>1 DEF Abstract!DNext
  <2>4. CASE ApplyEntry
    <3>1. Abstract!Take
      BY <2>1, <2>4, TakenIsDecided DEF DecidedLog, Abstract!Take
    <3> QED
      BY <3>1 DEF Abstract!DNext
  <2>5. CASE ~ReadIndex /\ ~Sync /\ ~ApplyEntry
    <3>1. UNCHANGED <<disk, sm, read_index>>
      BY <2>5, OthersKeepDecided
    <3> QED
      BY <3>1 DEF Abstract!dvars
  <2> QED
    BY <2>2, <2>3, <2>4, <2>5
<1> QED
  BY <1>1, <1>2, Invariance, LogInvariance, PTL DEF Spec, ImplementsDurableLog, Abstract!DSpec

-----------------------------------------------------------------------------
\* AsyncNode, the task that owns a RawNode

CONSTANTS Caller, Repairs, Kinds, MaxMade
VARIABLES repaired, ch, raft, run, call, app, given

Async == INSTANCE AsyncNode

\* The defects the loop cannot do without: all but what makes callers wait.
LoopDefects == {"ready_switch", "overwrite", "accept_ready", "light_ready", "advance",
                "conf_change"}

Outputs == [id : Nat, kind : Kinds]
Readies == [number : Nat, outputs : SUBSET Outputs]
RaftNodes == [made : Nat, out : SUBSET Outputs, leader : BOOLEAN, ss : BOOLEAN,
              hs : BOOLEAN, number : Nat, records : Seq(Nat)]
Locals == [pc : {"select", "conf", "ended", "panicked"}, rd : Readies, ready_on : BOOLEAN,
           propc_on : BOOLEAN, advance_on : BOOLEAN, lead : BOOLEAN]

\* Finitely many outputs, of the first ones that Raft made.
MadeOf(outputs, made) == IsFiniteSet(outputs) /\ \A o \in outputs : o.id \in 1..made

\* How many of the outputs have number i?
Count(outputs, i) == Cardinality(Async!WithId(outputs, i))

\* The outputs that run() holds with locals l, and those in the channels c.
Held(l) == IF l.ready_on THEN l.rd.outputs ELSE {}
Carried(c) == IF c.readyc # <<>> THEN c.readyc[1].outputs ELSE {}

\* Locals l and node n: one Ready is out at most, and RawNode remembers its record.
LoopOK(l, n) ==
    /\ l \in Locals /\ n \in RaftNodes
    /\ n.made <= MaxMade
    /\ MadeOf(n.out, n.made) /\ MadeOf(l.rd.outputs, n.made)
    /\ l.pc # "panicked"
    /\ ~(l.ready_on /\ l.advance_on)
    /\ n.records = IF l.ready_on \/ l.advance_on THEN <<l.rd.number>> ELSE <<>>

\* A Ready that was sent is in its channel, or the application advances, or has
\* answered; a is what the application does.
RoundOK(l, c, a) ==
    /\ c = [x \in Async!Channels |-> c[x]]
    /\ a \in {"ready", "advance"}
    /\ c.advancec \in {<<>>, <<"advance">>}
    /\ ~l.advance_on => c.readyc = <<>> /\ c.advancec = <<>> /\ a = "ready"
    /\ c.readyc # <<>> => c.readyc = <<l.rd>> /\ c.advancec = <<>> /\ a = "ready"
    /\ a = "advance" => c.advancec = <<>>

\* Each output is in one place, or was given to the application; g counts those.
OnceOK(l, n, c, g) ==
    /\ g \in [1..MaxMade -> Nat]
    /\ \A i \in 1..MaxMade :
          g[i] + Count(n.out, i) + Count(Held(l), i) + Count(Carried(c), i)
             = IF i <= n.made THEN 1 ELSE 0

Good(l, n, c, a, g) == LoopOK(l, n) /\ RoundOK(l, c, a) /\ OnceOK(l, n, c, g)

Ops == Async!Operations \cup {"none"}
Calls == [op : Ops, at : {"idle", "send", "conf_state", "stopped", "reply"}]

\* The inductive invariant.
AsyncInv ==
    /\ LoopDefects \subseteq repaired
    /\ Good(run, raft, ch, app, given)
    /\ call \in [Caller -> Calls]

\* Outputs are counted by numbers, none where there are none.
LEMMA CountType ==
    /\ \A outputs, i : IsFiniteSet(outputs) => Count(outputs, i) \in Nat
    /\ \A i : Count({}, i) = 0
<1>1. ASSUME NEW outputs, NEW i, IsFiniteSet(outputs)
      PROVE  Count(outputs, i) \in Nat
  <2>1. IsFiniteSet(Async!WithId(outputs, i))
    BY <1>1, FS_Subset DEF Async!WithId
  <2> QED
    BY <2>1, FS_CardinalityType DEF Count
<1>2. ASSUME NEW i PROVE Count({}, i) = 0
  <2>1. Async!WithId({}, i) = {}
    BY DEF Async!WithId
  <2> QED
    BY <2>1, FS_EmptySet DEF Count
<1> QED
  BY <1>1, <1>2

\* One more output with a number that none had.
LEMMA CountMore ==
    ASSUME NEW outputs, NEW o, IsFiniteSet(outputs), \A x \in outputs : x.id # o.id
    PROVE  /\ Count(outputs \cup {o}, o.id) = 1
           /\ Count(outputs, o.id) = 0
           /\ \A i : i # o.id => Count(outputs \cup {o}, i) = Count(outputs, i)
<1>1. /\ Async!WithId(outputs \cup {o}, o.id) = {o}
      /\ Async!WithId(outputs, o.id) = {}
      /\ \A i : i # o.id => Async!WithId(outputs \cup {o}, i) = Async!WithId(outputs, i)
  BY DEF Async!WithId
<1> QED
  BY <1>1, FS_Singleton, FS_EmptySet DEF Count

\* Raft makes another output, or nothing.
LEMMA MadeMore ==
    ASSUME MaxMade \in Nat, NEW l, NEW n, NEW c, NEW a, NEW g, Good(l, n, c, a, g),
           NEW m \in Async!Steps(n)
    PROVE  Good(l, m, c, a, g)
<1> SUFFICES ASSUME m # n PROVE Good(l, m, c, a, g)
  OBVIOUS
<1>1. n \in RaftNodes /\ n.made \in Nat /\ MadeOf(n.out, n.made) /\ n.made <= MaxMade
  BY DEF Good, LoopOK, RaftNodes
<1>2. n.made # MaxMade /\ \E k \in Kinds, x, v \in BOOLEAN : m = Async!Made(n, k, x, v)
  BY DEF Async!Steps
<1>3. PICK k \in Kinds, x \in BOOLEAN, v \in BOOLEAN : m = Async!Made(n, k, x, v)
  BY <1>2
<1> DEFINE o == [id |-> n.made + 1, kind |-> k]
           y == n.ss \/ x # n.leader
           w == n.hs \/ v
<1>4. /\ m.made = n.made + 1 /\ m.out = n.out \cup {o} /\ m.records = n.records
      /\ o \in Outputs /\ o.id = n.made + 1
      /\ m \in RaftNodes
  <2>1. o \in Outputs /\ o.id = n.made + 1
    BY <1>1 DEF Outputs
  <2>2. y \in BOOLEAN /\ w \in BOOLEAN
    OBVIOUS
  <2>3. m = [n EXCEPT !.made = n.made + 1, !.out = n.out \cup {o}, !.leader = x, !.ss = y,
                      !.hs = w]
    BY <1>1, <1>3, Zenon DEF Async!Made, RaftNodes
  <2> HIDE DEF o, y, w
  <2>4. m.made = n.made + 1 /\ m.out = n.out \cup {o} /\ m.records = n.records
    BY <1>1, <2>3 DEF RaftNodes
  <2>5. n.made + 1 \in Nat /\ n.out \cup {o} \in SUBSET Outputs
    BY <1>1, <2>1 DEF RaftNodes
  <2> QED
    BY <1>1, <2>1, <2>2, <2>3, <2>4, <2>5 DEF RaftNodes
<1> HIDE DEF o
<1>5. IsFiniteSet(n.out) /\ IsFiniteSet(m.out)
  BY <1>1, <1>4, FS_AddElement DEF MadeOf
<1>6. MadeOf(m.out, m.made)
  BY <1>1, <1>4, <1>5 DEF MadeOf
<1>7. MadeOf(l.rd.outputs, m.made)
  BY <1>1, <1>4 DEF Good, LoopOK, MadeOf
<1>8. LoopOK(l, m)
  BY <1>1, <1>2, <1>4, <1>6, <1>7 DEF Good, LoopOK
<1>9. \A x2 \in n.out : x2.id # o.id
  BY <1>1, <1>4 DEF MadeOf
<1>10. OnceOK(l, m, c, g)
  <2> SUFFICES ASSUME NEW i \in 1..MaxMade
               PROVE  g[i] + Count(m.out, i) + Count(Held(l), i) + Count(Carried(c), i)
                         = IF i <= m.made THEN 1 ELSE 0
    BY DEF Good, OnceOK
  <2>0. IsFiniteSet(Held(l)) /\ IsFiniteSet(Carried(c))
    BY FS_EmptySet DEF Held, Carried, Good, LoopOK, RoundOK, MadeOf
  <2>1. /\ Count(Held(l), i) \in Nat /\ Count(Carried(c), i) \in Nat /\ g[i] \in Nat
        /\ Count(n.out, i) \in Nat /\ Count(m.out, i) \in Nat
    BY <1>5, <2>0, CountType DEF Good, OnceOK
  <2>2. g[i] + Count(n.out, i) + Count(Held(l), i) + Count(Carried(c), i)
           = IF i <= n.made THEN 1 ELSE 0
    BY DEF Good, OnceOK
  <2>3. /\ Count(m.out, o.id) = 1 /\ Count(n.out, o.id) = 0
        /\ i # o.id => Count(m.out, i) = Count(n.out, i)
    <3>1. /\ Count(n.out \cup {o}, o.id) = 1 /\ Count(n.out, o.id) = 0
          /\ \A j : j # o.id => Count(n.out \cup {o}, j) = Count(n.out, j)
      BY <1>5, <1>9, CountMore
    <3> QED
      BY <1>4, <3>1
  <2>4. CASE i = o.id
    BY <1>1, <1>4, <2>1, <2>2, <2>3, <2>4
  <2>5. CASE i # o.id
    <3>1. i <= n.made <=> i <= m.made
      BY <1>1, <1>4, <2>5
    <3> QED
      BY <2>2, <2>3, <2>5, <3>1
  <2> QED
    BY <2>4, <2>5
<1> QED
  BY <1>8, <1>10 DEF Good

\* The top of the loop takes a Ready when there is none, with all that Raft has
\* for the application, and then there is one.
LEMMA TopKeeps ==
    ASSUME LoopDefects \subseteq repaired,
           NEW l, NEW n, NEW c, NEW a, NEW g, Good(l, n, c, a, g)
    PROVE  Good(Async!Top(l, n)[1], Async!Top(l, n)[2], c, a, g)
<1> DEFINE take == Async!MayTake(l, n)
           m == IF take THEN Async!AfterReady(n) ELSE n
           k == [l EXCEPT !.rd = IF take THEN Async!TakeReady(n) ELSE @,
                          !.ready_on = Async!Switched(l, take)]
           t == Async!Top(l, n)[1]
<1>1. l \in Locals /\ n \in RaftNodes /\ LoopOK(l, n) /\ RoundOK(l, c, a) /\ OnceOK(l, n, c, g)
  BY DEF Good, LoopOK
<1>2. take \in BOOLEAN /\ (take => ~l.advance_on /\ ~l.ready_on)
  BY <1>1 DEF Async!MayTake, Async!Mended, LoopDefects, Locals
<1>3. /\ Async!TakeReady(n) \in Readies
      /\ Async!TakeReady(n).number = n.number + 1 /\ Async!TakeReady(n).outputs = n.out
  BY <1>1 DEF Async!TakeReady, Readies, RaftNodes
<1>4. Async!Top(l, n)[2] = m /\ t = Async!Led(k, m)
  BY DEF Async!Top
<1>5. /\ k \in Locals /\ k.pc = l.pc /\ k.advance_on = l.advance_on
      /\ k.rd = (IF take THEN Async!TakeReady(n) ELSE l.rd)
      /\ k.ready_on = (l.ready_on \/ take)
  <2>1. Async!Switched(l, take) = (l.ready_on \/ take)
    BY <1>1, <1>2 DEF Async!Switched, LoopOK, Locals
  <2> HIDE DEF take
  <2> QED
    BY <1>1, <1>2, <1>3, <2>1 DEF Locals
<1> HIDE DEF k
<1>6. /\ t \in Locals /\ t.pc = l.pc /\ t.advance_on = l.advance_on
      /\ t.rd = k.rd /\ t.ready_on = k.ready_on
  <2>1. m.leader \in BOOLEAN /\ Async!HasReady(m) \in BOOLEAN
    BY <1>1 DEF RaftNodes, Async!HasReady, Async!AfterReady
  <2> HIDE DEF m, t
  <2> QED
    BY <1>4, <1>5, <2>1 DEF Locals, Async!Led
<1> HIDE DEF t
<1>7. CASE take
  <2>1. m = [n EXCEPT !.number = @ + 1, !.out = {}, !.hs = FALSE,
                      !.records = Append(@, n.number + 1)]
    BY <1>7 DEF Async!AfterReady
  <2>2. n.records = <<>>
    BY <1>1, <1>2, <1>7 DEF LoopOK
  <2>3. Append(<<>>, n.number + 1) = <<n.number + 1>>
    OBVIOUS
  <2>4. /\ m \in RaftNodes /\ m.out = {} /\ m.made = n.made /\ m.records = <<n.number + 1>>
    <3>1. n.number + 1 \in Nat
      BY <1>1 DEF RaftNodes
    <3>2. <<n.number + 1>> \in Seq(Nat)
      BY <3>1
    <3> QED
      BY <1>1, <2>1, <2>2, <2>3, <3>1, <3>2 DEF RaftNodes
  <2>5. t.ready_on /\ ~t.advance_on /\ t.rd.number = n.number + 1 /\ t.rd.outputs = n.out
    BY <1>2, <1>3, <1>5, <1>6, <1>7
  <2> HIDE DEF take, m
  <2>6. LoopOK(t, m)
    <3>1. MadeOf({}, n.made)
      BY FS_EmptySet DEF MadeOf
    <3> QED
      BY <1>1, <1>6, <2>4, <2>5, <3>1 DEF LoopOK
  <2>7. RoundOK(t, c, a)
    BY <1>1, <1>2, <1>7, <2>5 DEF RoundOK
  <2>8. OnceOK(t, m, c, g)
    <3> SUFFICES ASSUME NEW i \in 1..MaxMade
                 PROVE  g[i] + Count(m.out, i) + Count(Held(t), i) + Count(Carried(c), i)
                           = IF i <= m.made THEN 1 ELSE 0
      BY <1>1 DEF OnceOK
    <3>1. Held(t) = n.out /\ Held(l) = {} /\ m.out = {}
      BY <1>2, <1>7, <2>4, <2>5 DEF Held
    <3>2. Count({}, i) = 0 /\ Count(n.out, i) \in Nat /\ g[i] \in Nat
      BY <1>1, CountType DEF LoopOK, MadeOf, OnceOK
    <3>3. g[i] + Count(n.out, i) + Count({}, i) + Count(Carried(c), i)
             = IF i <= n.made THEN 1 ELSE 0
      BY <1>1, <3>1 DEF OnceOK
    <3> QED
      BY <2>4, <3>1, <3>2, <3>3
  <2> QED
    BY <1>4, <2>6, <2>7, <2>8 DEF Good, m, t
<1>8. CASE ~take
  <2>1. m = n /\ t.rd = l.rd /\ t.ready_on = l.ready_on
    BY <1>1, <1>5, <1>6, <1>8 DEF Locals
  <2>2. LoopOK(t, n)
    BY <1>1, <1>6, <2>1 DEF LoopOK
  <2>3. RoundOK(t, c, a)
    BY <1>1, <1>6, <2>1 DEF RoundOK
  <2>4. OnceOK(t, n, c, g)
    BY <1>1, <2>1 DEF OnceOK, Held
  <2> QED
    BY <1>4, <2>1, <2>2, <2>3, <2>4 DEF Good, t
<1> QED
  BY <1>2, <1>7, <1>8

\* Another place in the loop.
LEMMA AnotherPlace ==
    ASSUME NEW l, NEW n, NEW c, NEW a, NEW g, Good(l, n, c, a, g),
           NEW x \in {"select", "conf", "ended"}, NEW b \in BOOLEAN,
           NEW k, k = [l EXCEPT !.pc = x, !.propc_on = b]
    PROVE  Good(k, n, c, a, g)
<1>1. l \in Locals
  BY DEF Good, LoopOK
<1>2. /\ k \in Locals /\ k.pc = x /\ k.rd = l.rd /\ k.ready_on = l.ready_on
      /\ k.advance_on = l.advance_on
  BY <1>1 DEF Locals
<1> QED
  BY <1>2 DEF Good, LoopOK, RoundOK, OnceOK, Held

\* What is in the other channels does not matter.
LEMMA AnotherChannel ==
    ASSUME NEW l, NEW n, NEW c, NEW a, NEW g, Good(l, n, c, a, g),
           NEW x, x \notin {"readyc", "advancec"}, NEW y, NEW d, d = [c EXCEPT ![x] = y]
    PROVE  Good(l, n, d, a, g)
<1>1. c = [z \in Async!Channels |-> c[z]] /\ {"readyc", "advancec"} \subseteq Async!Channels
  BY DEF Good, RoundOK, Async!Channels
<1>2. /\ d = [z \in Async!Channels |-> d[z]] /\ d["readyc"] = c["readyc"]
      /\ d["advancec"] = c["advancec"]
  BY <1>1
<1> QED
  BY <1>2 DEF Good, RoundOK, OnceOK, Carried

\* What a channel holds is replaced.
LEMMA ChannelIs ==
    ASSUME NEW c, c = [z \in Async!Channels |-> c[z]], NEW x \in Async!Channels, NEW y,
           NEW d, d = [c EXCEPT ![x] = y]
    PROVE  d = [z \in Async!Channels |-> d[z]] /\ d[x] = y
           /\ \A z \in Async!Channels \ {x} : d[z] = c[z]
OBVIOUS

\* The Ready goes into its channel, and the top of the loop takes none for now.
LEMMA ReadyIsSent ==
    ASSUME LoopDefects \subseteq repaired,
           NEW l, NEW n, NEW c, NEW a, NEW g, Good(l, n, c, a, g),
           l.ready_on, NEW d, d = [c EXCEPT !.readyc = Append(@, l.rd)],
           NEW k, k = [l EXCEPT !.advance_on = TRUE]
    PROVE  LET t == Async!Top(k, Async!Accepted(n, l.rd)) IN Good(t[1], t[2], d, a, g)
<1> DEFINE m == Async!Accepted(n, l.rd)
           h == [k EXCEPT !.ready_on = FALSE]
<1>1. l \in Locals /\ n \in RaftNodes /\ LoopOK(l, n) /\ RoundOK(l, c, a) /\ OnceOK(l, n, c, g)
  BY DEF Good, LoopOK
<1>2. /\ h \in Locals /\ h.pc = l.pc /\ h.rd = l.rd /\ ~h.ready_on /\ h.advance_on
      /\ k \in Locals /\ k.advance_on
  BY <1>1 DEF Locals
<1>3. ~l.advance_on /\ c.readyc = <<>> /\ c.advancec = <<>> /\ a = "ready"
  BY <1>1 DEF LoopOK, RoundOK
<1>4. m \in RaftNodes /\ m.made = n.made /\ m.out = n.out /\ m.records = n.records
  BY <1>1 DEF Async!Accepted, Async!Mended, LoopDefects, RaftNodes
<1>5. d = [z \in Async!Channels |-> d[z]] /\ d.readyc = <<l.rd>> /\ d.advancec = <<>>
  <2>1. Append(c.readyc, l.rd) = <<l.rd>>
    BY <1>3
  <2>2. /\ c = [z \in Async!Channels |-> c[z]]
        /\ "readyc" \in Async!Channels /\ "advancec" \in Async!Channels
    BY <1>1 DEF RoundOK, Async!Channels
  <2> QED
    BY <1>3, <2>1, <2>2, ChannelIs
<1> HIDE DEF m, h
<1>6. LoopOK(h, m)
  BY <1>1, <1>2, <1>4 DEF LoopOK
<1>7. RoundOK(h, d, a)
  BY <1>2, <1>3, <1>5 DEF RoundOK
<1>8. OnceOK(h, m, d, g)
  <2> SUFFICES ASSUME NEW i \in 1..MaxMade
               PROVE  g[i] + Count(m.out, i) + Count(Held(h), i) + Count(Carried(d), i)
                         = IF i <= m.made THEN 1 ELSE 0
    BY <1>1 DEF OnceOK
  <2>1. /\ Held(h) = {} /\ Held(l) = l.rd.outputs
        /\ Carried(c) = {} /\ Carried(d) = l.rd.outputs
    BY <1>2, <1>3, <1>5 DEF Held, Carried
  <2>2. Count({}, i) = 0 /\ Count(l.rd.outputs, i) \in Nat /\ Count(n.out, i) \in Nat /\ g[i] \in Nat
    BY <1>1, CountType DEF LoopOK, MadeOf, OnceOK
  <2>3. g[i] + Count(n.out, i) + Count(l.rd.outputs, i) + Count({}, i)
           = IF i <= n.made THEN 1 ELSE 0
    BY <1>1, <2>1 DEF OnceOK
  <2> QED
    BY <1>4, <2>1, <2>2, <2>3
<1>9. Good(Async!Top(h, m)[1], Async!Top(h, m)[2], d, a, g)
  BY <1>6, <1>7, <1>8, TopKeeps DEF Good
<1>10. Async!Top(k, m) = Async!Top(h, m)
  <2>1. Async!MayTake(k, m) = FALSE /\ Async!MayTake(h, m) = FALSE
    BY <1>2 DEF Async!MayTake
  <2>2. Async!Switched(k, FALSE) = FALSE /\ Async!Switched(h, FALSE) = FALSE
    BY <1>2 DEF Async!Switched
  <2>3. [k EXCEPT !.rd = k.rd, !.ready_on = FALSE] = h /\ [h EXCEPT !.rd = h.rd, !.ready_on = FALSE] = h
    BY <1>2 DEF h, Locals
  <2>4. Async!Top(k, m) = <<Async!Led(h, m), m>>
    BY <2>1, <2>2, <2>3 DEF Async!Top
  <2>5. Async!Top(h, m) = <<Async!Led(h, m), m>>
    BY <2>1, <2>2, <2>3 DEF Async!Top
  <2> QED
    BY <2>4, <2>5
<1> QED
  BY <1>9, <1>10 DEF m

\* The application has applied the Ready: RawNode expects that one, and forgets it.
LEMMA ReadyIsAdvanced ==
    ASSUME LoopDefects \subseteq repaired,
           NEW l, NEW n, NEW c, NEW a, NEW g, Good(l, n, c, a, g),
           l.advance_on, c.advancec # <<>>,
           NEW d, d = [c EXCEPT !.advancec = Tail(@)],
           NEW k, k = [l EXCEPT !.rd = Async!NoReady, !.advance_on = FALSE]
    PROVE  /\ \A leads : Async!MayAdvance(n, l.rd, leads)
           /\ Good(k, Async!Advanced(n), d, a, g)
<1> DEFINE m == Async!Advanced(n)
<1>1. l \in Locals /\ n \in RaftNodes /\ LoopOK(l, n) /\ RoundOK(l, c, a) /\ OnceOK(l, n, c, g)
  BY DEF Good, LoopOK
<1>2. ~l.ready_on /\ n.records = <<l.rd.number>>
  BY <1>1 DEF LoopOK
<1>3. c.readyc = <<>> /\ c.advancec = <<"advance">> /\ a = "ready"
  BY <1>1 DEF RoundOK
<1>4. /\ Async!NoReady \in Readies /\ Async!NoReady.outputs = {}
  BY DEF Async!NoReady, Readies
<1>5. /\ k \in Locals /\ k.pc = l.pc /\ k.rd = Async!NoReady /\ ~k.ready_on /\ ~k.advance_on
  BY <1>1, <1>2, <1>4 DEF Locals
<1>6. m \in RaftNodes /\ m.made = n.made /\ m.out = n.out /\ m.records = <<>>
  <2>1. m = [n EXCEPT !.records = <<>>, !.out = @]
    BY DEF Async!Advanced, Async!Mended, LoopDefects
  <2>2. <<>> \in Seq(Nat)
    OBVIOUS
  <2> QED
    BY <1>1, <2>1, <2>2 DEF RaftNodes
<1>7. d = [z \in Async!Channels |-> d[z]] /\ d.readyc = <<>> /\ d.advancec = <<>>
  <2>1. Tail(c.advancec) = <<>>
    BY <1>3
  <2>2. /\ c = [z \in Async!Channels |-> c[z]]
        /\ "readyc" \in Async!Channels /\ "advancec" \in Async!Channels
    BY <1>1 DEF RoundOK, Async!Channels
  <2> QED
    BY <1>3, <2>1, <2>2, ChannelIs
<1>8. \A leads : Async!MayAdvance(n, l.rd, leads)
  <2>1. Async!IsLastRecord(n, l.rd)
    BY <1>2 DEF Async!IsLastRecord, Async!Last
  <2> QED
    BY <2>1 DEF Async!MayAdvance, Async!Mended, LoopDefects
<1> HIDE DEF m
<1>9. LoopOK(k, m)
  BY <1>1, <1>4, <1>5, <1>6, FS_EmptySet DEF LoopOK, MadeOf
<1>10. RoundOK(k, d, a)
  BY <1>3, <1>5, <1>7 DEF RoundOK
<1>11. OnceOK(k, m, d, g)
  <2>1. Held(k) = Held(l) /\ Carried(d) = Carried(c)
    BY <1>2, <1>3, <1>5, <1>7 DEF Held, Carried
  <2> QED
    BY <1>1, <1>6, <2>1 DEF OnceOK
<1> QED
  BY <1>8, <1>9, <1>10, <1>11 DEF Good, m

\* The application takes the Ready: what it has is given.
LEMMA ReadyIsGiven ==
    ASSUME NEW l, NEW n, NEW c, NEW a, NEW g, Good(l, n, c, a, g), c.readyc # <<>>,
           NEW d, d = [c EXCEPT !.readyc = Tail(@)],
           NEW h, h = [i \in 1..MaxMade |-> g[i] + Count(c.readyc[1].outputs, i)]
    PROVE  Good(l, n, d, "advance", h)
<1>1. l \in Locals /\ LoopOK(l, n) /\ RoundOK(l, c, a) /\ OnceOK(l, n, c, g)
  BY DEF Good, LoopOK
<1>2. c.readyc = <<l.rd>> /\ c.advancec = <<>> /\ l.advance_on
  BY <1>1 DEF RoundOK, LoopOK, Locals
<1>3. d = [z \in Async!Channels |-> d[z]] /\ d.readyc = <<>> /\ d.advancec = <<>>
  <2>1. Tail(c.readyc) = <<>>
    BY <1>2
  <2>2. /\ c = [z \in Async!Channels |-> c[z]]
        /\ "readyc" \in Async!Channels /\ "advancec" \in Async!Channels
    BY <1>1 DEF RoundOK, Async!Channels
  <2> QED
    BY <1>2, <2>1, <2>2, ChannelIs
<1>4. RoundOK(l, d, "advance")
  BY <1>2, <1>3 DEF RoundOK
<1>5. Carried(c) = l.rd.outputs /\ Carried(d) = {} /\ c.readyc[1] = l.rd
  BY <1>2, <1>3 DEF Carried
<1>6. \A i \in 1..MaxMade : Count(l.rd.outputs, i) \in Nat
  BY <1>1, CountType DEF LoopOK, MadeOf
<1>7. h \in [1..MaxMade -> Nat]
  BY <1>1, <1>5, <1>6 DEF OnceOK
<1>8. OnceOK(l, n, d, h)
  <2> SUFFICES ASSUME NEW i \in 1..MaxMade
               PROVE  h[i] + Count(n.out, i) + Count(Held(l), i) + Count(Carried(d), i)
                         = IF i <= n.made THEN 1 ELSE 0
    BY <1>7 DEF OnceOK
  <2>1. IsFiniteSet(Held(l)) /\ IsFiniteSet(n.out)
    BY <1>1, FS_EmptySet DEF Held, LoopOK, MadeOf
  <2>2. /\ Count({}, i) = 0 /\ Count(l.rd.outputs, i) \in Nat /\ Count(n.out, i) \in Nat
        /\ g[i] \in Nat /\ Count(Held(l), i) \in Nat
    BY <1>1, <1>6, <2>1, CountType DEF OnceOK
  <2>3. g[i] + Count(n.out, i) + Count(Held(l), i) + Count(l.rd.outputs, i)
           = IF i <= n.made THEN 1 ELSE 0
    BY <1>1, <1>5 DEF OnceOK
  <2>4. h[i] = g[i] + Count(l.rd.outputs, i)
    <3>1. h[i] = g[i] + Count(c.readyc[1].outputs, i)
      OBVIOUS
    <3> QED
      BY <1>5, <3>1
  <2>5. h[i] + Count(n.out, i) + Count(Held(l), i) + 0 = IF i <= n.made THEN 1 ELSE 0
    <3> DEFINE p == Count(n.out, i)
               q == Count(Held(l), i)
               r == Count(l.rd.outputs, i)
               s == IF i <= n.made THEN 1 ELSE 0
    <3>1. p \in Nat /\ q \in Nat /\ r \in Nat /\ g[i] + p + q + r = s /\ h[i] = g[i] + r
      BY <2>2, <2>3, <2>4
    <3> HIDE DEF p, q, r, s
    <3>2. g[i] \in Nat
      BY <2>2
    <3>3. h[i] + p + q + 0 = s
      BY <3>1, <3>2
    <3> QED
      BY <3>3 DEF p, q, s
  <2> QED
    BY <1>5, <2>2, <2>5
<1> QED
  BY <1>1, <1>4, <1>8 DEF Good

\* The application is done with it, and says so.
LEMMA AdvanceIsCalled ==
    ASSUME NEW l, NEW n, NEW c, NEW g, Good(l, n, c, "advance", g),
           NEW d, d = c \/ d = [c EXCEPT !.advancec = Append(@, "advance")]
    PROVE  Good(l, n, d, "ready", g)
<1>1. LoopOK(l, n) /\ RoundOK(l, c, "advance") /\ OnceOK(l, n, c, g)
  BY DEF Good
<1>2. l.advance_on /\ c.readyc = <<>> /\ c.advancec = <<>>
  BY <1>1 DEF RoundOK, LoopOK, Locals
<1>3. /\ d = [z \in Async!Channels |-> d[z]] /\ d.readyc = <<>>
      /\ d.advancec \in {<<>>, <<"advance">>}
  <2>1. Append(c.advancec, "advance") = <<"advance">>
    BY <1>2
  <2>2. /\ c = [z \in Async!Channels |-> c[z]]
        /\ "readyc" \in Async!Channels /\ "advancec" \in Async!Channels
    BY <1>1 DEF RoundOK, Async!Channels
  <2>3. CASE d = c
    BY <1>2, <2>2, <2>3
  <2>4. CASE d = [c EXCEPT !.advancec = Append(@, "advance")]
    BY <1>2, <2>1, <2>2, <2>4, ChannelIs
  <2> QED
    BY <2>3, <2>4
<1> QED
  BY <1>1, <1>2, <1>3 DEF Good, RoundOK, OnceOK, Carried

\* The model counts with the Cardinality of its own instance.
LEMMA CountsAgree ==
    \A outputs, i : Async!Cardinality(Async!WithId(outputs, i)) = Count(outputs, i)
<1>1. \A S : Async!Cardinality(S) = Cardinality(S)
  BY DEF Async!Cardinality, Cardinality
<1> QED
  BY <1>1 DEF Count

\* Raft steps, and the loop goes round.
LEMMA RaftSteps ==
    ASSUME MaxMade \in Nat \ {0}, LoopDefects \subseteq repaired,
           NEW c, NEW a, NEW g, Good(run, raft, c, a, g), Async!StepRaft
    PROVE  Good(run', raft', c, a, g)
<1>1. PICK n \in Async!Steps(raft) : Async!Loop(run, n)
  BY DEF Async!StepRaft
<1>2. Good(run, n, c, a, g)
  BY MadeMore
<1> QED
  BY <1>1, <1>2, TopKeeps DEF Async!Loop

\* A branch of the select of run() keeps the invariant.
LEMMA RunKeeps ==
    ASSUME MaxMade \in Nat \ {0}, AsyncInv,
           \/ Async!RecvProp \/ Async!RecvMsg \/ Async!RecvConf \/ Async!SendConfState
           \/ Async!RecvTick \/ Async!SendReady \/ Async!RecvAdvance \/ Async!RecvStop
    PROVE  AsyncInv'
<1>1. /\ LoopDefects \subseteq repaired /\ Good(run, raft, ch, app, given)
      /\ call \in [Caller -> Calls]
  BY DEF AsyncInv
<1>2. LoopOK(run, raft) /\ RoundOK(run, ch, app) /\ run \in Locals
  BY <1>1 DEF Good, LoopOK
<1>4. /\ app' = app /\ given' = given /\ repaired' = repaired /\ call' = call
  BY DEF Async!RecvProp, Async!RecvMsg, Async!RecvConf, Async!SendConfState,
         Async!RecvTick, Async!SendReady, Async!RecvAdvance, Async!RecvStop
<1> DEFINE Goal == Good(run', raft', ch', app, given)
<1>5. \A x, y, l, n : x \notin {"readyc", "advancec"} /\ Good(l, n, ch, app, given)
         => Good(l, n, [ch EXCEPT ![x] = y], app, given)
  BY AnotherChannel, Zenon
<1>6. ASSUME Async!StepRaft, NEW x, x \notin {"readyc", "advancec"}, ch' = Async!Took(x)
      PROVE  Goal
  <2>1. Good(run', raft', ch, app, given)
    BY <1>1, <1>6, RaftSteps
  <2> QED
    BY <1>5, <1>6, <2>1 DEF Async!Took
<1>7. ASSUME Async!RecvProp PROVE Goal
  <2> QED
    BY <1>6, <1>7 DEF Async!RecvProp
<1>8. ASSUME Async!RecvTick PROVE Goal
  BY <1>6, <1>8 DEF Async!RecvTick
<1>9. ASSUME Async!RecvMsg PROVE Goal
  <2>1. ch' = Async!Took("recvc") /\ (Async!StepRaft \/ Async!Loop(run, raft))
    BY <1>9 DEF Async!RecvMsg
  <2>2. CASE Async!StepRaft
    BY <1>6, <2>1, <2>2
  <2>3. CASE Async!Loop(run, raft)
    <3>1. Good(run', raft', ch, app, given)
      BY <1>1, <2>3, TopKeeps DEF Async!Loop
    <3> QED
      BY <1>5, <2>1, <3>1 DEF Async!Took
  <2> QED
    BY <2>1, <2>2, <2>3
<1>10. ASSUME Async!RecvConf PROVE Goal
  <2>1. PICK refused \in BOOLEAN, removed \in BOOLEAN :
           /\ run' = [run EXCEPT !.pc = "conf", !.propc_on = @ /\ (refused \/ ~removed)]
           /\ IF refused THEN raft' = raft ELSE raft' \in Async!Steps(raft)
    BY <1>1, <1>10 DEF Async!RecvConf, Async!Mended, LoopDefects
  <2>2. PICK b \in BOOLEAN : run' = [run EXCEPT !.pc = "conf", !.propc_on = b]
    <3>1. (run.propc_on /\ (refused \/ ~removed)) \in BOOLEAN
      OBVIOUS
    <3> QED
      BY <2>1, <3>1, Zenon
  <2>3. Good(run, raft', ch, app, given)
    BY <1>1, <2>1, MadeMore
  <2>4. Good(run', raft', ch, app, given)
    BY <2>2, <2>3, AnotherPlace
  <2> QED
    BY <1>5, <1>10, <2>4 DEF Async!Took, Async!RecvConf
<1>11. ASSUME Async!SendConfState PROVE Goal
  <2> DEFINE l == [run EXCEPT !.pc = "select"]
  <2>1. Good(l, raft, ch, app, given)
    <3>1. l = [run EXCEPT !.pc = "select", !.propc_on = run.propc_on] /\ run.propc_on \in BOOLEAN
      BY <1>2 DEF Locals
    <3> QED
      BY <1>1, <3>1, AnotherPlace
  <2>2. Async!Loop(l, raft) /\ (ch' = ch \/ ch' = Async!Put("conf_statec", "conf_state"))
    BY <1>11 DEF Async!SendConfState
  <2> HIDE DEF l
  <2>3. Good(run', raft', ch, app, given)
    BY <1>1, <2>1, <2>2, TopKeeps DEF Async!Loop
  <2>4. ch' = ch \/ ch' = [ch EXCEPT !["conf_statec"] = Append(ch["conf_statec"], "conf_state")]
    BY <2>2, Zenon DEF Async!Put
  <2>5. Good(run', raft', [ch EXCEPT !["conf_statec"] = Append(ch["conf_statec"], "conf_state")],
             app, given)
    BY <1>5, <2>3
  <2> QED
    BY <2>3, <2>4, <2>5
<1>12. ASSUME Async!SendReady PROVE Goal
  <2>1. /\ run.ready_on /\ ch' = [ch EXCEPT !.readyc = Append(@, run.rd)]
        /\ Async!Loop([run EXCEPT !.advance_on = TRUE], Async!Accepted(raft, run.rd))
    BY <1>1, <1>12 DEF Async!SendReady, Async!MaySend, Async!Mended, LoopDefects, Async!Put
  <2> QED
    BY <1>1, <2>1, ReadyIsSent DEF Async!Loop
<1>13. ASSUME Async!RecvAdvance PROVE Goal
  <2> DEFINE l == [run EXCEPT !.rd = Async!NoReady, !.advance_on = FALSE]
  <2>1. run.advance_on /\ ch.advancec # <<>> /\ ch' = [ch EXCEPT !.advancec = Tail(@)]
    BY <1>13 DEF Async!RecvAdvance, Async!Took
  <2>2. (\A leads : Async!MayAdvance(raft, run.rd, leads)) /\ Good(l, Async!Advanced(raft), ch', app, given)
    BY <1>1, <2>1, ReadyIsAdvanced
  <2>3. Async!Loop(l, Async!Advanced(raft))
    BY <1>13, <2>2 DEF Async!RecvAdvance
  <2> HIDE DEF l
  <2> QED
    BY <1>1, <2>2, <2>3, TopKeeps DEF Async!Loop
<1>14. ASSUME Async!RecvStop PROVE Goal
  <2>1. Async!Took("stop") = ch' /\ run' = [run EXCEPT !.pc = "ended"] /\ raft' = raft
    BY <1>14 DEF Async!RecvStop
  <2>2. run' = [run EXCEPT !.pc = "ended", !.propc_on = run.propc_on] /\ run.propc_on \in BOOLEAN
    BY <1>2, <2>1 DEF Locals
  <2>3. Good(run', raft', ch, app, given)
    BY <1>1, <2>1, <2>2, AnotherPlace
  <2> QED
    BY <1>5, <2>1, <2>3 DEF Async!Took
<1> QED
  BY <1>1, <1>4, <1>7, <1>8, <1>9, <1>10, <1>11, <1>12, <1>13, <1>14 DEF AsyncInv

\* So does a step of a caller.
LEMMA CallersKeep ==
    ASSUME AsyncInv, NEW p \in Caller,
           \/ \E op \in Async!Operations : Async!Call(p, op)
           \/ Async!Send(p) \/ Async!GiveUp(p) \/ Async!TakeConfState(p) \/ Async!Cancel(p)
    PROVE  AsyncInv'
<1>1. /\ LoopDefects \subseteq repaired /\ Good(run, raft, ch, app, given)
      /\ call \in [Caller -> Calls]
  BY DEF AsyncInv
<1>2. /\ repaired' = repaired /\ run' = run /\ raft' = raft /\ app' = app /\ given' = given
  BY DEF Async!Call, Async!Send, Async!GiveUp, Async!TakeConfState, Async!Cancel
<1>3. Async!Idle \in Calls
  BY DEF Async!Idle, Ops, Calls
<1>4. \A op \in Ops : Async!AfterSend(op) \in Calls
  BY <1>3 DEF Async!AfterSend, Calls, Ops
<1>5. call' \in [Caller -> Calls]
  <2>1. CASE \E op \in Async!Operations : Async!Call(p, op)
    BY <1>1, <2>1 DEF Async!Call, Ops, Calls
  <2>2. CASE Async!Send(p)
    BY <1>1, <1>4, <2>2 DEF Async!Send, Calls
  <2>3. CASE Async!GiveUp(p)
    <3>1. \/ call' = [call EXCEPT ![p] = Async!AfterSend(call[p].op)]
          \/ call' = [call EXCEPT ![p] = Async!Idle]
      BY <2>3 DEF Async!GiveUp
    <3> QED
      BY <1>1, <1>3, <1>4, <3>1 DEF Calls
  <2>4. CASE Async!TakeConfState(p) \/ Async!Cancel(p)
    BY <1>1, <1>3, <2>4 DEF Async!TakeConfState, Async!Cancel
  <2> QED
    BY <2>1, <2>2, <2>3, <2>4
<1>6. \A op \in Ops : Async!Target(op) \notin {"readyc", "advancec"}
  BY DEF Async!Target, Ops, Async!Operations
<1>7. \/ ch' = ch
      \/ \E x, y : x \notin {"readyc", "advancec"} /\ ch' = [ch EXCEPT ![x] = y]
  <2>1. CASE Async!Send(p)
    <3>1. \E m : ch' = [ch EXCEPT ![Async!Target(call[p].op)]
                           = Append(ch[Async!Target(call[p].op)], m)]
      BY <2>1 DEF Async!Send, Async!Put
    <3>2. call[p].op \in Ops
      BY <1>1 DEF Calls
    <3> QED
      BY <1>6, <3>1, <3>2, Zenon
  <2>2. CASE Async!TakeConfState(p)
    <3>1. ch' = [ch EXCEPT !["conf_statec"] = Tail(ch["conf_statec"])]
      BY <2>2 DEF Async!TakeConfState, Async!Took
    <3> QED
      BY <3>1
  <2> QED
    BY <2>1, <2>2 DEF Async!Call, Async!GiveUp, Async!Cancel
<1>8. Good(run, raft, ch', app, given)
  BY <1>1, <1>7, AnotherChannel
<1> QED
  BY <1>1, <1>2, <1>5, <1>8 DEF AsyncInv

\* And the application, and a tick.
LEMMA ApplicationKeeps ==
    ASSUME AsyncInv, Async!Tick \/ Async!TakesReady \/ Async!Advance
    PROVE  AsyncInv'
<1>1. /\ LoopDefects \subseteq repaired /\ Good(run, raft, ch, app, given)
      /\ call \in [Caller -> Calls]
  BY DEF AsyncInv
<1>2. /\ repaired' = repaired /\ run' = run /\ raft' = raft /\ call' = call
  BY DEF Async!Tick, Async!TakesReady, Async!Advance
<1>3. Good(run, raft, ch', app', given')
  <2>1. CASE Async!Tick
    <3>1. ch' = [ch EXCEPT !["tickc"] = Append(ch["tickc"], "tick")] /\ app' = app /\ given' = given
      BY <2>1 DEF Async!Tick, Async!Put
    <3> QED
      BY <1>1, <3>1, AnotherChannel
  <2>2. CASE Async!TakesReady
    <3>1. /\ ch.readyc # <<>> /\ ch' = [ch EXCEPT !.readyc = Tail(@)] /\ app' = "advance"
          /\ given' = [i \in 1..MaxMade |-> given[i] + Count(ch.readyc[1].outputs, i)]
      BY <2>2, CountsAgree DEF Async!TakesReady, Async!Took
    <3> QED
      BY <1>1, <3>1, ReadyIsGiven
  <2>3. CASE Async!Advance
    <3>1. /\ app = "advance" /\ app' = "ready" /\ given' = given
          /\ ch' = ch \/ ch' = [ch EXCEPT !.advancec = Append(@, "advance")]
      BY <2>3 DEF Async!Advance, Async!Put
    <3> QED
      BY <1>1, <3>1, AdvanceIsCalled
  <2> QED
    BY <2>1, <2>2, <2>3
<1> QED
  BY <1>1, <1>2, <1>3 DEF AsyncInv

\* The invariant holds at first: one output is made, and taken.
LEMMA AsyncBegins ==
    ASSUME MaxMade \in Nat \ {0}, \A r \in Repairs : LoopDefects \subseteq r, Async!Init
    PROVE  AsyncInv
<1>1. LoopDefects \subseteq repaired
  BY DEF Async!Init
<1>2. PICK k \in Kinds :
         LET n == [made |-> 1, out |-> {[id |-> 1, kind |-> k]}, leader |-> FALSE,
                   ss |-> FALSE, hs |-> FALSE, number |-> 0, records |-> <<>>]
             l == [pc |-> "select", rd |-> Async!NoReady, ready_on |-> FALSE,
                   propc_on |-> FALSE, advance_on |-> FALSE, lead |-> FALSE]
         IN  run = Async!Top(l, n)[1] /\ raft = Async!Top(l, n)[2]
  BY DEF Async!Init
<1> DEFINE o == [id |-> 1, kind |-> k]
           n == [made |-> 1, out |-> {o}, leader |-> FALSE,
                 ss |-> FALSE, hs |-> FALSE, number |-> 0, records |-> <<>>]
           l == [pc |-> "select", rd |-> Async!NoReady, ready_on |-> FALSE,
                 propc_on |-> FALSE, advance_on |-> FALSE, lead |-> FALSE]
<1>3. o \in Outputs /\ o.id = 1
  BY DEF Outputs
<1>4. /\ ch = [x \in Async!Channels |-> <<>>] /\ app = "ready"
      /\ given = [i \in 1..MaxMade |-> 0]
      /\ "readyc" \in Async!Channels /\ "advancec" \in Async!Channels
  BY DEF Async!Init, Async!Channels
<1>5. Async!NoReady \in Readies /\ Async!NoReady.outputs = {}
  BY DEF Async!NoReady, Readies
<1> HIDE DEF o
<1>6. n \in RaftNodes /\ l \in Locals
  <2>1. <<>> \in Seq(Nat)
    OBVIOUS
  <2> QED
    BY <1>3, <1>5, <2>1 DEF RaftNodes, Locals
<1>7. MadeOf(n.out, n.made) /\ MadeOf(l.rd.outputs, n.made)
  <2>1. n.out = {o} /\ n.made = 1 /\ l.rd = Async!NoReady
    OBVIOUS
  <2>2. IsFiniteSet({o}) /\ IsFiniteSet({})
    BY FS_EmptySet, FS_Singleton
  <2> HIDE DEF n, l
  <2> QED
    BY <1>3, <1>5, <2>1, <2>2, 1 \in 1..1 DEF MadeOf
<1>8. LoopOK(l, n)
  BY <1>6, <1>7 DEF LoopOK
<1>9. RoundOK(l, ch, app)
  BY <1>4 DEF RoundOK
<1>10. OnceOK(l, n, ch, given)
  <2> SUFFICES ASSUME NEW i \in 1..MaxMade
               PROVE  given[i] + Count(n.out, i) + Count(Held(l), i) + Count(Carried(ch), i)
                         = IF i <= n.made THEN 1 ELSE 0
    BY <1>4 DEF OnceOK
  <2>1. Held(l) = {} /\ Carried(ch) = {} /\ given[i] = 0
    BY <1>4 DEF Held, Carried
  <2>2. /\ Count({} \cup {o}, o.id) = 1
        /\ \A j : j # o.id => Count({} \cup {o}, j) = Count({}, j)
    BY FS_EmptySet, CountMore
  <2>3. n.out = {} \cup {o} /\ n.made = 1
    OBVIOUS
  <2>4. Count({}, i) = 0
    BY CountType
  <2> HIDE DEF n, l
  <2>5. CASE i = 1
    BY <1>3, <2>1, <2>2, <2>3, <2>4, <2>5
  <2>6. CASE i # 1
    <3>1. ~(i <= 1)
      BY <2>6
    <3>2. Count(n.out, i) = 0
      BY <1>3, <2>2, <2>3, <2>4, <2>6
    <3> QED
      BY <2>1, <2>3, <2>4, <3>1, <3>2
  <2> QED
    BY <2>5, <2>6
<1>11. run = Async!Top(l, n)[1] /\ raft = Async!Top(l, n)[2]
  BY <1>2 DEF o
<1> HIDE DEF n, l
<1>12. Good(run, raft, ch, app, given)
  BY <1>1, <1>8, <1>9, <1>10, <1>11, TopKeeps DEF Good
<1>13. call \in [Caller -> Calls]
  BY DEF Async!Init, Async!Idle, Ops, Calls
<1> QED
  BY <1>1, <1>12, <1>13 DEF AsyncInv

\* The loop of run(), when the defects it cannot do without are mended (advance no longer
\* asserts that nothing was stepped since the Ready, a refused configuration change is no
\* longer unwrapped): what Raft hands out reaches the application once, and advance is
\* called for the Ready that RawNode expects, whatever the callers do, whenever it is stopped.
THEOREM OutputsOnceHolds ==
    ASSUME MaxMade \in Nat \ {0}, \A r \in Repairs : LoopDefects \subseteq r
    PROVE  Async!Spec => []Async!OutputsOnce
<1>1. Async!Init => AsyncInv
  BY AsyncBegins
<1>2. AsyncInv /\ [Async!Next]_Async!vars => AsyncInv'
  <2> SUFFICES ASSUME AsyncInv, [Async!Next]_Async!vars PROVE AsyncInv'
    OBVIOUS
  <2>1. CASE UNCHANGED Async!vars
    BY <2>1 DEF AsyncInv, Async!vars
  <2>2. CASE Async!Next
    BY <2>2, RunKeeps, CallersKeep, ApplicationKeeps DEF Async!Next
  <2> QED
    BY <2>1, <2>2
<1>3. AsyncInv => Async!OutputsOnce
  <2> SUFFICES ASSUME AsyncInv PROVE Async!OutputsOnce
    OBVIOUS
  <2>1. LoopOK(run, raft) /\ OnceOK(run, raft, ch, given) /\ run.pc # "panicked"
        /\ raft.made \in Nat /\ raft.made <= MaxMade
    BY DEF AsyncInv, Good, LoopOK, RaftNodes
  <2>2. ASSUME NEW i \in 1..raft.made
        PROVE  1 = given[i] + Count(raft.out, i)
                   + (IF run.ready_on THEN Count(run.rd.outputs, i) ELSE 0)
                   + (IF ch.readyc # <<>> THEN Count(ch.readyc[1].outputs, i) ELSE 0)
    <3>1. i \in 1..MaxMade /\ i <= raft.made
      BY <2>1
    <3>2. given[i] + Count(raft.out, i) + Count(Held(run), i) + Count(Carried(ch), i) = 1
      BY <2>1, <3>1 DEF OnceOK
    <3>3. Count({}, i) = 0
      BY CountType
    <3>4. /\ Count(Held(run), i) = IF run.ready_on THEN Count(run.rd.outputs, i) ELSE 0
          /\ Count(Carried(ch), i)
                = IF ch.readyc # <<>> THEN Count(ch.readyc[1].outputs, i) ELSE 0
      BY <3>3 DEF Held, Carried
    <3> QED
      BY <3>2, <3>4, Zenon
  <2> QED
    BY <2>1, <2>2, CountsAgree DEF Async!OutputsOnce
<1> QED
  BY <1>1, <1>2, <1>3, PTL DEF Async!Spec
=============================================================================
