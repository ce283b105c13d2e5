---------------------------- MODULE FollowerLog -----------------------------
(***************************************************************************)
(* The log of a follower: RaftLog (raft_log.rs) with its Unstable part, a  *)
(* pending snapshot and the storage, as Raft::handle_append_entries,       *)
(* handle_heartbeat and restore use it, and with the acknowledgements of   *)
(* persistence that arrive when they like.                                 *)
(*                                                                         *)
(* The rest of the group is an environment that keeps Raft's promises: a   *)
(* leader only appends to its log, commits entries of its own term, and    *)
(* begins with a log of an earlier leader that has all that is committed.  *)
(* An append message is a piece of the log of the present leader with a    *)
(* commit index of this leader, at any time and any number of times: so    *)
(* messages of the term may be lost, delayed, reordered and duplicated.    *)
(* Those of earlier terms are dropped before they come here (Raft::step).  *)
(* What a reply says is modelled, sending it is not: see the README on     *)
(* RaftCore::send.                                                         *)
(***************************************************************************)
EXTENDS RaftLog, Sequences, FiniteSetsExt

CONSTANTS
    Heartbeats,     \* heartbeats carry commit indexes
    ReadySnapshot,  \* the application stores the snapshot of the Ready itself
    Bounds          \* see Bound

\* Bounds of a behaviour: the length of the leaders' logs, their terms, and the
\* Readies on their way to the disk.
Bound == [index : Nat, term : Nat, records : Nat]

ASSUME FollowerAssumption ==
    /\ {Heartbeats, ReadySnapshot} \subseteq BOOLEAN
    /\ \A x \in Bounds : x \in Bound

VARIABLES
    bounds,     \* never changes
    \* the group: terms of the leader's entries, its term, what is committed,
    \* the logs of earlier leaders
    leader_log, term, leader_commit, past,
    \* the highest index the follower acknowledged to this leader, and the
    \* highest one in an answer that has left: after its Ready is on disk
    answered, acked,
    \* raft_log: store = [log, meta], meta the index and term of its snapshot
    store, unstable, snap, committed, persisted, applied,
    \* raw node: the ReadyRecords that wait for on_persist_ready, each with
    \* what storage held when it was written and the answers of its Ready
    records,
    panics

groupVars == <<leader_log, term, leader_commit, past>>
ackVars == <<answered, acked>>
vars == <<bounds, groupVars, ackVars, store, unstable, snap, committed, persisted, applied,
          records, panics>>

MaxIndex == bounds.index
MaxTerm == bounds.term
MaxRecords == bounds.records

Alive == panics = {}

Check(name, ok) == IF ok THEN {} ELSE {name}

\* No snapshot; also the metadata of a storage that never had one.
NoSnap == [index |-> 0, term |-> 0]

Least(a, b) == IF a <= b THEN a ELSE b

-----------------------------------------------------------------------------
\* RaftLog with a pending snapshot

StoreTerm(i) == IF i = store.meta.index THEN store.meta.term
                ELSE IF Has(store.log, i) THEN store.log.ent[i].term ELSE NoTerm

FirstIndex == IF snap # NoSnap THEN snap.index + 1 ELSE store.log.lo

LastIdx == IF ~IsEmpty(unstable) THEN unstable.hi
           ELSE IF snap # NoSnap THEN snap.index ELSE store.log.hi

\* RaftLog::term: unstable, then the snapshot, then storage.
TermAt(i) ==
    IF i < FirstIndex - 1 \/ i > LastIdx THEN 0
    ELSE IF Has(unstable, i) THEN unstable.ent[i].term
    ELSE IF snap # NoSnap /\ i = snap.index THEN snap.term
    ELSE StoreTerm(i)

MatchTerm(i, t) == TermAt(i) = t

\* Mutant: the search takes one step.
OneStepDown(index, t) == IF index > 0 /\ TermAt(index) > t THEN index - 1 ELSE index

\* The search goes down from index until a term does not exceed t.
FindConflictByTerm(index, t) ==
    LET down[i \in 0..index] ==
            IF i > 0 /\ TermAt(i) > t THEN down[i - 1] ELSE i
    IN  down[index]

\* find_conflict as it is written: the loop returns in its first round.
FindConflict(t) == IF IsEmpty(t) THEN 0 ELSE t.lo

\* Mutant: the commit index follows every message.
CommitToAny(c) == c

\* commit_to(c) when the log ends at last; `of' says with which message it comes.
CommitTo(c) == IF committed >= c THEN committed ELSE c
CommitToChecks(of, last, c) ==
    Check(of, committed >= c \/ c <= last)

-----------------------------------------------------------------------------
\* The group

LeaderTerm(i) == IF i = 0 THEN 0 ELSE leader_log[i]

\* The entries after idx, n of them, as an append message carries them.
LeaderEntries(idx, n) ==
    [lo |-> idx + 1, hi |-> idx + n,
     ent |-> [i \in (idx + 1)..(idx + n) |->
                 [term |-> leader_log[i], type |-> "normal", size |-> 0]]]

LeaderAppend ==
    /\ Alive
    /\ Len(leader_log) < MaxIndex
    /\ leader_log' = Append(leader_log, term)
    /\ UNCHANGED <<term, leader_commit, past, ackVars, store, unstable, snap,
                   committed, persisted, applied, records, panics>>

LeaderCommits ==
    /\ Alive
    /\ \E n \in (leader_commit + 1)..Len(leader_log) :
          leader_log[n] = term /\ leader_commit' = n
    /\ UNCHANGED <<leader_log, term, past, ackVars, store, unstable, snap,
                   committed, persisted, applied, records, panics>>

\* The new leader has a beginning of some earlier log that goes as far as what
\* is committed, and its empty entry.
NewLeader ==
    /\ Alive
    /\ term < MaxTerm
    /\ term' = term + 1
    /\ past' = past \cup {leader_log}
    /\ \E log \in past' : \E n \in leader_commit..Len(log) :
          /\ n < MaxIndex
          /\ SubSeq(log, 1, leader_commit) = SubSeq(leader_log, 1, leader_commit)
          /\ leader_log' = Append(SubSeq(log, 1, n), term')
    /\ answered' = 0 /\ acked' = 0
    /\ records' = [j \in DOMAIN records |-> [records[j] EXCEPT !.ack = 0]]
    /\ UNCHANGED <<leader_commit, store, unstable, snap, committed, persisted,
                   applied, panics>>

-----------------------------------------------------------------------------
\* Messages

\* Mutant: an append commits beyond what it brings or confirms.
CommitOfAll(c, lastNew) == c

CommitOfAppend(c, lastNew) == Least(c, lastNew)

\* handle_append_entries of the entries idx+1..idx+n with commit index c, when
\* maybe_append takes them.
AppendEntries(idx, n, c) ==
    LET ents     == LeaderEntries(idx, n)
        conflict == FindConflict(ents)
        lastNew  == idx + n
        last     == IF conflict = 0 THEN LastIdx ELSE lastNew
    IN  /\ Alive
        /\ idx >= committed
        /\ MatchTerm(idx, LeaderTerm(idx))
        /\ panics' = Check("maybe_append_committed", conflict = 0 \/ conflict > committed)
                     \cup Check("truncate_and_append_out_of_bound",
                                conflict = 0 \/ conflict <= unstable.hi + 1)
                     \cup CommitToChecks("commit_to_of_append", last, CommitOfAppend(c, lastNew))
        /\ unstable' = IF conflict = 0 THEN unstable
                       ELSE TruncateAndAppend(unstable, ents)
        /\ persisted' = IF conflict # 0 /\ persisted > conflict + 1
                        THEN conflict - 1 ELSE persisted
        /\ committed' = CommitTo(CommitOfAppend(c, lastNew))
        /\ answered' = Max({answered, lastNew})
        /\ UNCHANGED <<groupVars, acked, store, snap, applied, records>>

ReceiveAppend ==
    \E idx \in 0..Len(leader_log) : \E n \in 0..(Len(leader_log) - idx) :
        \E c \in 0..leader_commit : AppendEntries(idx, n, c)

\* An append from before the commit index, or an old snapshot, changes nothing
\* and is answered with the commit index.
AnswerCommitted ==
    /\ Alive
    /\ answered < committed
    /\ answered' = committed
    /\ UNCHANGED <<groupVars, acked, store, unstable, snap, committed, persisted,
                   applied, records, panics>>

\* A heartbeat carries min(matched, committed) of the leader.
Heartbeat ==
    /\ Alive
    /\ Heartbeats
    /\ \E c \in (committed + 1)..Least(acked, leader_commit) :
          /\ panics' = CommitToChecks("commit_to_of_heartbeat", LastIdx, c)
          /\ committed' = CommitTo(c)
    /\ UNCHANGED <<groupVars, ackVars, store, unstable, snap, persisted, applied, records>>

\* What was persisted beyond the commit index need not be in the snapshot.
PersistedOnRestore == Least(persisted, committed)

\* A snapshot of index i: its entry is known, and only the commit index moves;
\* or it replaces the log. The configuration that comes with it is left out.
Restore(i) ==
    /\ Alive
    /\ i >= committed
    /\ IF MatchTerm(i, leader_log[i])
       THEN /\ panics' = CommitToChecks("commit_to_of_snapshot", LastIdx, i)
            /\ committed' = CommitTo(i)
            /\ UNCHANGED <<unstable, snap, persisted>>
       ELSE /\ panics' = Check("restore_committed", i >= committed)
            /\ committed' = i
            /\ persisted' = PersistedOnRestore
            /\ unstable' = EmptyAt(i + 1)
            /\ snap' = [index |-> i, term |-> leader_log[i]]
    /\ answered' = Max({answered, i})
    /\ UNCHANGED <<groupVars, acked, store, applied, records>>

-----------------------------------------------------------------------------
\* The Ready pipeline

\* What storage holds after the snapshot of a Ready. The Ready has a copy of it
\* without its metadata, which on_ready takes for an empty one; the snapshot
\* itself is had from RawNode::snap until the Ready is advanced.
Restored ==
    IF snap = NoSnap \/ ReadySnapshot THEN store
    ELSE [log |-> EmptyAt(snap.index + 1), meta |-> snap]

\* ready, the write of its snapshot and entries to storage, and
\* advance_append_async: nothing else may be called in between.
Stabilize ==
    LET restored == Restored
    IN  /\ Alive
        /\ \/ snap # NoSnap \/ ~IsEmpty(unstable)
           \/ answered > Max({acked} \cup {records[j].ack : j \in DOMAIN records})
        /\ Len(records) < MaxRecords
        /\ panics' = Check("ready_has_next_entries",
                           snap = NoSnap \/ NextTo(committed, persisted) <= snap.index)
                     \cup Check("apply_snapshot_out_of_date",
                           snap = NoSnap \/ store.log.lo <= snap.index)
                     \cup Check("append", CanAppend(restored, unstable))
        /\ store' = StorageAppend(restored, unstable)
        /\ records' = Append(records,
                        [snap  |-> snap.index,
                         image |-> store'.log,
                         ack   |-> answered,
                         index |-> IF IsEmpty(unstable) THEN 0 ELSE unstable.hi,
                         term  |-> IF IsEmpty(unstable) THEN 0
                                   ELSE unstable.ent[unstable.hi].term])
        /\ snap' = NoSnap
        /\ unstable' = StableEntries(unstable)
        /\ UNCHANGED <<groupVars, ackVars, committed, persisted, applied>>

\* Mutant: a record that is not of this log any more counts.
PersistAnyTerm(index, t, p) ==
    IF index > p /\ index < unstable.lo THEN index ELSE p

\* The persisted index after maybe_persist(index, t), from p.
MaybePersistEntries(index, t, p) ==
    IF /\ index > p
       /\ index < (IF snap # NoSnap THEN snap.index ELSE unstable.lo)
       /\ StoreTerm(index) = t
    THEN index ELSE p

\* on_persist_ready of the first k records: the last snapshot among them, and
\* the last entry from there on.
OnPersistReady(k) ==
    LET snapAt  == Max({0} \cup {j \in 1..k : records[j].snap # 0})
        entAt   == Max({0} \cup {j \in 1..k : j >= snapAt /\ records[j].index # 0})
        s       == IF snapAt = 0 THEN 0 ELSE records[snapAt].snap
        p       == Max({persisted, s})
    IN  /\ Alive
        /\ panics' = Check("maybe_persist_snap",
                           s <= persisted \/ (s <= committed /\ s < unstable.lo))
        /\ persisted' = IF entAt = 0 THEN p
                        ELSE MaybePersistEntries(records[entAt].index, records[entAt].term, p)
        /\ acked' = Max({acked, records[k].ack})
        /\ records' = SubSeq(records, k + 1, Len(records))
        /\ UNCHANGED <<groupVars, answered, store, unstable, snap, committed, applied>>

\* commit_apply of entries that were handed out: committed and persisted.
Apply(i) ==
    /\ Alive
    /\ panics' = Check("applied_to", CanApply(committed, persisted, applied, i))
    /\ applied' = AppliedTo(applied, i)
    /\ UNCHANGED <<groupVars, ackVars, store, unstable, snap, committed, persisted, records>>

Init ==
    /\ bounds \in Bounds
    /\ leader_log = <<1>>
    /\ term = 1
    /\ leader_commit = 0
    /\ past = {}
    /\ answered = 0 /\ acked = 0
    /\ store = [log |-> EmptyAt(1), meta |-> NoSnap]
    /\ unstable = EmptyAt(1)
    /\ snap = NoSnap
    /\ committed = 0 /\ persisted = 0 /\ applied = 0
    /\ records = <<>>
    /\ panics = {}

Steps ==
    \/ LeaderAppend \/ LeaderCommits \/ NewLeader
    \/ ReceiveAppend \/ AnswerCommitted
    \/ Heartbeat
    \/ \E i \in 1..leader_commit : Restore(i)
    \/ Stabilize
    \/ \E k \in 1..Len(records) : OnPersistReady(k)
    \/ \E i \in (applied + 1)..NextTo(committed, persisted) : Apply(i)

Next == Steps /\ UNCHANGED bounds

Spec == Init /\ [][Next]_vars

-----------------------------------------------------------------------------

IsLogSegment(s) ==
    /\ DOMAIN s = {"lo", "hi", "ent"}
    /\ s.lo \in 1..(MaxIndex + 1)
    /\ s.hi \in (s.lo - 1)..MaxIndex
    /\ DOMAIN s.ent = s.lo..s.hi
    /\ \A i \in s.lo..s.hi : s.ent[i] \in [term : 1..MaxTerm, type : {"normal"}, size : {0}]

\* The types of the variables; storage, the pending snapshot and the unstable
\* entries follow each other without a gap (struct RaftLog and Unstable).
TypeOK ==
    /\ leader_log \in Seq(1..MaxTerm)
    /\ {leader_commit, answered, acked, committed, persisted, applied} \subseteq 0..MaxIndex
    /\ IsLogSegment(store.log) /\ IsLogSegment(unstable)
    /\ {store.meta, snap} \subseteq [index : 0..MaxIndex, term : 0..MaxTerm]
    /\ IF snap # NoSnap THEN unstable.lo = snap.index + 1
       ELSE store.log.lo <= unstable.lo /\ unstable.lo <= store.log.hi + 1

\* No assertion of append, truncate_and_append, commit_to, restore,
\* maybe_persist_snap, apply_snapshot, applied_to or the storage fails, whatever
\* appends, snapshots, changes of leader and late reports come together; but for
\* the commit_to of a heartbeat, which HeartbeatInLog is about.
FollowerNoPanic == panics \subseteq {"commit_to_of_heartbeat"}

\* What the follower takes for committed is what the group committed, through
\* rewritten tails, snapshots and changes of leader (RaftLog::committed).
CommittedIsChosen ==
    /\ committed <= leader_commit
    /\ \A i \in (FirstIndex - 1)..committed :
          i <= LastIdx => TermAt(i) = LeaderTerm(i)

\* Where the follower has an entry of the leader it has all the entries before
\* it: what maybe_append relies on when it looks at a single term.
LogMatching ==
    \A i \in FirstIndex..Least(LastIdx, Len(leader_log)) :
        TermAt(i) = leader_log[i] =>
            \A j \in (FirstIndex - 1)..i : TermAt(j) = LeaderTerm(j)

\* What the follower acknowledged to this leader is an entry of the leader for
\* as long as the follower has it.
AckedIsLeaders ==
    \A i \in FirstIndex..Least(LastIdx, answered) : TermAt(i) = leader_log[i]

\* Applied entries are committed, and persisted as far as the node knows
\* (raft_log.rs:42-44), also after persisted went back for a new leader's
\* entries or for a snapshot.
AppliedInvariant == applied <= Least(committed, persisted)

\* An append the follower refuses, and the answer: its hint and the hint's term.
Refused(idx) ==
    idx \in committed..Len(leader_log) /\ ~MatchTerm(idx, LeaderTerm(idx))
HintIndex(idx) == FindConflictByTerm(Least(idx, LastIdx), LeaderTerm(idx))

\* The answer to a refused append lets the leader probe at an index where the
\* two logs may still agree: it has a term, one that the leader's entry does not
\* fall below, it is not before what is committed, and no index where the logs
\* agree lies above it (handle_append_entries, find_conflict_by_term).
HintKeepsAgreement ==
    \A idx \in 0..Len(leader_log) : Alive /\ Refused(idx) =>
        LET hint == HintIndex(idx)
        IN  /\ TermAt(hint) # NoTerm
            /\ TermAt(hint) <= LeaderTerm(idx)
            /\ hint >= committed
            /\ \A i \in committed..Least(idx, LastIdx) :
                  TermAt(i) = LeaderTerm(i) => i <= hint

\* A late report raises persisted only over a log that was written with it:
\* that the term of one entry is still the same is enough, whatever was
\* truncated, rewritten and written again meanwhile (maybe_persist).
ReportedIsWritten ==
    [][persisted' > persisted =>
         LET image == records[Len(records) - Len(records')].image
         IN  \A i \in FirstIndex..persisted' :
                Has(image, i) => image.ent[i].term = TermAt(i)]_vars

\* commit_to panics when a commit index of the leader is beyond the log
\* (raft_log.rs:268, 275-280); the leader sends min(matched, committed).
HeartbeatInLog == "commit_to_of_heartbeat" \notin panics

\* next_entries_since "returns committed and persisted entries"
\* (raft_log.rs:411): what it returns is what storage holds.
DeliversOnlyPersisted ==
    \A i \in (applied + 1)..NextTo(committed, persisted) :
        i >= FirstIndex => StoreTerm(i) = TermAt(i)

\* "Snapshot specifies the snapshot to be saved to stable storage"
\* (raw_node.rs:157): once it is not pending any more, the storage goes as far
\* as the entries that follow it.
SnapshotIsSaved == snap = NoSnap => unstable.lo <= store.log.hi + 1
=============================================================================
