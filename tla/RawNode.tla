------------------------------ MODULE RawNode -------------------------------
(***************************************************************************)
(* The Ready pipeline of a raft group with a single voter: RawNode         *)
(* (raw_node.rs) on top of Raft (raft.rs), RaftLog and MemStorage, driven  *)
(* by an application loop like on_ready of examples/single_mem_node, with  *)
(* asynchronous persistence, compaction, crashes and restarts.             *)
(*                                                                         *)
(* The raft node writes to store; disk is what a crash leaves of it.  The  *)
(* application takes a Ready, writes its entries and its HardState, calls  *)
(* an advance function, and applies the committed entries it was handed    *)
(* to its state machine sm, which is durable.                              *)
(*                                                                         *)
(* A call of the library runs to completion (RawNode is thread-unsafe and  *)
(* takes &mut self), so an action is one call.  The election clock is      *)
(* abstracted: RawNode::campaign may start an election at any time.        *)
(***************************************************************************)
EXTENDS RaftLog, Sequences, FiniteSets, Functions

CONSTANTS
    ID,               \* the id of the only voter
    Proposals,        \* what clients propose: records [type, size]
    MaxUncommitted,   \* Config::max_uncommitted_size
    SaveLightCommit,  \* the application saves LightReady::commit_index, and
                      \* waits for it to be on disk before it applies
    MaxIndex,         \* bound: no proposal beyond this index
    MaxReady,         \* bound: Ready numbers of one incarnation
    MaxReads,         \* bound: read states waiting in the node
    MaxCrashes        \* bound: crashes of a behaviour

ASSUME NodeAssumption ==
    /\ ID \in Nat \ {0}
    /\ Proposals \subseteq [type : {"normal", "conf"}, size : Nat]
    /\ MaxUncommitted \in Nat
    /\ SaveLightCommit \in BOOLEAN
    /\ {MaxIndex, MaxReady, MaxReads, MaxCrashes} \subseteq Nat

VARIABLES
    \* raft_log.store, and the part of it that survives a crash
    store, disk,
    \* raft_log
    unstable, committed, persisted, applied,
    \* raft
    state, term, vote, matched, pending_conf_index,
    uncommitted_size, last_log_tail_index, read_states,
    \* raw node
    prev_state, prev_hs, max_number, records, commit_since_index,
    \* application: how far it is with the Ready rd, the LightReady commit
    \* index it still has to write, the committed entries it was handed and
    \* has not applied, those it has applied, the newest Ready on disk
    stage, rd, light, inbox, sm, durable_number,
    \* history: assertions that failed, highest read index given, crashes
    panics, read_index, crashes

logVars  == <<unstable, committed, persisted, applied>>
raftVars == <<state, term, vote, matched, pending_conf_index,
              uncommitted_size, last_log_tail_index, read_states>>
nodeVars == <<prev_state, prev_hs, max_number, records, commit_since_index>>
appVars  == <<stage, rd, light, inbox, sm, durable_number>>
vars == <<store, disk, logVars, raftVars, nodeVars, appVars,
          panics, read_index, crashes>>

INVALID_ID == 0

\* A ReadyRecord without last_entry, a Ready without HardState.
NoEntry == <<>>
NoHs == <<>>
NoReady == [number |-> 0, entries |-> EmptyAt(1), hs |-> NoHs, state |-> "Follower"]

\* A node that has panicked does nothing any more.
Alive == panics = {}

\* The name of an assertion, if it fails.
Check(name, ok) == IF ok THEN {} ELSE {name}

HardState == [term |-> term, vote |-> vote, commit |-> committed]

Last == LastIndex(store, unstable)

\* Mutant: a committed configuration change no longer counts as pending.
PendingUntilCommitted == pending_conf_index > committed

HasPendingConf == pending_conf_index > applied

\* A committed entry as the application receives it.
Delivery(st, un, from, to) ==
    [k \in 1..(to - from + 1) |->
        [index |-> from + k - 1, entry |-> LogEntry(st, un, from + k - 1)]]

-----------------------------------------------------------------------------
\* UncommittedState

MaybeIncrease(size) ==
    \/ size = 0
    \/ uncommitted_size = 0
    \/ size + uncommitted_size <= MaxUncommitted

\* Mutant: entries of earlier leaders are not skipped.
AllSize(es) ==
    FoldFunctionOnSet(+, 0, [k \in DOMAIN es |-> es[k].entry.size], DOMAIN es)

\* The size of the delivered entries that this leader appended itself.
OwnSize(es) ==
    FoldFunctionOnSet(+, 0, [k \in DOMAIN es |-> es[k].entry.size],
                      {k \in DOMAIN es : es[k].index > last_log_tail_index})

MaybeReduce(es) ==
    IF state # "Leader" THEN uncommitted_size
    ELSE IF OwnSize(es) > uncommitted_size THEN 0
    ELSE uncommitted_size - OwnSize(es)

-----------------------------------------------------------------------------
\* Calls that change the raft state

\* Raft::maybe_commit of a leader that is its own quorum: its matched index is
\* the maximal committed index.
LeaderCommit(un, match) ==
    IF state = "Leader" THEN MaybeCommit(store, un, committed, match, term)
    ELSE committed

\* Mutants: campaign with unapplied configuration changes; count those already
\* applied as well.
AlwaysTrue == TRUE
NoConfInLog ==
    \A i \in store.log.lo..committed : LogEntry(store, unstable, i).type # "conf"

\* hup finds no configuration change that is committed and not applied.
NoUnappliedConf ==
    \A i \in (applied + 1)..committed : LogEntry(store, unstable, i).type # "conf"

\* RawNode::campaign or an election tick: hup, become_candidate, poll (won by
\* the only vote) and become_leader with its empty entry.
Hup ==
    /\ Alive
    /\ stage = "idle"
    /\ state # "Leader"
    /\ NoUnappliedConf
    /\ panics' = Check("hup_slice", applied <= committed /\ store.log.lo <= applied + 1)
                 \cup Check("become_leader_last_index_is_persisted", Last = persisted)
    /\ term' = term + 1
    /\ vote' = ID
    /\ state' = "Leader"
    /\ matched' = persisted
    /\ pending_conf_index' = Last
    /\ uncommitted_size' = 0
    /\ last_log_tail_index' = Last
    /\ unstable' = TruncateAndAppend(unstable,
            Single(Last + 1, [term |-> term + 1, type |-> "normal", size |-> 0]))
    /\ UNCHANGED <<store, disk, committed, persisted, applied, read_states,
                   nodeVars, appVars, read_index, crashes>>

\* RawNode::boot_strap with this node as its only peer, on an empty storage.
BootStrap ==
    /\ Alive
    /\ stage = "idle"
    /\ store.log.hi = 0
    /\ term = 0
    /\ prev_hs' = NoHardState
    /\ term' = 1
    /\ vote' = INVALID_ID
    /\ unstable' = TruncateAndAppend(unstable,
            Single(1, [term |-> 1, type |-> "conf", size |-> 1]))
    /\ committed' = 1
    /\ UNCHANGED <<store, disk, persisted, applied, state, matched,
                   pending_conf_index, uncommitted_size, last_log_tail_index,
                   read_states, prev_state, max_number, records,
                   commit_since_index, appVars, panics, read_index, crashes>>

\* The entry step_leader makes of a proposal: an empty one instead of a
\* configuration change while another one may be unapplied.
ProposedEntry(p) ==
    IF p.type = "conf" /\ HasPendingConf
    THEN [term |-> term, type |-> "normal", size |-> 0]
    ELSE [term |-> term, type |-> p.type, size |-> p.size]

\* RawNode::propose and propose_conf_change.  A proposal refused for its size
\* has moved pending_conf_index nevertheless.
Propose(p) ==
    LET e == ProposedEntry(p) IN
    /\ Alive
    /\ stage = "idle"
    /\ state = "Leader"
    /\ Last < MaxIndex
    /\ pending_conf_index' = IF e.type = "conf" THEN Last + 1 ELSE pending_conf_index
    /\ \/ /\ MaybeIncrease(e.size)
          /\ uncommitted_size' = uncommitted_size + e.size
          /\ unstable' = TruncateAndAppend(unstable, Single(Last + 1, e))
          /\ panics' = Check("append_after_committed", committed <= Last)
       \/ /\ ~MaybeIncrease(e.size)
          /\ UNCHANGED <<uncommitted_size, unstable, panics>>
    /\ UNCHANGED <<store, disk, committed, persisted, applied, state, term, vote,
                   matched, last_log_tail_index, read_states, nodeVars, appVars,
                   read_index, crashes>>

\* Raft::commit_to_current_term
CommitToCurrentTerm == LogTerm(store, unstable, committed) = term

\* RawNode::read_index on a leader; a singleton answers at once.
ReadIndex ==
    /\ Alive
    /\ stage = "idle"
    /\ state = "Leader"
    /\ CommitToCurrentTerm
    /\ Len(read_states) < MaxReads
    /\ read_states' = Append(read_states, committed)
    /\ read_index' = committed
    /\ UNCHANGED <<store, disk, logVars, state, term, vote, matched,
                   pending_conf_index, uncommitted_size, last_log_tail_index,
                   nodeVars, appVars, panics, crashes>>
-----------------------------------------------------------------------------
\* Ready

\* Mutant: committed entries alone do not make a Ready.
HasReadyWithoutNext ==
    \/ state # prev_state
    \/ HardState # prev_hs
    \/ read_states # <<>>
    \/ ~IsEmpty(unstable)

HasReady ==
    \/ state # prev_state
    \/ HardState # prev_hs
    \/ read_states # <<>>
    \/ ~IsEmpty(unstable)
    \/ HasNextEntriesSince(store, committed, persisted, commit_since_index)

\* The indexes a ready may deliver up to: limit_size keeps at least one entry.
DeliverTo(st, com, per) ==
    IF HasNextEntriesSince(st, com, per, commit_since_index)
    THEN NextFrom(st, commit_since_index)..NextTo(com, per)
    ELSE {commit_since_index}

\* gen_light_ready: the entries after commit_since_index up to index to.
Delivered(st, un, to) ==
    IF to = commit_since_index THEN <<>>
    ELSE Delivery(st, un, NextFrom(st, commit_since_index), to)

GetReady ==
    /\ Alive
    /\ stage = "idle"
    /\ HasReady
    /\ max_number < MaxReady
    /\ LET elected == prev_state # "Leader" /\ state = "Leader"
           kept == IF elected THEN <<>> ELSE records
           lastEntry == IF IsEmpty(unstable) THEN NoEntry
                        ELSE <<unstable.hi, unstable.ent[unstable.hi].term>>
       IN /\ panics' = Check("ready_drained_record_has_entries",
                elected => \A k \in DOMAIN records : records[k].last_entry = NoEntry)
          /\ rd' = [number  |-> max_number + 1,
                    entries |-> unstable,
                    hs      |-> IF HardState # prev_hs THEN HardState ELSE NoHs,
                    state   |-> state]
          /\ records' = Append(kept, [number |-> max_number + 1, last_entry |-> lastEntry])
    /\ max_number' = max_number + 1
    /\ read_states' = <<>>
    /\ \E to \in DeliverTo(store, committed, persisted) :
          /\ inbox' = inbox \o Delivered(store, unstable, to)
          /\ uncommitted_size' = MaybeReduce(Delivered(store, unstable, to))
          /\ commit_since_index' = to
    /\ stage' = "ready"
    /\ UNCHANGED <<store, disk, logVars, state, term, vote, matched,
                   pending_conf_index, last_log_tail_index, prev_state, prev_hs,
                   light, sm, durable_number, read_index, crashes>>
-----------------------------------------------------------------------------
\* The application

WriteEntries ==
    /\ Alive
    /\ stage = "ready"
    /\ panics' = Check("storage_append", CanAppend(store, rd.entries))
    /\ store' = StorageAppend(store, rd.entries)
    /\ stage' = "entries"
    /\ UNCHANGED <<disk, logVars, raftVars, nodeVars, rd, light, inbox, sm,
                   durable_number, read_index, crashes>>

WriteHardState ==
    /\ Alive
    /\ stage = "entries"
    /\ store' = IF rd.hs = NoHs THEN store ELSE SetHardState(store, rd.hs)
    /\ stage' = "written"
    /\ UNCHANGED <<disk, logVars, raftVars, nodeVars, rd, light, inbox, sm,
                   durable_number, panics, read_index, crashes>>

\* The newest Ready whose entries and HardState are in store.
WrittenNumber ==
    IF stage \in {"ready", "entries"} THEN max_number - 1 ELSE max_number

Sync ==
    /\ Alive
    /\ <<disk, durable_number>> # <<store, WrittenNumber>>
    /\ disk' = store
    /\ durable_number' = WrittenNumber
    /\ UNCHANGED <<store, logVars, raftVars, nodeVars, stage, rd, light, inbox,
                   sm, panics, read_index, crashes>>

\* One committed entry, once its commit index is on disk (in the stage "light"
\* every Ready is, and only the LightReady's entries may have to wait).  A
\* configuration change is also passed to RawNode::apply_conf_change, which
\* leaves the one voter as it is.
ApplyEntry ==
    /\ Alive
    /\ inbox # <<>>
    /\ Head(inbox).index <= disk.hs.commit \/ (~SaveLightCommit /\ stage = "light")
    /\ sm' = Append(sm, Head(inbox))
    /\ inbox' = Tail(inbox)
    /\ committed' = IF Head(inbox).entry.type = "conf"
                    THEN LeaderCommit(unstable, matched) ELSE committed
    /\ UNCHANGED <<store, disk, unstable, persisted, applied, raftVars, nodeVars,
                   stage, rd, light, durable_number, panics, read_index, crashes>>

\* The application compacts no further than RaftLog::applied.
Compact ==
    /\ Alive
    /\ stage = "idle"
    /\ \E i \in (store.log.lo + 1)..applied : store' = StorageCompact(store, i)
    /\ UNCHANGED <<disk, logVars, raftVars, nodeVars, appVars,
                   panics, read_index, crashes>>
-----------------------------------------------------------------------------
\* Advancing

\* commit_ready: what it asserts, and the unstable log it leaves.
CommitReadyChecks ==
    LET record == records[Len(records)] IN
    Check("commit_ready_number", record.number = rd.number)
    \cup Check("stable_entries", record.last_entry # NoEntry =>
                 CanStable(unstable, record.last_entry[1], record.last_entry[2]))
UnstableAfterCommitReady ==
    IF records[Len(records)].last_entry # NoEntry THEN StableEntries(unstable)
    ELSE unstable
\* Mutant: the HardState of the Ready is not remembered.
PrevHsForgotten == prev_hs
PrevHsAfterCommitReady == IF rd.hs = NoHs THEN prev_hs ELSE rd.hs

\* on_persist_ready(n): the records it pops, the entry it passes on (the last
\* one of those records) and what on_persist_entries makes of the watermarks.
\* Mutant: one record too many is popped.
PoppedOneMore(n) == {k \in DOMAIN records : records[k].number <= n + 1}
PoppedRecords(n) == {k \in DOMAIN records : records[k].number <= n}
RecordsAfterPersist(n) ==
    [k \in 1..(Len(records) - Cardinality(PoppedRecords(n))) |->
        records[k + Cardinality(PoppedRecords(n))]]
PersistedEntry(n) ==
    LET with == {k \in PoppedRecords(n) : records[k].last_entry # NoEntry} IN
    IF with = {} THEN NoEntry
    ELSE records[CHOOSE k \in with : \A j \in with : j <= k].last_entry
PersistedAfter(n, un) ==
    LET e == PersistedEntry(n) IN
    IF e = NoEntry THEN persisted ELSE MaybePersist(store, un, persisted, e[1], e[2])
MatchedAfter(n, un) ==
    LET p == PersistedAfter(n, un) IN
    IF state = "Leader" /\ p > persisted /\ p > matched THEN p ELSE matched
CommittedAfter(n, un) ==
    IF MatchedAfter(n, un) > matched THEN LeaderCommit(un, MatchedAfter(n, un))
    ELSE committed

\* advance_append, and with apply also the advance_apply_to of advance: all
\* Readies are on disk, and advance asks that this one is fully processed.
AdvanceAppend(apply) ==
    LET un  == UnstableAfterCommitReady
        per == PersistedAfter(max_number, un)
        com == CommittedAfter(max_number, un)
        hs  == [term |-> term, vote |-> vote, commit |-> com]
        prev == PrevHsAfterCommitReady
    IN
    /\ Alive
    /\ stage = "written"
    /\ durable_number = max_number
    /\ apply => inbox = <<>>
    /\ unstable' = un
    /\ records' = RecordsAfterPersist(max_number)
    /\ persisted' = per
    /\ matched' = MatchedAfter(max_number, un)
    /\ committed' = com
    /\ \E to \in DeliverTo(store, com, per) :
          /\ inbox' = inbox \o Delivered(store, un, to)
          /\ uncommitted_size' = MaybeReduce(Delivered(store, un, to))
          /\ commit_since_index' = to
    /\ light' = IF com > prev.commit THEN com ELSE 0
    /\ prev_hs' = hs
    /\ prev_state' = rd.state
    /\ applied' = IF apply THEN AppliedTo(applied, commit_since_index) ELSE applied
    /\ panics' = CommitReadyChecks
          \cup Check("advance_append_hard_state",
                     prev.commit <= com /\ prev.term = term /\ prev.vote = vote)
          \cup Check("applied_to", apply => CanApply(com, per, applied, commit_since_index))
    /\ stage' = "light"
    /\ rd' = NoReady
    /\ UNCHANGED <<store, disk, state, term, vote, pending_conf_index,
                   last_log_tail_index, read_states, max_number, sm,
                   durable_number, read_index, crashes>>

\* The application writes the commit index of the LightReady.
WriteCommit ==
    /\ Alive
    /\ stage = "light"
    /\ store' = IF light = 0 \/ ~SaveLightCommit THEN store ELSE SetCommit(store, light)
    /\ light' = 0
    /\ stage' = "idle"
    /\ UNCHANGED <<disk, logVars, raftVars, nodeVars, rd, inbox, sm,
                   durable_number, panics, read_index, crashes>>

\* advance_append_async: the Ready is in store, perhaps not on disk.
AdvanceAppendAsync ==
    /\ Alive
    /\ stage = "written"
    /\ unstable' = UnstableAfterCommitReady
    /\ prev_hs' = PrevHsAfterCommitReady
    /\ prev_state' = rd.state
    /\ panics' = CommitReadyChecks
    /\ stage' = "idle"
    /\ rd' = NoReady
    /\ UNCHANGED <<store, disk, committed, persisted, applied, raftVars,
                   max_number, records, commit_since_index, light, inbox, sm,
                   durable_number, read_index, crashes>>

\* The application reports that the Readies up to n are on disk.
OnPersistReady(n) ==
    /\ Alive
    /\ stage = "idle"
    /\ n <= durable_number
    /\ PoppedRecords(n) # {}
    /\ records' = RecordsAfterPersist(n)
    /\ persisted' = PersistedAfter(n, unstable)
    /\ matched' = MatchedAfter(n, unstable)
    /\ committed' = CommittedAfter(n, unstable)
    /\ UNCHANGED <<store, disk, unstable, applied, state, term, vote,
                   pending_conf_index, uncommitted_size, last_log_tail_index,
                   read_states, prev_state, prev_hs, max_number,
                   commit_since_index, appVars, panics, read_index, crashes>>

\* advance_apply_to with what the state machine has applied.  When nothing is
\* left to apply this is also what advance_apply passes.
AdvanceApply ==
    /\ Alive
    /\ stage = "idle"
    /\ applied < Len(sm)
    /\ applied' = Len(sm)
    /\ panics' = Check("applied_to", CanApply(committed, persisted, applied, Len(sm)))
    /\ UNCHANGED <<store, disk, unstable, committed, persisted, raftVars,
                   nodeVars, appVars, read_index, crashes>>
-----------------------------------------------------------------------------
\* RawNode::new and Raft::new on a storage st: RaftLog::new, load_state unless
\* the HardState is the default, commit_apply, become_follower.
\* Mutant: load_state does not take the commit index.
RestartAtFirst(st) == st.log.lo - 1

RestartCommitted(st) ==
    IF st.hs = NoHardState THEN st.log.lo - 1 ELSE st.hs.commit

RestartHs(st) == [st.hs EXCEPT !.commit = RestartCommitted(st)]

\* A crash loses everything but disk and sm; the node starts again from them.
CrashRestart ==
    /\ Alive
    /\ crashes < MaxCrashes
    /\ crashes' = crashes + 1
    /\ panics' = Check("load_state_commit_out_of_range",
                    disk.hs # NoHardState =>
                      disk.log.lo - 1 <= disk.hs.commit /\ disk.hs.commit <= disk.log.hi)
                 \cup Check("restart_applied_to",
                    CanApply(RestartCommitted(disk), disk.log.hi,
                             disk.log.lo - 1, Len(sm)))
    /\ store' = disk
    /\ unstable' = EmptyAt(disk.log.hi + 1)
    /\ committed' = RestartCommitted(disk)
    /\ persisted' = disk.log.hi
    /\ applied' = AppliedTo(disk.log.lo - 1, Len(sm))
    /\ state' = "Follower"
    /\ term' = disk.hs.term
    /\ vote' = disk.hs.vote
    /\ matched' = disk.log.hi
    /\ pending_conf_index' = 0
    /\ uncommitted_size' = 0
    /\ last_log_tail_index' = 0
    /\ read_states' = <<>>
    /\ prev_state' = "Follower"
    /\ prev_hs' = RestartHs(disk)
    /\ max_number' = 0
    /\ records' = <<>>
    /\ commit_since_index' = Len(sm)
    /\ stage' = "idle"
    /\ rd' = NoReady
    /\ light' = 0
    /\ inbox' = <<>>
    /\ durable_number' = 0
    /\ UNCHANGED <<disk, sm, read_index>>
-----------------------------------------------------------------------------
\* The first start, on an empty storage.
Init ==
    /\ store = NewStorage
    /\ disk = NewStorage
    /\ unstable = EmptyAt(1)
    /\ committed = 0
    /\ persisted = 0
    /\ applied = 0
    /\ state = "Follower"
    /\ term = 0
    /\ vote = INVALID_ID
    /\ matched = 0
    /\ pending_conf_index = 0
    /\ uncommitted_size = 0
    /\ last_log_tail_index = 0
    /\ read_states = <<>>
    /\ prev_state = "Follower"
    /\ prev_hs = NoHardState
    /\ max_number = 0
    /\ records = <<>>
    /\ commit_since_index = 0
    /\ stage = "idle"
    /\ rd = NoReady
    /\ light = 0
    /\ inbox = <<>>
    /\ sm = <<>>
    /\ durable_number = 0
    /\ panics = {}
    /\ read_index = 0
    /\ crashes = 0

\* The calls the application makes on the node, then the application's own
\* steps, then crashes.
Next ==
    \/ Hup
    \/ BootStrap
    \/ \E p \in Proposals : Propose(p)
    \/ ReadIndex
    \/ GetReady
    \/ \E apply \in BOOLEAN : AdvanceAppend(apply)
    \/ AdvanceAppendAsync
    \/ \E n \in 1..MaxReady : OnPersistReady(n)
    \/ AdvanceApply
    \/ WriteEntries
    \/ WriteHardState
    \/ WriteCommit
    \/ Sync
    \/ ApplyEntry
    \/ Compact
    \/ CrashRestart

Spec == Init /\ [][Next]_vars

\* The application's loop keeps running, fsync returns, the clock ticks (which
\* ends in Hup) and every advance call is made in the end.  Clients, reads,
\* compaction and crashes are not fair.
FairSpec ==
    /\ Spec
    /\ WF_vars(Hup)
    /\ WF_vars(GetReady)
    /\ WF_vars(WriteEntries)
    /\ WF_vars(WriteHardState)
    /\ WF_vars(WriteCommit)
    /\ WF_vars(Sync)
    /\ WF_vars(ApplyEntry)
    /\ WF_vars(AdvanceAppendAsync \/ \E apply \in BOOLEAN : AdvanceAppend(apply))
    /\ WF_vars(OnPersistReady(durable_number))
    /\ WF_vars(AdvanceApply)
-----------------------------------------------------------------------------
\* The types of the variables; uncommitted_size, a usize, never underflows.
\* No vote is cast in term 0.
HardStates == {hs \in [term : Nat, vote : {INVALID_ID, ID}, commit : Nat] :
                  hs.term = 0 => hs.vote = INVALID_ID}

IsStorage(s) ==
    /\ s = [log |-> s.log, hs |-> s.hs]
    /\ IsSegment(s.log)
    /\ s.hs \in HardStates

ReadyRecord == [number : Nat, last_entry : {NoEntry} \cup (Nat \X Nat)]

IsReady(r) ==
    /\ r = [number |-> r.number, entries |-> r.entries, hs |-> r.hs, state |-> r.state]
    /\ r.number \in Nat
    /\ IsSegment(r.entries)
    /\ r.hs = NoHs \/ r.hs \in HardStates
    /\ r.state \in {"Follower", "Leader"}

\* Entries the application holds, with their indexes.
AppEntry == [index : Nat, entry : Entry]

LogTypes ==
    /\ IsStorage(store) /\ IsStorage(disk)
    /\ IsSegment(unstable)
    /\ committed \in Nat /\ persisted \in Nat /\ applied \in Nat

RaftTypes ==
    /\ state \in {"Follower", "Leader"}
    /\ term \in Nat
    /\ vote \in {INVALID_ID, ID}
    /\ matched \in Nat
    /\ pending_conf_index \in Nat
    /\ last_log_tail_index \in Nat
    /\ read_states \in Seq(Nat)

NodeTypes ==
    /\ prev_state \in {"Follower", "Leader"}
    /\ prev_hs \in HardStates
    /\ max_number \in Nat
    /\ commit_since_index \in Nat
    /\ records \in Seq(ReadyRecord)

AppTypes ==
    /\ stage \in {"idle", "ready", "entries", "written", "light"}
    /\ IsReady(rd)
    /\ light \in Nat
    /\ inbox \in Seq(AppEntry)
    /\ sm \in Seq(AppEntry)
    /\ durable_number \in Nat
    /\ read_index \in Nat
    /\ crashes \in Nat

StateTypes == LogTypes /\ RaftTypes /\ NodeTypes /\ AppTypes

TypeOK == StateTypes /\ uncommitted_size \in Nat

\* No assertion or fatal! of the code fails: neither in the pipeline nor in
\* Raft::new when the node starts again from what a crash left.
NoPanic == panics = {}

\* LightReady::commit_index "is not required to save it to stable storage"
\* (raw_node.rs:253): a node whose application does not save it, and applies
\* the LightReady's entries, can start again.
RestartWithoutLightCommit == "restart_applied_to" \notin panics

\* What the application is handed (Ready and LightReady committed_entries)
\* continues what its state machine has, without a gap and without a
\* duplicate, also across restarts, and commit_since_index says how far.
InOrder ==
    /\ \A k \in 1..Len(sm) : sm[k].index = k
    /\ \A k \in 1..Len(inbox) : inbox[k].index = Len(sm) + k
    /\ commit_since_index = Len(sm) + Len(inbox)

\* Every entry handed to the application is on disk, or compacted there after
\* it was applied, and is the very entry the disk holds: committed_entries
\* "have previously been committed to stable store".
HandedOutIsDurable ==
    LET Durable(d) == /\ d.index <= disk.log.hi
                      /\ d.index >= disk.log.lo => disk.log.ent[d.index] = d.entry
    IN /\ \A k \in 1..Len(sm) : Durable(sm[k])
       /\ \A k \in 1..Len(inbox) : Durable(inbox[k])
       /\ disk.log.lo <= Len(sm) + 1

\* The invariants RaftLog documents on its fields, when no storage write of
\* a follower is outstanding: applied <= min(committed, persisted) and
\* persisted < unstable.offset.
LogWatermarks ==
    /\ applied <= committed
    /\ applied <= persisted
    /\ persisted < unstable.lo

\* RaftLog.persisted, on which commit and delivery rest, never runs ahead of
\* the disk although Readies reach the disk late and out of step with the
\* calls that report them.
PersistedIsDurable ==
    /\ persisted <= disk.log.hi
    /\ \A i \in store.log.lo..persisted :
          Has(disk.log, i) /\ disk.log.ent[i] = store.log.ent[i]

\* No HardState update is lost between Ready, LightReady and the previous
\* HardState the node compares with: between two Readies the storage holds
\* exactly what the node believes it holds.
NoLostHardState == stage = "idle" => store.hs = prev_hs

\* The node never has more than one configuration change in its log that is
\* not applied yet, restarts and refused proposals included.
OneUnappliedConf ==
    \A i, j \in (applied + 1)..Last :
        /\ LogEntry(store, unstable, i).type = "conf"
        /\ LogEntry(store, unstable, j).type = "conf"
        => i = j

\* A leader's uncommitted_size is exactly the size of what it has appended in
\* its term and not handed to the application yet.
UncommittedAccounting ==
    LET first == 1 + IF last_log_tail_index > commit_since_index
                     THEN last_log_tail_index ELSE commit_since_index
    IN state = "Leader" =>
         uncommitted_size = FoldFunctionOnSet(+, 0,
             [i \in first..Last |-> LogEntry(store, unstable, i).size], first..Last)

\* A HardState that may follow an old one.
NotOlder(old, new) ==
    /\ old.term <= new.term
    /\ old.commit <= new.commit
    /\ old.term = new.term /\ old.vote # INVALID_ID => new.vote = old.vote

\* The term on disk never goes back, a vote cast in a term is never changed
\* in that term, and the commit index on disk never goes back.
HardStateMonotone == [][NotOlder(disk.hs, disk.hs')]_vars

\* The pipeline implements the log it promises: decided is what is on disk,
\* the compacted part included.
Abstract == INSTANCE DurableLog WITH
    decided <- [i \in 1..disk.log.hi |->
                   IF i < disk.log.lo THEN sm[i].entry ELSE disk.log.ent[i]],
    taken <- Len(sm),
    read <- read_index
ImplementsDurableLog == Abstract!DSpec

\* What is on disk is applied in the end: commit, delivery and the commit
\* index on disk follow, however the Readies are persisted and reported.
DurableIsApplied ==
    \A i \in 1..(MaxIndex + MaxCrashes + 1) : (disk.log.hi >= i) ~> (Len(sm) >= i)

\* The node is leader again and again: neither a configuration change waiting
\* to be applied nor a restart keeps it from campaigning for ever.
LeaderAgain == []<>(state = "Leader")
=============================================================================
