----------------------------- MODULE RawNodeInv -----------------------------
(***************************************************************************)
(* The inductive invariant of RawNode for an application that saves the    *)
(* commit index of a LightReady (SaveLightCommit).  With one voter the log *)
(* is never truncated, so the disk is always behind the storage, and the   *)
(* storage behind the log the node sees; the invariant says how far each   *)
(* of them may be behind in each stage of the application's loop.          *)
(***************************************************************************)
EXTENDS RawNode

InReady == stage \in {"ready", "entries", "written"}

\* The unstable entries follow the storage, or were just written to it.  A
\* Ready that is out holds them, and its record is the last one.
ReadyShape ==
    /\ stage \notin {"entries", "written"} \/ IsEmpty(unstable)
          => unstable.lo = store.log.hi + 1
    /\ stage \in {"entries", "written"} /\ ~IsEmpty(unstable)
          => /\ store.log.lo <= unstable.lo
             /\ store.log.hi = unstable.hi
             /\ \A i \in unstable.lo..unstable.hi :
                   store.log.ent[i] = unstable.ent[i]
    /\ InReady =>
          /\ rd.entries = unstable
          /\ rd.number = max_number
          /\ rd.state = state
          /\ records # <<>>
          /\ records[Len(records)].last_entry =
                IF IsEmpty(unstable) THEN NoEntry
                ELSE <<unstable.hi, unstable.ent[unstable.hi].term>>
    /\ stage = "light" => IsEmpty(unstable) /\ prev_state = state

\* The disk lags behind the storage: fewer entries, an older HardState.
DiskBehind ==
    /\ disk.log.lo <= store.log.lo
    /\ disk.log.hi <= store.log.hi
    /\ \A i \in store.log.lo..disk.log.hi : disk.log.ent[i] = store.log.ent[i]
    /\ NotOlder(disk.hs, store.hs)
    /\ disk.hs.commit <= disk.log.hi

\* The order of all the indexes the node and the application keep.
Watermarks ==
    /\ store.log.lo <= applied + 1
    /\ applied <= Len(sm)
    /\ commit_since_index <= persisted
    /\ commit_since_index <= committed
    /\ matched <= persisted
    /\ persisted <= disk.log.hi
    /\ persisted < unstable.lo
    /\ committed <= Last
    /\ Len(sm) <= disk.hs.commit

\* The entries of a record are not persisted yet, and are in storage or on disk
\* when their Ready is.
RecordPlace(r) ==
    r.last_entry # NoEntry =>
        /\ persisted < r.last_entry[1]
        /\ r.last_entry[1] <= Last
        /\ r.number <= WrittenNumber => r.last_entry[1] <= store.log.hi
        /\ r.number <= durable_number => r.last_entry[1] <= disk.log.hi

\* Records are numbered one after the other, and their entries follow one
\* another.
RecordsOK ==
    /\ durable_number <= WrittenNumber
    /\ \A k \in DOMAIN records :
          records[k].number = max_number - Len(records) + k
    /\ \A k \in DOMAIN records : RecordPlace(records[k])
    /\ \A j, k \in DOMAIN records :
          j < k /\ records[j].last_entry # NoEntry /\ records[k].last_entry # NoEntry
             => records[j].last_entry[1] < records[k].last_entry[1]

\* A leader that has not given out its first Ready has no entries to drain.
NothingToDrain ==
    stage = "idle" /\ prev_state # "Leader" /\ state = "Leader"
        => \A k \in DOMAIN records : records[k].last_entry = NoEntry

\* The HardState the storage has when the Ready or LightReady that is out has
\* been written.
WrittenHs ==
    IF stage \in {"ready", "entries"} /\ rd.hs # NoHs THEN rd.hs
    ELSE IF stage = "light" /\ light # 0 THEN [store.hs EXCEPT !.commit = light]
    ELSE store.hs

HardStatesOK ==
    /\ NotOlder(store.hs, WrittenHs)
    /\ NotOlder(WrittenHs, HardState)
    /\ store.hs.commit <= store.log.hi
    /\ IF InReady
       THEN /\ PrevHsAfterCommitReady = WrittenHs
            /\ WrittenHs.term = term
            /\ WrittenHs.vote = vote
       ELSE prev_hs = WrittenHs
    /\ term = 0 => vote = INVALID_ID

\* Only boot_strap gives a follower an entry that is not persisted: one
\* configuration change, which keeps it from campaigning until it is applied.
FollowerLog ==
    /\ state = "Follower" =>
          \/ Last = persisted
          \/ /\ Last = 1
             /\ store.log.lo = 1
             /\ committed >= 1
             /\ LogEntry(store, unstable, 1).type = "conf"
    /\ term = 0 => IsEmpty(unstable) /\ state = "Follower"

\* Everything above, with the properties that are inductive together with it.
IInv ==
    /\ StateTypes
    /\ ReadyShape
    /\ DiskBehind
    /\ Watermarks
    /\ RecordsOK
    /\ NothingToDrain
    /\ HardStatesOK
    /\ FollowerLog
    /\ InOrder
    /\ HandedOutIsDurable
    /\ NoPanic

-----------------------------------------------------------------------------
\* What holds of the entries and of reads besides, given IInv.

\* A leader knows how far a configuration change may be that is not applied.
ConfOK ==
    /\ OneUnappliedConf
    /\ state = "Leader" =>
          \A i \in (applied + 1)..Last :
             LogEntry(store, unstable, i).type = "conf" => i <= pending_conf_index

\* The entry a HardState says is committed is of its term or an earlier one.  An
\* entry may be on disk before the HardState of its term, so this is not true of
\* all entries.
CommitTermOK(hs) ==
    hs.commit \in store.log.lo..Last => LogEntry(store, unstable, hs.commit).term <= hs.term

CommitTermsOK ==
    /\ Has(disk.log, disk.hs.commit) => disk.log.ent[disk.hs.commit].term <= disk.hs.term
    /\ CommitTermOK(store.hs)
    /\ CommitTermOK(WrittenHs)
    /\ CommitTermOK(HardState)

\* A leader commits nothing it has not persisted, and before it has committed in its
\* term it may not know of all that was read before.
ReadOK ==
    /\ read_index <= disk.log.hi
    /\ state = "Leader" =>
          /\ read_index <= matched
          /\ committed <= matched
          /\ read_index <= committed \/ ~CommitToCurrentTerm

LogInv == ConfOK /\ CommitTermsOK /\ ReadOK

\* What a leader has appended in its term starts within the log, and its size is
\* accounted for.  Nothing is said of the size a follower remembers.
SizesOK ==
    /\ uncommitted_size \in Nat
    /\ UncommittedAccounting
    /\ state = "Leader" => last_log_tail_index <= Last
=============================================================================
