----------------------------- MODULE MemStorage -----------------------------
(***************************************************************************)
(* MemStorageCore (storage.rs) as a value: the log it holds and its        *)
(* HardState.  Its snapshot_metadata stays at its default (index 0, term   *)
(* 0), as it does until apply_snapshot is called, so first_index of an     *)
(* empty storage is 1.  Each operation has a result and, where the code    *)
(* panics, a predicate that says when it does not.                         *)
(***************************************************************************)
EXTENDS LogSegment

NoHardState == [term |-> 0, vote |-> 0, commit |-> 0]

NewStorage == [log |-> EmptyAt(1), hs |-> NoHardState]

\* Err(Compacted) and Err(Unavailable): no term at all.
NoTerm == -1

StorageTerm(s, i) ==
    IF i = 0 THEN 0
    ELSE IF Has(s.log, i) THEN s.log.ent[i].term ELSE NoTerm

\* MemStorageCore::append neither overwrites compacted logs nor leaves a gap.
CanAppend(s, t) == IsEmpty(t) \/ (s.log.lo <= t.lo /\ t.lo <= s.log.hi + 1)

StorageAppend(s, t) ==
    IF IsEmpty(t) THEN s ELSE [s EXCEPT !.log = Splice(s.log, t)]

\* Mutant: compaction moves first_index without draining the entries.
CompactKeepsEntries(s, i) == [s EXCEPT !.log.lo = i]

StorageCompact(s, i) ==
    IF i <= s.log.lo THEN s ELSE [s EXCEPT !.log = From(s.log, i)]

SetHardState(s, hs) == [s EXCEPT !.hs = hs]

SetCommit(s, c) == [s EXCEPT !.hs.commit = c]
=============================================================================
