------------------------------ MODULE RaftLog -------------------------------
(***************************************************************************)
(* RaftLog (raft_log.rs) and its Unstable tail (log_unstable.rs) as        *)
(* operators on a storage st and an unstable segment un, when no snapshot  *)
(* is pending.  The log the node sees is un on top of st: un wins wherever *)
(* it has an entry.                                                        *)
(***************************************************************************)
EXTENDS MemStorage

LastIndex(st, un) == IF IsEmpty(un) THEN st.log.hi ELSE un.hi

\* 0 outside first_index - 1 .. last_index, NoTerm when storage has an error.
LogTerm(st, un, i) ==
    IF i < st.log.lo - 1 \/ i > LastIndex(st, un) THEN 0
    ELSE IF Has(un, i) THEN un.ent[i].term
    ELSE StorageTerm(st, i)

\* The entry a slice reads at index i: below the offset from storage.
LogEntry(st, un, i) == IF i < un.lo THEN st.log.ent[i] ELSE un.ent[i]

\* Mutant: unstable entries behind the new ones are kept.
AppendKeepsTail(un, t) ==
    IF t.lo < un.lo \/ un.hi <= t.hi THEN t
    ELSE [un EXCEPT !.ent = [k \in un.lo..un.hi |->
                                IF Has(t, k) THEN t.ent[k] ELSE un.ent[k]]]

TruncateAndAppend(un, t) == IF t.lo <= un.lo THEN t ELSE Splice(un, t)

\* stable_entries demands that the last unstable entry is the given one.
CanStable(un, index, term) ==
    ~IsEmpty(un) /\ un.hi = index /\ un.ent[un.hi].term = term

\* Mutant: the offset moves one index too far.
StableSkipsOne(un) == EmptyAt(un.hi + 2)

StableEntries(un) == EmptyAt(un.hi + 1)

\* Mutants: deliver from index since itself; deliver before it is persisted.
NextFromSince(st, since) == IF since >= st.log.lo THEN since ELSE st.log.lo
NextToCommitted(committed, persisted) == committed

\* The next committed and persisted entries after index since, first and last.
NextFrom(st, since) == IF since + 1 >= st.log.lo THEN since + 1 ELSE st.log.lo
NextTo(committed, persisted) ==
    IF committed <= persisted THEN committed ELSE persisted
HasNextEntriesSince(st, committed, persisted, since) ==
    NextTo(committed, persisted) >= NextFrom(st, since)

MaybeCommit(st, un, committed, maxIndex, term) ==
    IF maxIndex > committed /\ LogTerm(st, un, maxIndex) = term
    THEN maxIndex ELSE committed

\* The persisted index after maybe_persist(index, term).
MaybePersist(st, un, persisted, index, term) ==
    IF index > persisted /\ index < un.lo /\ StorageTerm(st, index) = term
    THEN index ELSE persisted

\* applied_to(i) neither goes back nor passes what is committed and persisted.
CanApply(committed, persisted, applied, i) ==
    i = 0 \/ (applied <= i /\ i <= NextTo(committed, persisted))

AppliedTo(applied, i) == IF i = 0 THEN applied ELSE i
=============================================================================
