----------------------------- MODULE FollowerInv -----------------------------
(***************************************************************************)
(* The inductive invariant of FollowerLog for an application that takes    *)
(* the snapshot of a Ready from RawNode::snap (ReadySnapshot is FALSE).    *)
(* The logs of all the leaders match one another; the log of the follower  *)
(* is the beginning of one of them, whatever was truncated, restored or    *)
(* written meanwhile; and so is every image of storage that is still on    *)
(* its way to the disk.                                                    *)
(***************************************************************************)
EXTENDS FollowerLog

\* The logs there were and there is.
Logs == past \cup {leader_log}

\* The term of an index of such a log.
TermIn(log, i) == IF i = 0 THEN 0 ELSE log[i]

\* What the group promises: terms that do not decrease, none of the present term
\* in an earlier log, and logs that are the same up to where they have a term in
\* common.
GroupTypes ==
    /\ leader_log \in Seq(Nat)
    /\ past \subseteq Seq(Nat)
    /\ term \in Nat \ {0}
    /\ leader_commit \in 0..Len(leader_log)

TermsOrdered ==
    /\ \A log \in Logs : \A i \in 1..Len(log) : log[i] \in 1..term
    /\ \A log \in past : \A i \in 1..Len(log) : log[i] < term
    /\ \A log \in Logs : \A i, j \in 1..Len(log) : i <= j => log[i] <= log[j]

LogsMatch ==
    \A a, b \in Logs : \A i \in 1..Len(a) :
        i <= Len(b) /\ a[i] = b[i] => \A j \in 1..i : a[j] = b[j]

GroupInv == GroupTypes /\ TermsOrdered /\ LogsMatch

-----------------------------------------------------------------------------

Elements(s) == {s[j] : j \in DOMAIN s}

IsRecord(r) ==
    /\ r = [snap |-> r.snap, image |-> r.image, ack |-> r.ack,
            index |-> r.index, term |-> r.term]
    /\ r.snap \in Nat /\ r.ack \in Nat /\ r.index \in Nat /\ r.term \in Nat
    /\ IsSegment(r.image)

NodeTypes ==
    /\ store = [log |-> store.log, meta |-> store.meta]
    /\ IsSegment(store.log) /\ IsSegment(unstable)
    /\ store.meta \in [index : Nat, term : Nat]
    /\ snap \in [index : Nat, term : Nat]
    /\ {committed, persisted, applied, answered, acked} \subseteq Nat
    /\ records \in Seq(Elements(records))
    /\ \A j \in DOMAIN records : IsRecord(records[j])

\* Storage goes on from its snapshot, and a pending snapshot or the unstable entries
\* go on from storage.
LogShape ==
    /\ store.log.lo = store.meta.index + 1
    /\ snap # NoSnap => snap.index # 0 /\ unstable.lo = snap.index + 1
    /\ snap = NoSnap =>
          /\ store.log.lo <= unstable.lo
          /\ unstable.lo <= store.log.hi + 1
          /\ IsEmpty(unstable) => unstable.lo = store.log.hi + 1

\* The follower's log is the beginning of a log of the group.
Mirrors(log) ==
    /\ LastIdx <= Len(log)
    /\ \A i \in (FirstIndex - 1)..LastIdx : TermAt(i) = TermIn(log, i)

MirrorsOne == \E log \in Logs : Mirrors(log)

\* A heartbeat may commit beyond the log, and end the node with it.
Watermarks ==
    /\ Alive => committed <= LastIdx
    /\ store.meta.index <= committed
    /\ snap.index <= committed
    /\ snap # NoSnap => store.meta.index < snap.index /\ persisted <= snap.index
    /\ acked <= answered
    /\ answered <= Len(leader_log)

\* What was answered in a Ready, and the snapshot it had, is never ahead of the node.
RecordPlaces ==
    \A j \in DOMAIN records :
        /\ records[j].ack <= answered
        /\ records[j].snap <= committed
        /\ records[j].snap < unstable.lo
        /\ snap # NoSnap => records[j].snap <= snap.index

-----------------------------------------------------------------------------

\* An image of storage is the beginning of one of the logs too, and the entry of its
\* record the last one it has.
ImageIn(r, logs) ==
    /\ \E log \in logs :
          /\ r.image.hi <= Len(log)
          /\ \A i \in r.image.lo..r.image.hi : r.image.ent[i].term = log[i]
    /\ r.index # 0 => /\ Has(r.image, r.index)
                      /\ r.image.ent[r.index].term = r.term
    /\ r.snap # 0 => r.image.lo = r.snap + 1

\* Only a snapshot changes where storage begins, and only a snapshot or entries
\* change storage.
NoSnapIn(rs, a, b) == \A m \in a..b : rs[m].snap = 0
NothingIn(rs, a, b) == \A m \in a..b : rs[m].snap = 0 /\ rs[m].index = 0

ImagesFollow(rs, log) ==
    /\ \A j, k \in DOMAIN rs : j < k =>
          /\ NoSnapIn(rs, j + 1, k) => rs[k].image.lo = rs[j].image.lo
          /\ NothingIn(rs, j + 1, k) => rs[k].image = rs[j].image
    /\ \A j \in DOMAIN rs :
          /\ NoSnapIn(rs, j + 1, Len(rs)) => log.lo = rs[j].image.lo
          /\ NothingIn(rs, j + 1, Len(rs)) => log = rs[j].image

Images ==
    /\ \A j \in DOMAIN records : ImageIn(records[j], Logs)
    /\ ImagesFollow(records, store.log)

-----------------------------------------------------------------------------

\* Everything but the images, with the properties that are inductive together with it.
NodeInv ==
    /\ GroupInv
    /\ NodeTypes
    /\ LogShape
    /\ MirrorsOne
    /\ Watermarks
    /\ RecordPlaces
    /\ FollowerNoPanic
    /\ CommittedIsChosen
    /\ AckedIsLeaders

IInv == NodeInv /\ Images
=============================================================================
