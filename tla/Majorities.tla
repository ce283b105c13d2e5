----------------------------- MODULE Majorities -----------------------------
(***************************************************************************)
(* Decisions of a majority and of a joint configuration (quorum/): which   *)
(* index is committed and how a vote stands.  A joint configuration is two *)
(* sets of voters, incoming and outgoing; outgoing is empty when there is  *)
(* only one.                                                               *)
(***************************************************************************)
EXTENDS Integers, FiniteSets

\* u64::MAX, what an empty half commits: above every index of a model.
Infinity == 1000000

Majority(total) == (total \div 2) + 1

Smaller(a, b) == IF a <= b THEN a ELSE b

\* The voters in the order of their indexes, the highest first. HashSet does
\* not say how voters with the same index follow each other.
Sorted(voters, index) ==
    {s \in [1..Cardinality(voters) -> voters] :
        /\ \A i, j \in DOMAIN s : i < j => s[i] # s[j] /\ index[s[i]] >= index[s[j]]}

First(places) == CHOOSE i \in places : \A j \in places : i <= j

\* Mutant: group 0, which is no group, counts as one.
CheckedGroupOfQuorum(s, group) == group[s[Majority(Cardinality(DOMAIN s))]]

\* The group the others are compared with: that of the quorum index, or the
\* first one when the peer at the quorum index has none.
CheckedGroup(s, group) ==
    LET q       == group[s[Majority(Cardinality(DOMAIN s))]]
        grouped == {i \in DOMAIN s : group[s[i]] # 0}
    IN  IF q # 0 \/ grouped = {} THEN q
        ELSE group[s[First(grouped)]]

\* The committed index, and whether it was found by group commit, of voters in
\* the order s.
GroupCommitted(s, index, group) ==
    LET quorum == index[s[Majority(Cardinality(DOMAIN s))]]
        other  == {i \in DOMAIN s : group[s[i]] \notin {0, CheckedGroup(s, group)}}
    IN  IF other # {} THEN <<Smaller(index[s[First(other)]], quorum), TRUE>>
        ELSE IF \A i \in DOMAIN s : group[s[i]] # 0 THEN <<quorum, FALSE>>
        ELSE <<index[s[Cardinality(DOMAIN s)]], FALSE>>

\* MajorityConfig::committed_index: one result for each order.
CommittedIndexes(voters, useGroups, index, group) ==
    IF voters = {} THEN {<<Infinity, TRUE>>}
    ELSE {IF useGroups THEN GroupCommitted(s, index, group)
          ELSE <<index[s[Majority(Cardinality(voters))]], FALSE>> :
             s \in Sorted(voters, index)}

JointCommittedIndexes(incoming, outgoing, useGroups, index, group) ==
    {<<Smaller(i[1], o[1]), i[2] /\ o[2]>> :
        i \in CommittedIndexes(incoming, useGroups, index, group),
        o \in CommittedIndexes(outgoing, useGroups, index, group)}

-----------------------------------------------------------------------------

\* How the vote stands when yes voted for and missing did not vote.
VoteResult(voters, yes, missing) ==
    LET y == Cardinality(voters \cap yes)
        m == Cardinality(voters \cap missing)
        q == Majority(Cardinality(voters))
    IN  IF voters = {} \/ y >= q THEN "won"
        ELSE IF y + m >= q THEN "pending" ELSE "lost"

\* Mutant: half of a joint configuration can win.
EitherHalfWins(i, o) ==
    IF "won" \in {i, o} THEN "won" ELSE IF "lost" \in {i, o} THEN "lost" ELSE "pending"

BothHalves(i, o) ==
    IF {i, o} = {"won"} THEN "won" ELSE IF "lost" \in {i, o} THEN "lost" ELSE "pending"

JointVoteResult(incoming, outgoing, yes, missing) ==
    BothHalves(VoteResult(incoming, yes, missing), VoteResult(outgoing, yes, missing))

\* ProgressTracker::has_quorum: every other voter stays silent.
HasQuorum(incoming, outgoing, S) ==
    JointVoteResult(incoming, outgoing, S, (incoming \cup outgoing) \ S) = "won"
=============================================================================
