------------------------------ MODULE Tracker -------------------------------
(***************************************************************************)
(* ProgressTracker (tracker/mod.rs) of a fixed configuration: the indexes  *)
(* its peers acknowledged, their commit groups, and the votes of an        *)
(* election.  Every configuration over Ids is an initial state; peers that *)
(* are no voters are learners.  Of a Progress only what the quorums read   *)
(* is here.  What a leader commits when an action changes it is            *)
(* MaximalCommittedIndexes of the new state.  A candidate records votes, a *)
(* leader acknowledgements, and a change of role forgets both.             *)
(***************************************************************************)
EXTENDS Majorities

CONSTANTS
    Ids,            \* the peers
    Groups,         \* commit groups other than 0, which is none
    MaxMatched      \* bound: the indexes acknowledged

ASSUME TrackerAssumption ==
    /\ IsFiniteSet(Ids)
    /\ Groups \subseteq Nat \ {0}
    /\ MaxMatched \in Nat /\ MaxMatched < Infinity

VARIABLES
    electing,               \* Raft's role: candidate, or else leader
    incoming, outgoing,     \* conf.voters
    matched, group,         \* progress: matched and commit_group_id
    group_commit,
    votes                   \* peer -> "yes", "no" or "none"

vars == <<electing, incoming, outgoing, matched, group, group_commit, votes>>

NoVotes == [id \in Ids |-> "none"]

Yes == {id \in Ids : votes[id] = "yes"}
Missing == {id \in Ids : votes[id] = "none"}
Result == JointVoteResult(incoming, outgoing, Yes, Missing)

Init ==
    /\ electing = TRUE
    /\ incoming \in (SUBSET Ids) \ {{}}
    /\ outgoing \in SUBSET Ids
    /\ matched = [id \in Ids |-> 0]
    /\ group = [id \in Ids |-> 0]
    /\ group_commit = FALSE
    /\ votes = NoVotes

\* An acknowledgement of index n: an older one changes nothing.
MaybeUpdate(id, n) ==
    /\ ~electing
    /\ matched[id] < n
    /\ matched' = [matched EXCEPT ![id] = n]
    /\ UNCHANGED <<electing, incoming, outgoing, group, group_commit, votes>>

AssignCommitGroup(id, g) ==
    /\ group' = [group EXCEPT ![id] = g]
    /\ UNCHANGED <<electing, incoming, outgoing, matched, group_commit, votes>>

ClearCommitGroup ==
    /\ group' = [id \in Ids |-> 0]
    /\ UNCHANGED <<electing, incoming, outgoing, matched, group_commit, votes>>

EnableGroupCommit(enable) ==
    /\ group_commit' = enable
    /\ UNCHANGED <<electing, incoming, outgoing, matched, group, votes>>

\* Mutant: a later vote replaces the first one.
LastVoteCounts(id, v) == [votes EXCEPT ![id] = v]

\* The first vote of a peer counts.
RecordedVote(id, v) == [votes EXCEPT ![id] = IF @ = "none" THEN v ELSE @]

RecordVote(id, v) ==
    /\ electing = TRUE
    /\ votes' = RecordedVote(id, v)
    /\ UNCHANGED <<electing, incoming, outgoing, matched, group, group_commit>>

\* What Raft::reset does to the tracker; the groups stay.
Reset ==
    /\ matched' = [id \in Ids |-> 0]
    /\ votes' = NoVotes
    /\ UNCHANGED <<incoming, outgoing, group, group_commit>>

BecomeLeader == electing /\ Result = "won" /\ electing' = FALSE /\ Reset

\* A new campaign, of a leader that stepped down too.
BecomeCandidate == electing' = TRUE /\ Reset

Next ==
    \/ \E id \in Ids :
          \/ \E n \in 1..MaxMatched : MaybeUpdate(id, n)
          \/ \E g \in Groups : AssignCommitGroup(id, g)
          \/ \E v \in {"yes", "no"} : RecordVote(id, v)
    \/ ClearCommitGroup
    \/ \E enable \in BOOLEAN : EnableGroupCommit(enable)
    \/ BecomeLeader \/ BecomeCandidate

Spec == Init /\ [][Next]_vars

-----------------------------------------------------------------------------

Halves == {incoming, outgoing} \ {{}}

\* More than half of half have acknowledged index n.
AckedByMost(half, n) == 2 * Cardinality({id \in half : matched[id] >= n}) > Cardinality(half)

MaximalCommittedIndexes ==
    JointCommittedIndexes(incoming, outgoing, group_commit, matched, group)

\* The committed index of a leader is the highest one that more than half of
\* both halves of the configuration acknowledged, for odd and even, single and
\* overlapping halves (maximal_committed_index).
CommittedByMost ==
    LET highest == {n \in 0..MaxMatched :
                       /\ \A half \in Halves : AckedByMost(half, n)
                       /\ \E half \in Halves : ~AckedByMost(half, n + 1)}
    IN  ~group_commit =>
            {c[1] : c \in MaximalCommittedIndexes} = highest /\ Cardinality(highest) = 1

\* The voters of a half with index n span two groups.
TwoGroups(half, n) ==
    \E a, b \in half : /\ 0 \notin {group[a], group[b]} /\ group[a] # group[b]
                       /\ matched[a] >= n /\ matched[b] >= n

\* The voters of a half are of two groups at least.
Spanned(half) == Cardinality({group[id] : id \in half} \ {0}) >= 2

\* What a half commits by groups.
MayCommit(half, n) ==
    /\ AckedByMost(half, n)
    /\ Spanned(half) => TwoGroups(half, n)
    /\ ~Spanned(half) /\ (\E id \in half : group[id] = 0) => \A id \in half : matched[id] >= n

\* With group commit and peers of two groups in a half, what is committed is
\* replicated to two groups ("only logs replicated to at lease two different
\* groups are committed", raft.rs:496), and it is the highest such index that a
\* majority has too. Where all peers are of one group it is the majority's, and
\* where some have none it is what all have. The order of equal indexes in the
\* hash set makes no difference.
GroupCommitSpansGroups ==
    group_commit =>
        \A c \in MaximalCommittedIndexes :
            /\ \A half \in Halves : MayCommit(half, c[1])
            /\ \E half \in Halves : ~MayCommit(half, c[1] + 1)
            /\ c[2] <=> \A half \in Halves : Spanned(half)

\* What a leader commits is what the definition of its quorum says.
CommittedIsReplicated == CommittedByMost /\ GroupCommitSpansGroups

Elects(S) == \A half \in Halves : 2 * Cardinality(half \cap S) > Cardinality(half)

\* A vote is won when the peers that said yes are more than half of both halves,
\* lost when even the missing ones could not make them so, and else pending
\* (vote_result).
VoteStandsAsCast ==
    Result = IF Elects(Yes) THEN "won"
             ELSE IF Elects(Yes \cup Missing) THEN "pending" ELSE "lost"

\* Until the votes are forgotten for the next election a vote that is decided
\* stays decided, whatever answers come late, twice or changed (record_vote).
DecidedStaysDecided ==
    [][Result # "pending" /\ votes' # NoVotes => Result' = Result]_vars
=============================================================================
