--------------------------- MODULE ElectionProofs ---------------------------
(***************************************************************************)
(* Proofs about Election: IInv of module ElectionInv is inductive, and     *)
(* what follows from it, for any number of servers and for all scenarios.  *)
(*                                                                         *)
(* Every action makes one server something else and sends messages         *)
(* (Become).  The first part shows what such a step must keep to (Legal)   *)
(* so that the invariant holds after it, one lemma for each part of the    *)
(* invariant; the second part shows that every action keeps to it.         *)
(***************************************************************************)
EXTENDS ElectionInv, SequenceTheorems, FiniteSetTheorems, NaturalsInduction,
        WellFoundedInduction, TLAPS

-----------------------------------------------------------------------------
\* Quorums

\* A vote is won by more than half of the voters (MajorityConfig::vote_result with
\* majority); nobody has to win the vote of an empty half.
LEMMA WonByMajority ==
    ASSUME NEW V, IsFiniteSet(V), NEW yes, NEW missing
    PROVE  /\ Cardinality(V) \in Nat /\ Cardinality(V \cap yes) \in Nat
           /\ VoteResult(V, yes, missing) = "won"
                <=> V = {} \/ 2 * Cardinality(V \cap yes) > Cardinality(V)
<1>1. IsFiniteSet(V \cap yes) /\ IsFiniteSet(V \cap missing)
  BY FS_Intersection
<1>2. /\ Cardinality(V) \in Nat
      /\ Cardinality(V \cap yes) \in Nat
      /\ Cardinality(V \cap missing) \in Nat
  BY <1>1, FS_CardinalityType
<1>3. Cardinality(V \cap yes) >= Majority(Cardinality(V))
        <=> 2 * Cardinality(V \cap yes) > Cardinality(V)
  BY <1>2 DEF Majority
<1> QED
  BY <1>2, <1>3 DEF VoteResult

\* A joint vote is won when both halves are (JointConfig::vote_result).
LEMMA JointWon ==
    ASSUME NEW I, NEW O, NEW yes, NEW missing
    PROVE  JointVoteResult(I, O, yes, missing) = "won"
             <=> /\ VoteResult(I, yes, missing) = "won"
                 /\ VoteResult(O, yes, missing) = "won"
BY DEF JointVoteResult, BothHalves

\* Two sets that each hold more than half of the voters share one.
LEMMA MajoritiesMeet ==
    ASSUME NEW V, IsFiniteSet(V), NEW Q, NEW R,
           2 * Cardinality(V \cap Q) > Cardinality(V),
           2 * Cardinality(V \cap R) > Cardinality(V)
    PROVE  \E v \in V : v \in Q /\ v \in R
<1>1. IsFiniteSet(V \cap Q) /\ IsFiniteSet(V \cap R)
  BY FS_Intersection
<1>2. /\ Cardinality(V) \in Nat
      /\ Cardinality(V \cap Q) \in Nat
      /\ Cardinality(V \cap R) \in Nat
  BY <1>1, FS_CardinalityType
<1>3. Cardinality(V \cap Q) + Cardinality(V \cap R) > Cardinality(V)
  BY <1>2
<1>4. (V \cap Q) \cap (V \cap R) # {}
  BY <1>3, FS_MajoritiesIntersect
<1> QED
  BY <1>4

\* Whoever wins a vote of one half shares a voter with whoever else does, however
\* the other half and those who did not vote stand: the heart of election safety.
LEMMA WinnersMeet ==
    ASSUME NEW V, IsFiniteSet(V), V # {}, NEW O, NEW P,
           NEW Q, NEW R, NEW missing, NEW silent,
           JointVoteResult(V, O, Q, missing) = "won",
           JointVoteResult(V, P, R, silent) = "won"
    PROVE  \E v \in V : v \in Q /\ v \in R
<1>1. /\ VoteResult(V, Q, missing) = "won"
      /\ VoteResult(V, R, silent) = "won"
  BY JointWon
<1>2. /\ 2 * Cardinality(V \cap Q) > Cardinality(V)
      /\ 2 * Cardinality(V \cap R) > Cardinality(V)
  BY <1>1, WonByMajority
<1> QED
  BY <1>2, MajoritiesMeet

\* Who votes no and who is silent does not change who wins.
LEMMA WonWhateverMissing ==
    ASSUME NEW V, IsFiniteSet(V), NEW yes, NEW missing, NEW silent,
           JointVoteResult(V, {}, yes, missing) = "won"
    PROVE  JointVoteResult(V, {}, yes, silent) = "won"
<1>1. VoteResult(V, yes, missing) = "won"
  BY JointWon
<1>2. VoteResult(V, yes, silent) = "won"
  BY <1>1, WonByMajority
<1>3. VoteResult({}, yes, silent) = "won"
  BY DEF VoteResult
<1> QED
  BY <1>2, <1>3, JointWon

\* A set of numbers that is not empty has a least one.
LEMMA LeastExists ==
    ASSUME NEW S \in SUBSET Nat, S # {}
    PROVE  \E i \in S : \A j \in S : i <= j
<1>1. PICK i \in S : \A j \in S : ~ (<<j, i>> \in OpToRel(<, Nat))
  BY NatLessThanWellFounded, WFMin
<1>2. \A j \in S : i \in Nat /\ j \in Nat
  OBVIOUS
<1>3. \A j \in S : ~(j < i)
  BY <1>1, <1>2, Zenon DEF OpToRel
<1> QED
  BY <1>2, <1>3

\* A set of numbers up to a bound that is not empty has a greatest one: what a commit
\* rule picks exists.
LEMMA GreatestExists ==
    ASSUME NEW k \in Nat, NEW S \in SUBSET (1..k), S # {}
    PROVE  \E i \in S : \A j \in S : j <= i
<1> DEFINE T == {k - j : j \in S}
<1>1. PICK t \in T : \A u \in T : t <= u
  <2>1. \A j \in S : k - j \in Nat
    OBVIOUS
  <2>2. T \in SUBSET Nat /\ T # {}
    BY <2>1
  <2> HIDE DEF T
  <2> QED
    BY <2>2, LeastExists
<1>2. PICK i \in S : t = k - i
  OBVIOUS
<1>3. ASSUME NEW j \in S PROVE j <= i
  <2>1. k - i <= k - j
    BY <1>1, <1>2
  <2> QED
    BY <2>1
<1> QED
  BY <1>3

-----------------------------------------------------------------------------
\* Messages

\* What a message has, by its type.
LEMMA MessageFields ==
    ASSUME NEW m \in Messages
    PROVE  /\ m.from \in Server /\ m.to \in Server /\ m.from # m.to /\ m.term \in Nat
           /\ m.type \in {"Vote", "PreVote"} => m \in VoteRequests
           /\ m.type \in {"VoteResp", "PreVoteResp"} => m \in VoteReplies
           /\ m.type = "App" => m \in Appends
           /\ m.type = "Heartbeat" => m \in Heartbeats
           /\ m.type = "AppResp" => m \in AppendReplies
           /\ m.type \in {"HeartbeatResp", "TimeoutNow"} => m \in Signals
BY DEF Messages, VoteRequests, VoteReplies, Appends, Heartbeats, AppendReplies, Signals

\* Two quorums share a server.
LEMMA QuorumsMeet ==
    ASSUME NEW Q \in SUBSET Server, NEW R \in SUBSET Server, IsQuorum(Q), IsQuorum(R)
    PROVE  \E p \in Server : p \in Q /\ p \in R
<1>1. IsFiniteSet(Server) /\ Server # {}
  BY ElectionAssumption, FS_EmptySet
<1> QED
  BY <1>1, WinnersMeet DEF IsQuorum, HasQuorum

-----------------------------------------------------------------------------
\* The steps there may be

Become(s, n, out) ==
    /\ node' = [node EXCEPT ![s] = n]
    /\ msgs' \subseteq msgs \cup out
    /\ elected' = IF n.state = "Leader" THEN elected \cup {<<n.term, s>>} ELSE elected
    /\ chosen' = IF n.state = "Leader" /\ n.committed > node[s].committed
                 THEN chosen \cup {[term |-> n.term, log |-> SubSeq(n.log, 1, n.committed)]}
                 ELSE chosen
    /\ scenario' = scenario

\* Terms only grow, and a vote stands until then; who is no leader forgets nothing that
\* it knew to be committed.
Forward(s, n) ==
    /\ node[s].term <= n.term
    /\ node[s].term = n.term /\ node[s].vote # None => n.vote = node[s].vote
    /\ node[s].term = n.term =>
          node[s].committed <= n.committed \/ <<n.term, s>> \in elected
    /\ n.state = "Dead" => n.term = node[s].term

\* A candidate keeps its log, and has the votes it was granted and its own.
Campaigns(s, n) ==
    n.state = "Candidate" =>
        /\ n.log = node[s].log
        /\ \/ node[s].state = "Candidate" /\ node[s].term = n.term
           \/ node[s].term < n.term
        /\ \A p \in Server : n.votes[p] = "yes" => p = s \/ Granted(s, p, n.term)

\* The ways to come by a log: a candidate that a quorum voted for adds its empty
\* entry, a follower takes over the beginning of an append, a leader keeps its own, and so
\* does everybody else; after a crash it is what was on disk.
Wins(s, n) ==
    /\ node[s].state = "Candidate" /\ n.state = "Leader" /\ n.term = node[s].term
    /\ n.log = Append(node[s].log, n.term) /\ n.saved = node[s].saved
    /\ n.matched[s] < Len(n.log) /\ \A p \in Server \ {s} : n.matched[p] = 0
    /\ \E Q \in SUBSET Server : IsQuorum(Q) /\ \A p \in Q : Granted(s, p, n.term)

\* Where find_conflict is mended it does not take over what it has already.
Copies(s, n, from) ==
    /\ n.state = "Follower" /\ n.log # <<>>
    /\ Kept => ~Agree(n.log, node[s].log, Len(n.log))
    /\ \E m \in msgs : /\ m.type = "App" /\ m.from = from /\ m.term = n.term
                       /\ Agree(n.log, m.log, Len(n.log))

\* Did p tell s, which leads term t, that it has the log up to k?
Told(s, p, t, k) ==
    \E m \in msgs : /\ m.type = "AppResp" /\ m.index > 0 /\ m.index = k
                    /\ m.from = p /\ m.to = s /\ m.term = t

Leads(s, n) ==
    /\ node[s].state = "Leader" /\ n.term = node[s].term /\ n.log = node[s].log
    /\ n.matched[s] >= Len(n.log) => Acked(s, s) \/ n.saved = Len(n.log)
    /\ \A p \in Server \ {s} :
          n.matched[p] = node[s].matched[p] \/ Told(s, p, n.term, n.matched[p])

LogLegal(s, n) ==
    \/ Wins(s, n)
    \/ \E from \in Server : Copies(s, n, from)
    \/ /\ n.log = node[s].log /\ node[s].saved <= n.saved
       /\ n.state = "Leader" => Leads(s, n)
    \/ /\ n.log = SubSeq(node[s].log, 1, node[s].saved) /\ n.saved = node[s].saved
       /\ n.state = "Follower"

\* The ways to commit: what was committed before, or, as a leader, the whole log.
CommitsAll(s, n) ==
    /\ n.state = "Leader" /\ node[s].state = "Leader" /\ n.log = node[s].log
    /\ n.committed = Len(n.log)
    /\ \E Q \in SUBSET Server : IsQuorum(Q) /\ \A p \in Q : n.matched[p] >= Len(n.log)

\* Is what log has up to k committed? That is known where find_conflict is mended.
Sound(log, k) == k <= Len(log) /\ (Kept => Committed(log, k))

CommitLegal(s, n) ==
    /\ Sound(n.log, n.committed) \/ CommitsAll(s, n)
    /\ n.state = "Leader" /\ n.committed > node[s].committed => CommitsAll(s, n)

\* What a server may send when it has become n.
MayGrant(s, n, m) ==
    m.type = "VoteResp" /\ ~m.reject =>
        /\ m.to # s /\ m.term = n.term /\ n.vote = m.to /\ n.log = node[s].log
        /\ n.state # "Leader"
        /\ node[m.to].term >= m.term
        /\ node[m.to].state = "Candidate" /\ node[m.to].term = m.term
              => LastOf(node[m.to].log) >= LastOf(n.log)

MayRequest(s, n, m) ==
    m.type = "Vote" =>
        n.state = "Candidate" /\ m.term = n.term /\ m.log_term = LastOf(n.log)

MayAppend(s, n, m) ==
    m.type = "App" =>
        n.state = "Leader" /\ m.term = n.term /\ m.log = n.log /\ m.commit = n.committed

\* An append is acknowledged by who has it up to that index, or has committed something
\* else there. Who acknowledges all of the log of a leader has its last entry, or the leader
\* cannot commit any more.
MayAck(s, n, m) ==
    m.type = "AppResp" /\ m.index > 0 =>
        /\ m.to # s /\ m.term = n.term /\ n.state = "Follower"
        /\ <<m.term, m.to>> \in elected
        /\ Kept /\ node[m.to].state = "Leader" /\ node[m.to].term = m.term =>
              /\ m.index <= n.committed \/ Agree(n.log, node[m.to].log, m.index)
              /\ m.index >= Len(node[m.to].log) =>
                    Beaten(m.to) \/ LastOf(n.log) = n.term

MayBeat(s, n, m) ==
    m.type = "Heartbeat" /\ m.commit > 0 =>
        /\ n.state = "Leader" /\ node[s].state = "Leader" /\ n.log = node[s].log
        /\ m.term = n.term
        /\ m.to # s /\ m.commit <= n.matched[m.to] /\ m.commit <= n.committed

MayTell(s, n, m) ==
    m.type \in VoteTypes /\ m.commit # 0 /\ m.commit_term # 0 =>
        m.commit <= n.committed /\ m.commit_term = n.log[m.commit]

MaySend(s, n, m) ==
    /\ m.from = s
    /\ MayGrant(s, n, m) /\ MayRequest(s, n, m) /\ MayAppend(s, n, m)
    /\ MayAck(s, n, m) /\ MayBeat(s, n, m) /\ MayTell(s, n, m)

Legal(s, n, out) ==
    /\ n \in Nodes /\ out \subseteq Messages
    /\ Shape(s, n) /\ Forward(s, n) /\ Campaigns(s, n) /\ LogLegal(s, n) /\ CommitLegal(s, n)
    /\ \A m \in out : MaySend(s, n, m)

-----------------------------------------------------------------------------
\* What a legal step changes

\* Only s becomes another.
LEMMA NodeAfter ==
    ASSUME TypeOK, NEW s \in Server, NEW n, NEW out, Become(s, n, out)
    PROVE  /\ \A q \in Server : node'[q] = IF q = s THEN n ELSE node[q]
           /\ config' = config
           /\ \A e \in elected : e \in elected'
           /\ \A e \in elected' : e \in elected \/ (e = <<n.term, s>> /\ n.state = "Leader")
           /\ \A c \in chosen : c \in chosen'
BY DEF TypeOK, Become, config

\* Terms are numbers and do not fall.
LEMMA TermsStep ==
    ASSUME TypeOK, NEW s \in Server, NEW n, NEW out, Become(s, n, out), Legal(s, n, out)
    PROVE  /\ n \in Nodes /\ n.term \in Nat /\ node'[s] = n
           /\ \A q \in Server : /\ node[q] \in Nodes /\ node[q].term \in Nat
                                /\ node'[q].term \in Nat /\ node'[q].term >= node[q].term
<1>1. n \in Nodes /\ n.term \in Nat
  BY DEF Legal, Nodes
<1>2. \A q \in Server : node[q] \in Nodes /\ node[q].term \in Nat
  BY DEF TypeOK, Nodes
<1>3. node[s].term <= n.term
  BY DEF Legal, Forward
<1> QED
  BY <1>1, <1>2, <1>3, NodeAfter

\* The history and the types are as before.
LEMMA TypeStep ==
    ASSUME TypeOK, NEW s \in Server, NEW n, NEW out, Become(s, n, out), Legal(s, n, out)
    PROVE  TypeOK'
<1>1. n \in Nodes /\ out \subseteq Messages /\ n.committed <= Len(n.log)
  BY DEF Legal, Shape
<1>2. n.term \in Nat /\ n.log \in Seq(Nat) /\ n.committed \in Nat
  BY <1>1 DEF Nodes
<1>3. SubSeq(n.log, 1, n.committed) \in Seq(Nat)
  BY <1>1, <1>2, SubSeqProperties
<1>4. node' \in [Server -> Nodes]
  BY <1>1 DEF TypeOK, Become
<1>5. msgs' \subseteq Messages
  BY <1>1 DEF TypeOK, Become
<1>6. elected' \subseteq Nat \X Server
  BY <1>2 DEF TypeOK, Become
<1>7. chosen' \subseteq [term : Nat, log : Seq(Nat)]
  <2>1. [term |-> n.term, log |-> SubSeq(n.log, 1, n.committed)] \in [term : Nat, log : Seq(Nat)]
    BY <1>2, <1>3
  <2> QED
    BY <2>1, Zenon DEF TypeOK, Become
<1> QED
  BY <1>4, <1>5, <1>6, <1>7 DEF TypeOK, Become

\* Every server keeps its shape.
LEMMA ShapeStep ==
    ASSUME TypeOK, ShapesOK, NEW s \in Server, NEW n, NEW out, Become(s, n, out), Legal(s, n, out)
    PROVE  ShapesOK'
BY NodeAfter DEF ShapesOK, Legal, Shape

\* Who stands by a vote goes on to.
LEMMA StandsStep ==
    ASSUME TypeOK, NEW s \in Server, NEW n, NEW out, Become(s, n, out), Legal(s, n, out),
           NEW p \in Server, NEW q \in Server, NEW t \in Nat, Stands(p, q, t)
    PROVE  Stands(p, q, t)'
<1>1. n.term \in Nat /\ node[p].term \in Nat /\ q # None
  BY ElectionAssumption DEF TypeOK, Nodes, Legal
<1> QED
  BY <1>1, NodeAfter DEF Stands, Legal, Forward

\* A vote that is granted after the step was granted before, or by s, which stands by
\* it.
LEMMA GrantedStep ==
    ASSUME TypeOK, NEW s \in Server, NEW n, NEW out, Become(s, n, out), Legal(s, n, out),
           NEW p \in Server, NEW q \in Server, NEW t \in Nat, Granted(q, p, t)'
    PROVE  \/ Granted(q, p, t)
           \/ /\ p = s /\ q = s /\ t = n.term /\ n.state = "Candidate"
           \/ /\ p = s /\ q # s /\ t = n.term /\ n.vote = q /\ n.log = node[s].log
              /\ n.state # "Leader" /\ node[q].term >= t
              /\ node[q].state = "Candidate" /\ node[q].term = t
                    => LastOf(node[q].log) >= LastOf(n.log)
<1>1. CASE node'[q].state = "Candidate" /\ node'[q].term = t /\ node'[q].votes[p] = "yes"
  BY <1>1, NodeAfter DEF Legal, Campaigns, Granted
<1>2. CASE \E m \in msgs' : /\ m.type = "VoteResp" /\ ~m.reject
                            /\ m.from = p /\ m.to = q /\ m.term = t
  <2>1. PICK m \in msgs' : /\ m.type = "VoteResp" /\ ~m.reject
                           /\ m.from = p /\ m.to = q /\ m.term = t
    BY <1>2
  <2>2. CASE m \in msgs
    BY <2>1, <2>2 DEF Granted
  <2>3. CASE m \in out
    BY <2>1, <2>3 DEF Legal, MaySend, MayGrant
  <2> QED
    BY <2>2, <2>3 DEF Become
<1> QED
  BY <1>1, <1>2 DEF Granted

\* A vote that is new with the step is the one its voter has then.
LEMMA NewVote ==
    ASSUME TypeOK, NEW s \in Server, NEW n, NEW out, Become(s, n, out), Legal(s, n, out),
           NEW p \in Server, NEW q \in Server, NEW t \in Nat, Granted(q, p, t)',
           NEW r \in Server, Stands(p, r, t)'
    PROVE  Granted(q, p, t) \/ q = r
<1>1. n.term \in Nat
  BY DEF Legal, Nodes
<1>2. n.state = "Candidate" => n.vote = s
  BY DEF Legal, Shape
<1>3. node'[s] = n
  BY NodeAfter
<1> QED
  BY <1>1, <1>2, <1>3, GrantedStep DEF Stands

\* Votes stay with one candidate for each voter and term.
LEMMA VotesStep ==
    ASSUME TypeOK, ShapesOK, VotesOK,
           NEW s \in Server, NEW n, NEW out, Become(s, n, out), Legal(s, n, out)
    PROVE  VotesOK'
<1> SUFFICES ASSUME NEW q \in Server, NEW p \in Server, NEW t \in Nat, Granted(q, p, t)'
             PROVE  /\ Stands(p, q, t)'
                    /\ node'[q].term >= t
                    /\ \A r \in Server : Granted(r, p, t)' => r = q
  BY DEF VotesOK
<1>1. /\ n.term \in Nat /\ node[q].term \in Nat /\ node'[s] = n
      /\ n.state = "Candidate" => n.vote = s
      /\ node'[q].term >= node[q].term /\ node'[q].term \in Nat
  <2>1. n.state = "Candidate" => n.vote = s
    BY DEF Legal, Shape
  <2> QED
    BY <2>1, TermsStep
<1>2. Stands(p, q, t)'
  <2>1. CASE Granted(q, p, t)
    BY <2>1, StandsStep DEF VotesOK
  <2>2. CASE ~Granted(q, p, t)
    BY <2>2, <1>1, GrantedStep DEF Stands
  <2> QED
    BY <2>1, <2>2
<1>3. node'[q].term >= t
  <2>1. CASE Granted(q, p, t)
    BY <2>1, <1>1 DEF VotesOK
  <2>2. CASE ~Granted(q, p, t)
    BY <2>2, <1>1, GrantedStep
  <2> QED
    BY <2>1, <2>2
<1>4. ASSUME NEW r \in Server, Granted(r, p, t)'
      PROVE  r = q
  <2>1. CASE Granted(r, p, t) /\ Granted(q, p, t)
    BY <2>1 DEF VotesOK
  <2>2. CASE ~Granted(r, p, t)
    BY <2>2, <1>2, <1>4, NewVote
  <2>3. CASE Granted(r, p, t) /\ ~Granted(q, p, t)
    <3>1. Stands(p, r, t)'
      BY <2>3, StandsStep DEF VotesOK
    <3> QED
      BY <3>1, <2>3, NewVote
  <2> QED
    BY <2>1, <2>2, <2>3
<1> QED
  BY <1>2, <1>3, <1>4

\* A leader that is elected is the first one of its term.
LEMMA WinsNewTerm ==
    ASSUME TypeOK, VotesOK, ElectedOK, NEW s \in Server, NEW n \in Nodes, Wins(s, n),
           NEW e \in elected, e[1] = n.term
    PROVE  FALSE
<1>1. PICK Q \in SUBSET Server : IsQuorum(Q) /\ \A p \in Q : Granted(s, p, n.term)
  BY DEF Wins
<1>2. PICK R \in SUBSET Server :
         /\ IsQuorum(R)
         /\ \A p \in R : \A q \in Server : Granted(q, p, e[1]) => q = e[2]
  BY DEF ElectedOK
<1>3. e[2] = s
  BY <1>1, <1>2, QuorumsMeet
<1> QED
  BY <1>3 DEF ElectedOK, Wins

\* The step of a leader: it won, or goes on to lead the same term.
LEMMA LeaderStep ==
    ASSUME TypeOK, NEW s \in Server, NEW n, NEW out, Legal(s, n, out), n.state = "Leader"
    PROVE  Wins(s, n) \/ (Leads(s, n) /\ node[s].saved <= n.saved)
BY DEF Legal, LogLegal, Copies

\* Every leader keeps its quorum of voters.
LEMMA ElectedStep ==
    ASSUME TypeOK, ShapesOK, VotesOK, ElectedOK,
           NEW s \in Server, NEW n, NEW out, Become(s, n, out), Legal(s, n, out)
    PROVE  ElectedOK'
<1>1. /\ n \in Nodes /\ n.term \in Nat /\ node[s].term \in Nat /\ node'[s] = n
      /\ \A q \in Server : /\ node[q].term \in Nat /\ node'[q].term \in Nat
                           /\ node'[q].term >= node[q].term
  BY TermsStep
<1>2. ASSUME NEW e \in elected' PROVE e[1] \in Nat /\ e[2] \in Server
  BY <1>2, TypeStep DEF TypeOK
<1>3. ASSUME NEW e \in elected', e \notin elected
      PROVE  e = <<n.term, s>> /\ n.state = "Leader" /\ Wins(s, n)
  <2>1. e = <<n.term, s>> /\ n.state = "Leader"
    BY <1>3, NodeAfter
  <2>2. ~Leads(s, n)
    BY <1>3, <2>1 DEF Leads, ElectedOK
  <2> QED
    BY <2>1, <2>2, LeaderStep
<1>4. ASSUME NEW e \in elected'
      PROVE  \E Q \in SUBSET Server :
                /\ IsQuorum(Q)
                /\ \A p \in Q : /\ Stands(p, e[2], e[1])'
                                /\ \A q \in Server : Granted(q, p, e[1])' => q = e[2]
  <2>1. PICK Q \in SUBSET Server :
           /\ IsQuorum(Q)
           /\ \A p \in Q : /\ Stands(p, e[2], e[1])
                           /\ \A q \in Server : Granted(q, p, e[1]) => q = e[2]
    <3>1. CASE e \in elected
      BY <3>1 DEF ElectedOK
    <3>2. CASE e \notin elected
      <4>1. e[1] = n.term /\ e[2] = s
        BY <3>2, <1>3
      <4>2. PICK Q \in SUBSET Server : IsQuorum(Q) /\ \A p \in Q : Granted(s, p, n.term)
        BY <3>2, <1>3 DEF Wins
      <4>3. \A p \in Q : /\ Stands(p, s, n.term)
                         /\ \A q \in Server : Granted(q, p, n.term) => q = s
        BY <4>2, <1>1 DEF VotesOK
      <4> QED
        BY <4>1, <4>2, <4>3
    <3> QED
      BY <3>1, <3>2
  <2>2. ASSUME NEW p \in Q PROVE Stands(p, e[2], e[1])'
    BY <1>2, <2>1, <2>2, StandsStep
  <2>3. ASSUME NEW p \in Q, NEW q \in Server, Granted(q, p, e[1])'
        PROVE  q = e[2]
    BY <1>2, <2>1, <2>2, <2>3, NewVote
  <2> QED
    BY <2>1, <2>2, <2>3
<1>5. ASSUME NEW e \in elected'
      PROVE  /\ node'[e[2]].term >= e[1]
             /\ node'[e[2]].term = e[1] => node'[e[2]].state # "Candidate"
  <2>1. CASE e \in elected
    <3>1. node[e[2]].term >= e[1] /\ (node[e[2]].term = e[1] => node[e[2]].state # "Candidate")
      BY <2>1 DEF ElectedOK
    <3>2. n.state = "Candidate" => \/ node[s].state = "Candidate" /\ node[s].term = n.term
                                   \/ node[s].term < n.term
      BY DEF Legal, Campaigns
    <3> QED
      BY <1>1, <1>2, <3>1, <3>2, NodeAfter
  <2>2. CASE e \notin elected
    BY <2>2, <1>1, <1>3
  <2> QED
    BY <2>1, <2>2
<1>6. ASSUME NEW q \in Server,
             node'[q].state = "Leader" \/ node'[q].saved < Len(node'[q].log)
      PROVE  <<node'[q].term, q>> \in elected'
  <2>1. CASE q # s
    BY <1>6, <2>1, NodeAfter DEF ElectedOK
  <2>2. CASE q = s /\ n.state = "Leader"
    BY <1>1, <2>2 DEF Become
  <2>3. CASE q = s /\ n.state # "Leader" /\ n.saved < Len(n.log)
    <3>1. /\ n.saved \in Nat /\ Len(n.log) \in Nat
          /\ node[s].saved \in Nat /\ Len(node[s].log) \in Nat
      BY <1>1, LenProperties DEF TypeOK, Nodes
    <3>2. n.state = "Dead"
      BY <2>3, <3>1 DEF Legal, Shape
    <3>3. node[s].saved < Len(node[s].log) /\ n.term = node[s].term
      BY <2>3, <3>1, <3>2 DEF Legal, Forward, LogLegal, Wins, Copies
    <3> QED
      BY <1>1, <2>3, <3>3, NodeAfter DEF ElectedOK
  <2> QED
    BY <1>1, <1>6, <2>1, <2>2, <2>3
<1>7. ASSUME NEW q \in Server, (node[q].state = "Leader" \/ node[q].saved < Len(node[q].log))'
      PROVE  (<<node[q].term, q>> \in elected)'
  BY <1>6, <1>7
<1> QED
  BY <1>4, <1>5, <1>7 DEF ElectedOK, IsQuorum

\* There is still one leader in a term.
LEMMA SafetyStep ==
    ASSUME TypeOK, VotesOK, ElectedOK, ElectionSafety,
           NEW s \in Server, NEW n, NEW out, Become(s, n, out), Legal(s, n, out)
    PROVE  ElectionSafety'
<1>1. n \in Nodes
  BY DEF Legal
<1>2. ASSUME NEW e \in elected', e \notin elected
      PROVE  e[1] = n.term /\ e[2] = s /\ Wins(s, n)
  <2>1. e = <<n.term, s>> /\ n.state = "Leader"
    BY <1>2, NodeAfter
  <2>2. ~Leads(s, n)
    BY <1>2, <2>1 DEF Leads, ElectedOK
  <2> QED
    BY <2>1, <2>2, LeaderStep
<1>3. ASSUME NEW a \in elected', NEW b \in elected', a[1] = b[1]
      PROVE  a[2] = b[2]
  <2>1. CASE a \in elected /\ b \in elected
    BY <1>3, <2>1 DEF ElectionSafety
  <2>2. CASE a \notin elected /\ b \notin elected
    BY <1>2, <2>2
  <2>3. CASE a \in elected /\ b \notin elected
    BY <1>1, <1>2, <1>3, <2>3, WinsNewTerm
  <2>4. CASE a \notin elected /\ b \in elected
    BY <1>1, <1>2, <1>3, <2>4, WinsNewTerm
  <2> QED
    BY <2>1, <2>2, <2>3, <2>4
<1> QED
  BY <1>3 DEF ElectionSafety

\* The requests for votes still tell the log of their candidate.
LEMMA RequestsStep ==
    ASSUME TypeOK, RequestsOK,
           NEW s \in Server, NEW n, NEW out, Become(s, n, out), Legal(s, n, out)
    PROVE  RequestsOK'
<1> SUFFICES ASSUME NEW m \in msgs', m.type = "Vote"
             PROVE  /\ node'[m.from].term >= m.term
                    /\ node'[m.from].state = "Candidate" /\ node'[m.from].term = m.term
                          => m.log_term = LastOf(node'[m.from].log)
  BY DEF RequestsOK
<1>1. m \in Messages /\ m.from \in Server /\ m.term \in Nat
  BY TypeStep, MessageFields DEF TypeOK
<1>2. n.term \in Nat /\ node[m.from].term \in Nat /\ n.term >= node[s].term
      /\ node[s].term \in Nat
  BY <1>1 DEF TypeOK, Nodes, Legal, Forward
<1>3. CASE m \in msgs
  <2>1. node[m.from].term >= m.term
        /\ (node[m.from].state = "Candidate" /\ node[m.from].term = m.term
              => m.log_term = LastOf(node[m.from].log))
    BY <1>3 DEF RequestsOK
  <2>2. n.state = "Candidate" => /\ n.log = node[s].log
                                 /\ \/ node[s].state = "Candidate" /\ node[s].term = n.term
                                    \/ node[s].term < n.term
    BY DEF Legal, Campaigns
  <2> QED
    BY <1>1, <1>2, <2>1, <2>2, NodeAfter
<1>4. CASE m \in out
  <2>1. m.from = s /\ m.term = n.term /\ m.log_term = LastOf(n.log)
    BY <1>4 DEF Legal, MaySend, MayRequest
  <2> QED
    BY <1>2, <2>1, NodeAfter
<1> QED
  BY <1>3, <1>4 DEF Become

-----------------------------------------------------------------------------
\* Logs after a legal step

\* The last entry of a log that has one.
LEMMA LastProperties ==
    ASSUME NEW l \in Seq(Nat)
    PROVE  /\ Len(l) \in Nat /\ DOMAIN l = 1..Len(l)
           /\ \A i \in 1..Len(l) : l[i] \in Nat
           /\ l # <<>> => Len(l) > 0 /\ LastOf(l) = l[Len(l)]
           /\ l = <<>> => Len(l) = 0 /\ LastOf(l) = 0
           /\ LastOf(l) \in Nat
<1>1. Len(l) \in Nat /\ DOMAIN l = 1..Len(l) /\ \A i \in 1..Len(l) : l[i] \in Nat
  OBVIOUS
<1>2. l # <<>> => Len(l) > 0
  BY EmptySeq
<1>3. l = <<>> => Len(l) = 0
  OBVIOUS
<1> QED
  BY <1>1, <1>2, <1>3 DEF LastOf

\* A log that lost its end.
LEMMA Truncated ==
    ASSUME NEW l \in Seq(Nat), NEW k \in 0..Len(l)
    PROVE  /\ SubSeq(l, 1, k) \in Seq(Nat) /\ Len(SubSeq(l, 1, k)) = k
           /\ \A i \in 1..k : SubSeq(l, 1, k)[i] = l[i]
<1>1. k \in Nat /\ \A i \in 1..k : l[i] \in Nat
  OBVIOUS
<1>2. /\ SubSeq(l, 1, k) \in Seq(Nat)
      /\ Len(SubSeq(l, 1, k)) = IF 1 <= k THEN k - 1 + 1 ELSE 0
      /\ \A i \in 1..k - 1 + 1 : SubSeq(l, 1, k)[i] = l[1 + i - 1]
  BY <1>1, SubSeqProperties
<1> QED
  BY <1>1, <1>2

\* Logs are sequences of terms.
LEMMA LogTypes ==
    ASSUME TypeOK
    PROVE  /\ \A a \in Logs : a \in Seq(Nat)
           /\ \A s \in Server : node[s].log \in Logs /\ node[s].log \in Seq(Nat)
           /\ \A c \in chosen : c.log \in Logs /\ c.log \in Seq(Nat) /\ c.term \in Nat
           /\ \A m \in msgs : m.type = "App" => m.log \in Logs /\ m.log \in Seq(Nat)
                                                /\ m.commit \in Nat
<1>1. \A s \in Server : node[s].log \in Seq(Nat)
  BY DEF TypeOK, Nodes
<1>2. \A c \in chosen : c.log \in Seq(Nat) /\ c.term \in Nat
  BY DEF TypeOK
<1>3. \A m \in msgs : m.type = "App" => m.log \in Seq(Nat) /\ m.commit \in Nat
  BY MessageFields DEF TypeOK, Appends
<1> QED
  BY <1>1, <1>2, <1>3 DEF Logs

\* Was there a log with the same entries as a up to i?
Old(a, i) == \E b \in Logs : i \in DOMAIN b /\ \A k \in 1..i : a[k] = b[k]

\* Every entry of the log of s was there before, but the empty entry of a new leader.
LEMMA EntryOfNode ==
    ASSUME TypeOK, ShapesOK, NEW s \in Server, NEW n, NEW out, Become(s, n, out), Legal(s, n, out),
           NEW i \in DOMAIN n.log
    PROVE  Old(n.log, i) \/ (Wins(s, n) /\ i = Len(n.log))
<1>1. /\ node[s].log \in Seq(Nat) /\ n.log \in Seq(Nat) /\ n.saved \in Nat /\ n.term \in Nat
      /\ node[s].saved \in Nat
      /\ i \in 1..Len(n.log)
  BY DEF TypeOK, Nodes, Legal
<1>2. CASE Wins(s, n)
  <2>1. n.log = Append(node[s].log, n.term)
    BY <1>2 DEF Wins
  <2>2. /\ Len(n.log) = Len(node[s].log) + 1
        /\ \A k \in 1..Len(node[s].log) : n.log[k] = node[s].log[k]
    BY <1>1, <2>1, AppendProperties
  <2>3. CASE i = Len(n.log)
    BY <1>2, <2>3
  <2>4. CASE i # Len(n.log)
    <3>1. i \in DOMAIN node[s].log
      BY <1>1, <2>2, <2>4
    <3>2. \A k \in 1..i : n.log[k] = node[s].log[k]
      BY <1>1, <2>2, <2>4, SMTT(20)
    <3> QED
      BY <3>1, <3>2, LogTypes DEF Old
  <2> QED
    BY <2>3, <2>4
<1>3. CASE \E from \in Server : Copies(s, n, from)
  <2>1. PICK m \in msgs : m.type = "App" /\ Agree(n.log, m.log, Len(n.log))
    BY <1>3 DEF Copies
  <2>2. m.log \in Logs /\ m.log \in Seq(Nat)
    BY <2>1, LogTypes DEF Logs
  <2>3. i \in DOMAIN m.log /\ \A k \in 1..i : n.log[k] = m.log[k]
    BY <1>1, <2>1, <2>2 DEF Agree
  <2> QED
    BY <2>2, <2>3 DEF Old
<1>4. CASE n.log = node[s].log
  BY <1>1, <1>4, LogTypes DEF Old
<1>5. CASE n.log = SubSeq(node[s].log, 1, node[s].saved) /\ n.saved = node[s].saved
  <2>1. node[s].saved <= Len(node[s].log)
    BY DEF ShapesOK, Shape
  <2>2. Len(n.log) = node[s].saved /\ \A k \in 1..node[s].saved : n.log[k] = node[s].log[k]
    BY <1>1, <1>5, <2>1, Truncated, SMTT(20)
  <2>3. i \in 1..Len(node[s].log) /\ i <= node[s].saved
    BY <1>1, <2>1, <2>2
  <2>4. DOMAIN node[s].log = 1..Len(node[s].log)
    BY <1>1
  <2>5. \A k \in 1..i : n.log[k] = node[s].log[k]
    BY <1>1, <2>2, <2>3
  <2> QED
    BY <2>3, <2>4, <2>5, LogTypes DEF Old
<1> QED
  BY <1>2, <1>3, <1>4, <1>5 DEF Legal, LogLegal

\* What a leader adds to the history was in its log before.
LEMMA NewChosen ==
    ASSUME TypeOK, NEW s \in Server, NEW n, NEW out, Become(s, n, out), Legal(s, n, out),
           NEW c \in chosen', c \notin chosen
    PROVE  /\ CommitsAll(s, n) /\ Leads(s, n) /\ n.state = "Leader"
           /\ c.term = n.term /\ c.log = n.log /\ n.log = node[s].log
<1>1. /\ n.state = "Leader" /\ n.committed > node[s].committed
      /\ c = [term |-> n.term, log |-> SubSeq(n.log, 1, n.committed)]
  BY DEF Become
<1>2. CommitsAll(s, n)
  BY <1>1 DEF Legal, CommitLegal
<1>3. ~Wins(s, n)
  BY <1>2 DEF CommitsAll, Wins
<1>4. n.log \in Seq(Nat)
  BY DEF Legal, Nodes
<1>5. SubSeq(n.log, 1, n.committed) = n.log
  <2>1. n.committed = Len(n.log)
    BY <1>2 DEF CommitsAll
  <2>2. n.committed \in 0..Len(n.log)
    BY <1>4, <2>1
  <2>3. /\ SubSeq(n.log, 1, n.committed) \in Seq(Nat)
        /\ Len(SubSeq(n.log, 1, n.committed)) = n.committed
        /\ \A i \in 1..n.committed : SubSeq(n.log, 1, n.committed)[i] = n.log[i]
    BY <1>4, <2>2, Truncated
  <2> QED
    BY <1>4, <2>1, <2>3, SeqEqual
<1> QED
  BY <1>1, <1>2, <1>3, <1>5, LeaderStep DEF CommitsAll

\* A log was there before, or is that of s now.
LEMMA LogStep ==
    ASSUME TypeOK, NEW s \in Server, NEW n, NEW out, Become(s, n, out), Legal(s, n, out),
           NEW a \in Logs'
    PROVE  (a \in Logs \/ a = n.log) /\ a \in Seq(Nat)
<1>1. a \in Logs \/ a = n.log
  <2>1. CASE \E q \in Server : a = node'[q].log
    BY <2>1, NodeAfter DEF Logs
  <2>2. CASE \E m \in msgs' : m.type = "App" /\ a = m.log
    BY <2>2 DEF Logs, Become, Legal, MaySend, MayAppend
  <2>3. CASE \E c \in chosen' : a = c.log
    BY <2>3, NewChosen DEF Logs
  <2> QED
    BY <2>1, <2>2, <2>3 DEF Logs
<1>2. n.log \in Seq(Nat)
  BY DEF Legal, Nodes
<1> QED
  BY <1>1, <1>2, LogTypes

\* So every entry of a log was in a log before, but the empty entry of a new leader.
LEMMA EntryStep ==
    ASSUME TypeOK, ShapesOK,
           NEW s \in Server, NEW n, NEW out, Become(s, n, out), Legal(s, n, out),
           NEW a \in Logs', NEW i \in DOMAIN a
    PROVE  Old(a, i) \/ (Wins(s, n) /\ a = n.log /\ i = Len(n.log))
<1>1. CASE a \in Logs
  BY <1>1 DEF Old
<1>2. CASE a = n.log
  BY <1>2, EntryOfNode
<1> QED
  BY <1>1, <1>2, LogStep

\* A term that has an entry in a log was had before by a leader, which is not the one
\* that wins now.
LEMMA OldTermElected ==
    ASSUME TypeOK, VotesOK, ElectedOK, LogsOK, NEW s \in Server, NEW n \in Nodes, Wins(s, n),
           NEW a \in Logs, NEW i \in DOMAIN a, a[i] = n.term
    PROVE  FALSE
<1>1. PICK q \in Server : <<a[i], q>> \in elected
  BY DEF LogsOK
<1> QED
  BY <1>1, WinsNewTerm

\* The log matching property still holds.
LEMMA LogsStep ==
    ASSUME TypeOK, ShapesOK, VotesOK, ElectedOK, LogsOK,
           NEW s \in Server, NEW n, NEW out, Become(s, n, out), Legal(s, n, out)
    PROVE  LogsOK'
<1>1. n \in Nodes /\ n.term \in Nat /\ n.log \in Seq(Nat)
  BY DEF Legal, Nodes
<1>2. n.state = "Leader" => n.log # <<>> /\ LastOf(n.log) = n.term /\ n.log[Len(n.log)] = n.term
  <2>1. n.state = "Leader" => n.log # <<>> /\ LastOf(n.log) = n.term
    BY DEF Legal, Shape
  <2> QED
    BY <1>1, <2>1, LastProperties
<1>3. ASSUME NEW a \in Logs', NEW i \in DOMAIN a
      PROVE  \E q \in Server : <<a[i], q>> \in elected'
  <2>1. CASE Old(a, i)
    <3>1. PICK b \in Logs : i \in DOMAIN b /\ \A k \in 1..i : a[k] = b[k]
      BY <2>1 DEF Old
    <3>2. i \in 1..i
      BY <3>1, LogTypes, LastProperties
    <3>3. \E q \in Server : <<b[i], q>> \in elected
      BY <3>1 DEF LogsOK
    <3> QED
      BY <3>1, <3>2, <3>3, NodeAfter
  <2>2. CASE Wins(s, n) /\ a = n.log /\ i = Len(n.log)
    <3>1. n.state = "Leader"
      BY <2>2 DEF Wins
    <3>2. <<n.term, s>> \in elected'
      BY <3>1 DEF Become
    <3> QED
      BY <1>2, <2>2, <3>1, <3>2
  <2> QED
    BY <2>1, <2>2, EntryStep
<1>4. ASSUME NEW a \in Logs', NEW b \in Logs', NEW i \in DOMAIN a, NEW j \in DOMAIN b,
             a[i] = b[j]
      PROVE  i = j /\ \A k \in 1..i : a[k] = b[k]
  <2>1. ASSUME Old(a, i), Old(b, j)
        PROVE  i = j /\ \A k \in 1..i : a[k] = b[k]
    <3>1. PICK x \in Logs : i \in DOMAIN x /\ \A k \in 1..i : a[k] = x[k]
      BY <2>1 DEF Old
    <3>2. PICK y \in Logs : j \in DOMAIN y /\ \A k \in 1..j : b[k] = y[k]
      BY <2>1 DEF Old
    <3>3. i \in 1..i /\ j \in 1..j
      BY <3>1, <3>2, LogTypes, LastProperties
    <3>4. x[i] = y[j]
      BY <1>4, <3>1, <3>2, <3>3
    <3>5. i = j /\ \A k \in 1..i : x[k] = y[k]
      BY <3>1, <3>2, <3>4 DEF LogsOK, LogsMatch
    <3> QED
      BY <3>1, <3>2, <3>5
  <2>2. ASSUME NEW x \in Logs', NEW k \in DOMAIN x, Old(x, k), Wins(s, n)
        PROVE  x[k] # n.term
    <3>1. PICK y \in Logs : k \in DOMAIN y /\ \A l \in 1..k : x[l] = y[l]
      BY <2>2 DEF Old
    <3>2. k \in 1..k
      BY <3>1, LogTypes, LastProperties
    <3> QED
      BY <1>1, <2>2, <3>1, <3>2, OldTermElected
  <2>3. Wins(s, n) => n.log[Len(n.log)] = n.term
    BY <1>2 DEF Wins
  <2> QED
    BY <1>4, <2>1, <2>2, <2>3, EntryStep
<1>5. ASSUME NEW m \in msgs', m.type = "App"
      PROVE  /\ m.log # <<>> /\ LastOf(m.log) = m.term
             /\ \A i \in DOMAIN m.log : m.log[i] <= m.term
             /\ <<m.term, m.from>> \in elected'
  <2>1. CASE m \in msgs
    BY <1>5, <2>1, NodeAfter DEF LogsOK
  <2>2. CASE m \in out
    <3>1. m.from = s /\ n.state = "Leader" /\ m.term = n.term /\ m.log = n.log
      BY <1>5, <2>2 DEF Legal, MaySend, MayAppend
    <3>2. \A i \in DOMAIN n.log : n.log[i] <= n.term
      BY DEF Legal, Shape
    <3> QED
      BY <1>2, <3>1, <3>2 DEF Become
  <2> QED
    BY <2>1, <2>2 DEF Become
<1>6. ASSUME NEW a \in Logs', NEW i \in DOMAIN a, NEW j \in DOMAIN a, i < j
      PROVE  a[i] < a[j]
  <2>1. CASE Old(a, j)
    <3>1. PICK b \in Logs : j \in DOMAIN b /\ \A k \in 1..j : a[k] = b[k]
      BY <2>1 DEF Old
    <3>2. /\ DOMAIN a = 1..Len(a) /\ Len(a) \in Nat
          /\ DOMAIN b = 1..Len(b) /\ Len(b) \in Nat
      BY <3>1, LogStep, LogTypes, LastProperties
    <3>3. i \in 1..j /\ j \in 1..j /\ i \in DOMAIN b
      BY <1>6, <3>1, <3>2
    <3>4. b[i] < b[j]
      BY <1>6, <3>1, <3>3 DEF LogsOK
    <3> QED
      BY <3>1, <3>3, <3>4
  <2>2. CASE Wins(s, n) /\ a = n.log /\ j = Len(n.log)
    <3>1. /\ node[s].log \in Seq(Nat) /\ n.log = Append(node[s].log, n.term)
          /\ DOMAIN node[s].log = 1..Len(node[s].log) /\ Len(node[s].log) \in Nat
          /\ DOMAIN n.log = 1..Len(n.log)
      BY <1>1, <2>2, LastProperties DEF Wins, TypeOK, Nodes
    <3>2. i \in 1..Len(node[s].log) /\ n.log[i] = node[s].log[i]
      BY <1>6, <2>2, <3>1, AppendProperties
    <3>3. node[s].log[i] < n.term
      BY <2>2, <3>1, <3>2 DEF Wins, ShapesOK, Shape
    <3> QED
      BY <1>2, <2>2, <3>2, <3>3 DEF Wins
  <2> QED
    BY <2>1, <2>2, EntryStep
<1> QED
  BY <1>3, <1>4, <1>5, <1>6 DEF LogsOK, LogsMatch

-----------------------------------------------------------------------------
\* Acknowledgements after a legal step

\* A log that everything after term t has to begin with.
Firm(t) ==
    \E l \in Seq(Nat) : /\ l # <<>> /\ LastOf(l) = t
                        /\ \A a \in Logs : \A i \in DOMAIN a : a[i] >= t => Holds(l, a, i)

\* So it is with the log of a leader that may still commit it.
LEMMA LeaderFirm ==
    ASSUME TypeOK, ShapesOK, LogsOK, SafeOK, NEW q \in Server,
           node[q].state = "Leader", ~Beaten(q)
    PROVE  Firm(node[q].term)
<1> DEFINE l == node[q].log
           t == node[q].term
<1>1. l \in Seq(Nat) /\ l \in Logs /\ t \in Nat
  BY LogTypes DEF TypeOK, Nodes
<1>2. l # <<>> /\ LastOf(l) = t
  BY DEF ShapesOK, Shape
<1>3. /\ Len(l) \in DOMAIN l /\ DOMAIN l = 1..Len(l) /\ Len(l) \in Nat
      /\ l[Len(l)] = t
  BY <1>1, <1>2, LastProperties
<1>4. ASSUME NEW a \in Logs, NEW i \in DOMAIN a, a[i] >= t PROVE Holds(l, a, i)
  <2>1. a[i] \in Nat /\ i \in Nat
    BY LogTypes, LastProperties
  <2>2. CASE a[i] > t
    BY <1>4, <2>2 DEF SafeOK
  <2>3. CASE a[i] = t
    <3>1. i = Len(l) /\ \A k \in 1..i : a[k] = l[k]
      BY <1>1, <1>3, <2>3 DEF LogsOK, LogsMatch
    <3> QED
      BY <1>3, <2>1, <3>1 DEF Holds
  <2> QED
    BY <1>1, <1>4, <2>1, <2>2, <2>3
<1> HIDE DEF l, t
<1> QED
  BY <1>1, <1>2, <1>4 DEF Firm, l, t

\* And with a log that was committed.
LEMMA ChosenFirm ==
    ASSUME TypeOK, ChosenOK, NEW c \in chosen
    PROVE  Firm(c.term)
<1>1. c.log \in Seq(Nat) /\ c.log # <<>> /\ LastOf(c.log) = c.term
  BY LogTypes DEF ChosenOK
<1>2. \A a \in Logs : \A i \in DOMAIN a : a[i] >= c.term => Holds(c.log, a, i)
  BY DEF ChosenOK
<1> QED
  BY <1>1, <1>2 DEF Firm

\* The log of s and what it has on disk end in no earlier terms than before: what an
\* append brings is after what all later logs begin with, or s has it already.
LEMMA EndStep ==
    ASSUME TypeOK, ShapesOK, LogsOK, Kept,
           NEW s \in Server, NEW n, NEW out, Become(s, n, out), Legal(s, n, out),
           NEW t \in Nat, Firm(t), node[s].term >= t, LastOf(node[s].log) >= t,
           node[s].saved > 0, node[s].log[node[s].saved] >= t
    PROVE  LastOf(n.log) >= t /\ n.saved > 0 /\ n.log[n.saved] >= t
<1> DEFINE o == node[s]
<1>1. /\ n \in Nodes /\ n.term \in Nat /\ n.log \in Seq(Nat) /\ n.saved \in Nat
      /\ o.term \in Nat /\ o.log \in Seq(Nat) /\ o.saved \in Nat
      /\ n.term >= o.term
  BY DEF Legal, Forward, TypeOK, Nodes
<1>2. /\ o.saved <= Len(o.log) /\ Len(o.log) <= o.saved + 1
      /\ n.saved <= Len(n.log) /\ Len(n.log) <= n.saved + 1
  BY DEF Legal, ShapesOK, Shape
<1>3. o.log[Len(o.log)] >= t /\ Len(o.log) \in Nat /\ Len(n.log) \in Nat /\ o.log # <<>>
  <2>1. o.log # <<>>
    BY <1>1, <1>2, LastProperties
  <2> QED
    BY <1>1, <2>1, LastProperties
<1>4. CASE Wins(s, n)
  <2>1. n.log = Append(o.log, n.term) /\ n.saved = o.saved /\ n.state = "Leader"
    BY <1>4 DEF Wins
  <2>2. n.log[n.saved] = o.log[o.saved]
    BY <1>1, <1>2, <2>1, AppendProperties
  <2>3. LastOf(n.log) = n.term
    BY <2>1 DEF Legal, Shape
  <2> QED
    BY <1>1, <2>1, <2>2, <2>3
<1>5. CASE \E from \in Server : Copies(s, n, from)
  <2>1. PICK m \in msgs : m.type = "App" /\ m.term = n.term /\ Agree(n.log, m.log, Len(n.log))
    BY <1>5 DEF Copies
  <2>2. /\ n.log # <<>> /\ n.state = "Follower" /\ ~Agree(n.log, o.log, Len(n.log))
    BY <1>5 DEF Copies
  <2>3. n.saved = Len(n.log)
    BY <2>2 DEF Legal, Shape
  <2>4. /\ m.log \in Logs /\ m.log \in Seq(Nat) /\ m.log # <<>> /\ LastOf(m.log) = m.term
    BY <2>1, LogTypes DEF LogsOK
  <2>5. PICK l \in Seq(Nat) :
           /\ l # <<>> /\ LastOf(l) = t
           /\ \A a \in Logs : \A i \in DOMAIN a : a[i] >= t => Holds(l, a, i)
    BY DEF Firm
  <2>6. /\ Len(l) \in Nat /\ Len(l) > 0 /\ l[Len(l)] = t /\ DOMAIN l = 1..Len(l)
        /\ Len(m.log) \in DOMAIN m.log /\ DOMAIN m.log = 1..Len(m.log) /\ Len(m.log) \in Nat
        /\ m.log[Len(m.log)] = n.term
        /\ Len(o.log) \in DOMAIN o.log
        /\ Len(n.log) > 0 /\ LastOf(n.log) = n.log[Len(n.log)]
    <3>1. /\ Len(l) \in Nat /\ Len(l) > 0 /\ l[Len(l)] = t /\ DOMAIN l = 1..Len(l)
      BY <2>5, LastProperties
    <3>2. /\ DOMAIN m.log = 1..Len(m.log) /\ Len(m.log) \in Nat /\ Len(m.log) > 0
          /\ m.log[Len(m.log)] = n.term
      BY <2>1, <2>4, LastProperties
    <3>3. DOMAIN o.log = 1..Len(o.log) /\ Len(o.log) > 0
      BY <1>1, <1>3, LastProperties
    <3>4. Len(n.log) > 0 /\ LastOf(n.log) = n.log[Len(n.log)]
      BY <1>1, <2>2, LastProperties
    <3> QED
      BY <1>3, <3>1, <3>2, <3>3, <3>4
  <2>7. Holds(l, o.log, Len(o.log))
    BY <1>3, <2>5, <2>6, LogTypes
  <2>8. Holds(l, m.log, Len(m.log))
    BY <1>1, <2>4, <2>5, <2>6
  <2>9. Len(l) <= Len(n.log)
    <3>1. SUFFICES ASSUME Len(n.log) < Len(l) PROVE Agree(n.log, o.log, Len(n.log))
      BY <1>3, <2>2, <2>6
    <3>2. Len(n.log) <= Len(o.log)
      BY <1>3, <2>6, <2>7, <3>1 DEF Holds
    <3>3. ASSUME NEW i \in 1..Len(n.log) PROVE n.log[i] = o.log[i]
      <4>1. i \in DOMAIN l
        BY <1>3, <2>6, <3>1
      <4>2. l[i] = o.log[i] /\ l[i] = m.log[i]
        BY <2>7, <2>8, <4>1 DEF Holds
      <4>3. n.log[i] = m.log[i]
        BY <2>1 DEF Agree
      <4> QED
        BY <4>2, <4>3
    <3> QED
      BY <1>3, <3>2, <3>3 DEF Agree
  <2>10. m.log[Len(l)] = t /\ Len(l) \in DOMAIN m.log /\ Len(n.log) \in DOMAIN m.log
    BY <1>3, <2>1, <2>6, <2>8, <2>9 DEF Agree, Holds
  <2>11. m.log[Len(n.log)] >= t
    <3>1. Len(l) < Len(n.log) => m.log[Len(l)] < m.log[Len(n.log)]
      BY <2>4, <2>10 DEF LogsOK
    <3>2. m.log[Len(n.log)] \in Nat
      BY <2>4, <2>10
    <3> QED
      BY <1>3, <2>6, <2>9, <2>10, <3>1, <3>2
  <2>12. n.log[Len(n.log)] = m.log[Len(n.log)]
    BY <1>3, <2>1, <2>6 DEF Agree
  <2> QED
    BY <2>3, <2>6, <2>11, <2>12
<1>6. CASE n.log = o.log /\ o.saved <= n.saved
  <2>1. n.saved = o.saved \/ n.saved = Len(o.log)
    BY <1>1, <1>2, <1>3, <1>6, SMTT(20)
  <2> QED
    BY <1>1, <1>3, <1>6, <2>1
<1>7. CASE n.log = SubSeq(o.log, 1, o.saved) /\ n.saved = o.saved
  <2>1. Len(n.log) = o.saved /\ n.log[o.saved] = o.log[o.saved]
    BY <1>1, <1>2, <1>7, Truncated
  <2>2. Len(n.log) > 0 /\ n.saved > 0
    BY <1>7, <2>1
  <2>3. LastOf(n.log) = n.log[o.saved]
    BY <1>1, <2>1, <2>2, LastProperties
  <2> QED
    BY <1>7, <2>1, <2>2, <2>3
<1> QED
  BY <1>4, <1>5, <1>6, <1>7 DEF Legal, LogLegal

\* Who kept up with term t goes on to.
LEMMA KeepsUpStep ==
    ASSUME TypeOK, ShapesOK, VotesOK, LogsOK, Kept,
           NEW s \in Server, NEW n, NEW out, Become(s, n, out), Legal(s, n, out),
           NEW p \in Server, NEW t \in Nat, Firm(t), KeepsUp(p, t)
    PROVE  KeepsUp(p, t)'
<1>1. /\ n.term \in Nat /\ node'[s] = n
      /\ \A q \in Server : /\ node[q].term \in Nat /\ node'[q].term \in Nat
                           /\ node'[q].term >= node[q].term
  BY TermsStep
<1>2. /\ node[p].term >= t /\ LastOf(node[p].log) >= t
      /\ node[p].saved > 0 /\ node[p].log[node[p].saved] >= t
      /\ \A q \in Server :
            node[q].state = "Candidate" /\ node[q].term > t /\ Granted(q, p, node[q].term)
                => LastOf(node[q].log) >= t
  BY DEF KeepsUp
<1>3. node'[p].term >= t
  BY <1>1, <1>2
<1>4. /\ LastOf(node'[p].log) >= t
      /\ node'[p].saved > 0 /\ node'[p].log[node'[p].saved] >= t
  BY <1>2, NodeAfter, EndStep
<1>5. ASSUME NEW q \in Server, NEW u \in Nat, u = node'[q].term,
             node'[q].state = "Candidate", u > t, Granted(q, p, u)'
      PROVE  LastOf(node'[q].log) >= t
  <2>1. /\ node'[q].log = node[q].log
        /\ \/ node[q].state = "Candidate" /\ node[q].term = u
           \/ node[q].term < u /\ q = s
    <3>1. CASE q = s
      BY <1>1, <1>5, <3>1 DEF Legal, Campaigns
    <3>2. CASE q # s
      BY <1>5, <3>2, NodeAfter
    <3> QED
      BY <3>1, <3>2
  <2>2. CASE Granted(q, p, u)
    <3>1. node[q].term >= u
      BY <1>1, <2>2 DEF VotesOK
    <3> QED
      BY <1>1, <1>2, <1>5, <2>1, <2>2, <3>1
  <2>3. CASE p = s /\ q = s
    BY <1>2, <2>1, <2>3
  <2>4. CASE ~Granted(q, p, u) /\ ~(p = s /\ q = s)
    <3>1. /\ p = s /\ q # s /\ n.log = node[s].log
          /\ (node[q].state = "Candidate" /\ node[q].term = u
                => LastOf(node[q].log) >= LastOf(n.log))
      BY <1>5, <2>4, GrantedStep
    <3>2. LastOf(node[s].log) \in Nat /\ LastOf(node[q].log) \in Nat
      BY LogTypes, LastProperties
    <3> QED
      BY <1>2, <2>1, <3>1, <3>2
  <2> QED
    BY <2>2, <2>3, <2>4
<1>6. ASSUME NEW q \in Server, (node[q].state = "Candidate")', (node[q].term > t)',
             Granted(q, p, node[q].term)'
      PROVE  (LastOf(node[q].log) >= t)'
  <2>1. PICK u \in Nat : u = node'[q].term
    BY <1>1
  <2>2. Granted(q, p, u)'
    BY <1>6, <2>1 DEF Granted
  <2> QED
    BY <1>5, <1>6, <2>1, <2>2
<1> QED
  BY <1>3, <1>4, <1>6 DEF KeepsUp

\* Who has a log with an entry of its own term on disk keeps up with it.
LEMMA NewKeepsUp ==
    ASSUME TypeOK, ShapesOK, VotesOK,
           NEW s \in Server, NEW n, NEW out, Become(s, n, out), Legal(s, n, out),
           n.log # <<>>, LastOf(n.log) = n.term, n.saved = Len(n.log)
    PROVE  KeepsUp(s, n.term)'
<1>1. /\ n.term \in Nat /\ node'[s] = n /\ n.log \in Seq(Nat)
      /\ \A q \in Server : node'[q].term \in Nat
  BY TermsStep DEF Nodes
<1>2. LastOf(n.log) >= n.term /\ n.saved > 0 /\ n.log[n.saved] >= n.term
  BY <1>1, LastProperties
<1>3. ASSUME NEW q \in Server, (node[q].term)' > n.term, Granted(q, s, node[q].term)'
      PROVE  FALSE
  <2>1. PICK u \in Nat : u = node'[q].term
    BY <1>1
  <2>2. Granted(q, s, u)'
    BY <1>3, <2>1 DEF Granted
  <2>3. Stands(s, q, u)'
    BY <2>2, VotesStep DEF VotesOK
  <2> QED
    BY <1>1, <1>3, <2>1, <2>3 DEF Stands
<1> QED
  BY <1>1, <1>2, <1>3 DEF KeepsUp

\* A new leader has no acknowledgements, and an acknowledgement that is new comes from
\* s, which has all of the log on disk, or goes to a leader that can commit nothing.
LEMMA AckedStep ==
    ASSUME TypeOK, ShapesOK, VotesOK, ElectedOK, LogsOK, AcksOK, Kept,
           NEW s \in Server, NEW n, NEW out, Become(s, n, out), Legal(s, n, out),
           NEW q \in Server, NEW p \in Server, Acked(q, p)'
    PROVE  \/ Acked(q, p) /\ node'[q].term = node[q].term
           \/ /\ p = s /\ node'[q].term = n.term
              /\ \/ n.log # <<>> /\ LastOf(n.log) = n.term /\ n.saved = Len(n.log)
                 \/ node'[q].term = node[q].term /\ Beaten(q)
<1>1. n \in Nodes /\ node'[s] = n /\ n.matched \in [Server -> Nat] /\ Len(n.log) \in Nat
      /\ n.log \in Seq(Nat) /\ n.term \in Nat
  BY TermsStep, LenProperties DEF Nodes
<1>2. n.state = "Leader" => n.log # <<>> /\ LastOf(n.log) = n.term
  BY DEF Legal, Shape
<1>3. node'[q].state = "Leader" /\ Len(node'[q].log) \in Nat /\ Len(node'[q].log) > 0
      /\ node'[q].term > 0
  <2>1. node'[q].state = "Leader"
    BY DEF Acked
  <2>2. node'[q].log # <<>> /\ node'[q].log \in Seq(Nat) /\ node'[q].term > 0
    BY <2>1, ShapeStep, TypeStep DEF ShapesOK, Shape, TypeOK, Nodes
  <2> QED
    BY <2>1, <2>2, LastProperties
<1>4. ASSUME NEW m \in msgs', m.type = "AppResp", m.index >= Len(node'[q].log),
             m.from = p, m.to = q, m.term = node'[q].term, m \notin msgs
      PROVE  /\ p = s /\ q # s /\ node'[q].term = n.term
             /\ \/ n.log # <<>> /\ LastOf(n.log) = n.term /\ n.saved = Len(n.log)
                \/ node'[q].term = node[q].term /\ Beaten(q)
  <2>1. m \in AppendReplies /\ m.index \in Nat
    <3>1. m \in Messages
      BY TypeStep DEF TypeOK
    <3> QED
      BY <1>4, <3>1, MessageFields DEF AppendReplies
  <2>2. m.index > 0
    BY <1>3, <1>4, <2>1
  <2>3. m \in out
    BY <1>4 DEF Become
  <2>4. /\ m.from = s /\ m.to # s /\ m.term = n.term /\ n.state = "Follower"
        /\ node[m.to].state = "Leader" /\ node[m.to].term = m.term =>
              (m.index >= Len(node[m.to].log) => Beaten(m.to) \/ LastOf(n.log) = n.term)
    BY <1>4, <2>2, <2>3 DEF Legal, MaySend, MayAck
  <2>5. node'[q] = node[q]
    BY <1>4, <2>4, NodeAfter
  <2>6. Beaten(q) \/ LastOf(n.log) = n.term
    BY <1>3, <1>4, <2>4, <2>5
  <2>7. n.saved = Len(n.log)
    BY <2>4 DEF Legal, Shape
  <2>8. LastOf(n.log) = n.term => n.log # <<>>
    BY <1>1, <1>3, <1>4, <2>4, LastProperties
  <2> QED
    BY <1>4, <2>4, <2>5, <2>6, <2>7, <2>8
<1>5. CASE q = s
  <2>1. n.state = "Leader"
    BY <1>1, <1>3, <1>5
  <2>2. \/ n.matched[p] >= Len(n.log)
        \/ \E m \in msgs : /\ m.type = "AppResp" /\ m.index >= Len(n.log)
                           /\ m.from = p /\ m.to = s /\ m.term = n.term
    BY <1>1, <1>4, <1>5 DEF Acked
  <2>3. ~Wins(s, n)
    <3>1. SUFFICES ASSUME Wins(s, n) PROVE FALSE
      OBVIOUS
    <3>2. ~(n.matched[p] >= Len(n.log))
      BY <1>1, <1>3, <1>5, <3>1 DEF Wins
    <3>3. PICK m \in msgs : m.type = "AppResp" /\ m.index >= Len(n.log) /\ m.term = n.term
      BY <2>2, <3>2
    <3>4. m.index > 0
      <4>1. m \in AppendReplies
        BY <3>3, MessageFields DEF TypeOK
      <4> QED
        BY <1>1, <1>3, <1>5, <3>3, <4>1 DEF AppendReplies
    <3>5. <<m.term, m.to>> \in elected
      BY <3>3, <3>4 DEF AcksOK
    <3> QED
      BY <1>1, <3>1, <3>3, <3>5, WinsNewTerm
  <2>4. Leads(s, n)
    BY <2>1, <2>3, LeaderStep
  <2>5. node[s].state = "Leader" /\ n.term = node[s].term /\ n.log = node[s].log
    BY <2>4 DEF Leads
  <2>6. Acked(s, p) \/ (p = s /\ n.saved = Len(n.log))
    <3>1. CASE n.matched[p] >= Len(n.log) /\ p = s
      BY <2>4, <3>1 DEF Leads
    <3>2. CASE n.matched[p] >= Len(n.log) /\ p # s
      BY <2>4, <2>5, <3>2 DEF Leads, Acked, Told
    <3>3. CASE ~(n.matched[p] >= Len(n.log))
      BY <2>2, <2>5, <3>3 DEF Acked
    <3> QED
      BY <3>1, <3>2, <3>3
  <2> QED
    BY <1>1, <1>2, <1>5, <2>1, <2>5, <2>6
<1>6. CASE q # s
  <2>1. node'[q] = node[q]
    BY <1>6, NodeAfter
  <2> QED
    BY <1>4, <2>1 DEF Acked
<1> QED
  BY <1>5, <1>6

\* Who left the term of a leader without its log still has.
LEMMA SupersededStep ==
    ASSUME TypeOK, ShapesOK, VotesOK, ElectedOK, LogsOK, AcksOK, Kept,
           NEW s \in Server, NEW n, NEW out, Become(s, n, out), Legal(s, n, out),
           NEW q \in Server, node'[q].term = node[q].term,
           NEW p \in Server, ~Acked(q, p), node[p].term > node[q].term
    PROVE  ~Acked(q, p)' /\ node'[p].term > node'[q].term
<1>1. /\ n.term \in Nat /\ node'[s] = n
      /\ \A r \in Server : /\ node[r].term \in Nat /\ node'[r].term \in Nat
                           /\ node'[r].term >= node[r].term
  BY TermsStep
<1>2. node'[p].term > node'[q].term
  BY <1>1
<1> QED
  BY <1>1, <1>2, AckedStep

\* A leader that can never commit its log still cannot.
LEMMA BeatenStep ==
    ASSUME TypeOK, ShapesOK, VotesOK, ElectedOK, LogsOK, AcksOK, Kept,
           NEW s \in Server, NEW n, NEW out, Become(s, n, out), Legal(s, n, out),
           NEW q \in Server, node'[q].term = node[q].term, Beaten(q)
    PROVE  Beaten(q)'
<1>1. PICK Q \in SUBSET Server :
         IsQuorum(Q) /\ \A p \in Q : ~Acked(q, p) /\ node[p].term > node[q].term
  BY DEF Beaten
<1>2. \A p \in Q : ~Acked(q, p)' /\ node'[p].term > node'[q].term
  BY <1>1, SupersededStep
<1> QED
  BY <1>1, <1>2 DEF Beaten, IsQuorum

\* Two appends, or an append and its leader, have the same log if they are of one term.
LEMMA SameTermSameLog ==
    ASSUME TypeOK, LogsOK, NEW a \in Logs, NEW b \in Logs, a # <<>>, b # <<>>,
           LastOf(a) = LastOf(b)
    PROVE  Len(a) = Len(b) /\ \A i \in 1..Len(a) : a[i] = b[i]
<1>1. a \in Seq(Nat) /\ b \in Seq(Nat)
  BY LogTypes
<1>2. /\ Len(a) \in DOMAIN a /\ Len(b) \in DOMAIN b
      /\ a[Len(a)] = LastOf(a) /\ b[Len(b)] = LastOf(b)
  <2>1. /\ DOMAIN a = 1..Len(a) /\ Len(a) > 0 /\ Len(a) \in Nat /\ LastOf(a) = a[Len(a)]
    BY <1>1, LastProperties
  <2>2. /\ DOMAIN b = 1..Len(b) /\ Len(b) > 0 /\ Len(b) \in Nat /\ LastOf(b) = b[Len(b)]
    BY <1>1, LastProperties
  <2>3. Len(a) \in 1..Len(a) /\ Len(b) \in 1..Len(b)
    BY <2>1, <2>2
  <2> QED
    BY <2>1, <2>2, <2>3, Zenon
<1> QED
  BY <1>2 DEF LogsOK, LogsMatch

\* Who takes over from an append what it did not have goes on to agree with what it agreed
\* with, if that agrees with the append.
LEMMA CopyAgrees ==
    ASSUME NEW e \in Seq(Nat), NEW o \in Seq(Nat), NEW a \in Seq(Nat), NEW l \in Seq(Nat),
           NEW k \in Nat, Agree(e, a, Len(e)), ~Agree(e, o, Len(e)),
           k <= Len(a), Agree(o, l, k), \A i \in 1..k : a[i] = l[i]
    PROVE  Agree(e, l, k)
<1>1. Len(e) \in Nat /\ Len(o) \in Nat /\ Len(a) \in Nat /\ Len(l) \in Nat
  OBVIOUS
<1>2. k <= Len(e)
  <2>1. SUFFICES ASSUME Len(e) < k PROVE Agree(e, o, Len(e))
    BY <1>1
  <2>2. \A i \in 1..Len(e) : i \in 1..k /\ e[i] = a[i] /\ a[i] = l[i] /\ o[i] = l[i]
    BY <1>1, <2>1 DEF Agree
  <2>3. Len(e) <= Len(o)
    BY <1>1, <2>1 DEF Agree
  <2> QED
    BY <1>1, <2>2, <2>3 DEF Agree
<1>3. \A i \in 1..k : i \in 1..Len(e) /\ e[i] = a[i]
  BY <1>1, <1>2 DEF Agree
<1> QED
  BY <1>2, <1>3 DEF Agree

\* A follower that lost the end of its log was not the follower of another leader.
LEMMA NothingLost ==
    ASSUME TypeOK, ShapesOK, ElectedOK, ElectionSafety,
           NEW s \in Server, NEW n \in Nodes, NEW q \in Server, q # s,
           n.log = SubSeq(node[s].log, 1, node[s].saved),
           <<node[s].term, q>> \in elected
    PROVE  n.log = node[s].log
<1>1. node[s].log \in Seq(Nat) /\ node[s].saved \in Nat /\ Len(node[s].log) \in Nat
      /\ n.log \in Seq(Nat)
  BY LenProperties DEF TypeOK, Nodes
<1>2. node[s].saved = Len(node[s].log)
  <2>1. ~(node[s].saved < Len(node[s].log))
    BY DEF ElectedOK, ElectionSafety
  <2>2. node[s].saved <= Len(node[s].log)
    BY DEF ShapesOK, Shape
  <2> QED
    BY <1>1, <2>1, <2>2
<1>3. /\ Len(n.log) = Len(node[s].log)
      /\ \A i \in 1..Len(node[s].log) : n.log[i] = node[s].log[i]
  BY <1>1, <1>2, Truncated
<1> QED
  BY <1>1, <1>3, SeqEqual

\* Who reached an entry of a leader goes on to have it, in its term.
LEMMA ReachedStep ==
    ASSUME TypeOK, ShapesOK, VotesOK, ElectedOK, LogsOK, ElectionSafety, Kept,
           NEW s \in Server, NEW n, NEW out, Become(s, n, out), Legal(s, n, out),
           NEW q \in Server, NEW p \in Server \ {q}, NEW k \in Nat,
           node[q].state = "Leader", node'[q].term = node[q].term,
           node'[q].log = node[q].log, Reached(p, q, k)
    PROVE  Reached(p, q, k)'
<1> DEFINE o == node[s]
           t == node[q].term
           l == node[q].log
<1>1. /\ n.term \in Nat /\ node'[s] = n /\ n \in Nodes
      /\ \A r \in Server : /\ node[r].term \in Nat /\ node'[r].term \in Nat
                           /\ node'[r].term >= node[r].term
      /\ n.log \in Seq(Nat) /\ o.log \in Seq(Nat) /\ l \in Seq(Nat) /\ l \in Logs
      /\ o.committed \in Nat /\ n.committed \in Nat
  BY TermsStep, LogTypes DEF Nodes, TypeOK
<1>2. node'[p].term >= t /\ <<t, q>> \in elected
  BY <1>1 DEF Reached, ElectedOK
<1>3. ASSUME p = s, n.term = t
      PROVE  k <= n.committed \/ Agree(n.log, l, k)
  <2>1. o.term = t /\ ~(<<t, s>> \in elected)
    BY <1>1, <1>2, <1>3 DEF Reached, ElectionSafety
  <2>2. CASE k <= o.committed
    <3>1. o.committed <= n.committed
      BY <1>3, <2>1 DEF Legal, Forward
    <3> QED
      BY <1>1, <2>2, <3>1
  <2>3. CASE Agree(o.log, l, k)
    <3>1. ~Wins(s, n)
      BY <1>1, <1>2, <1>3, WinsNewTerm
    <3>2. CASE \E from \in Server : Copies(s, n, from)
      <4>1. PICK m \in msgs : m.type = "App" /\ m.term = t /\ Agree(n.log, m.log, Len(n.log))
        BY <1>3, <3>2 DEF Copies
      <4>2. ~Agree(n.log, o.log, Len(n.log))
        BY <3>2 DEF Copies
      <4>3. m.log \in Logs /\ m.log \in Seq(Nat) /\ m.log # <<>> /\ LastOf(m.log) = t
        BY <4>1, LogTypes DEF LogsOK
      <4>4. l # <<>> /\ LastOf(l) = t
        BY DEF ShapesOK, Shape
      <4>5. Len(m.log) = Len(l) /\ \A i \in 1..Len(m.log) : m.log[i] = l[i]
        BY <1>1, <4>3, <4>4, SameTermSameLog
      <4>6. k <= Len(m.log) /\ Len(m.log) \in Nat
        BY <2>3, <4>3, <4>5 DEF Agree
      <4>7. \A i \in 1..k : m.log[i] = l[i]
        BY <4>5, <4>6
      <4> QED
        BY <1>1, <2>3, <4>1, <4>2, <4>3, <4>6, <4>7, CopyAgrees
    <3>3. CASE n.log = SubSeq(o.log, 1, o.saved)
      <4>1. n.log = o.log
        BY <1>1, <1>2, <1>3, <2>1, <3>3, NothingLost
      <4> QED
        BY <2>3, <4>1
    <3> QED
      BY <2>3, <3>1, <3>2, <3>3 DEF Legal, LogLegal
  <2> QED
    BY <1>3, <2>1, <2>2, <2>3 DEF Reached
<1>4. node'[p].term = t => k <= node'[p].committed \/ Agree(node'[p].log, l, k)
  <2>1. CASE p = s
    BY <1>1, <1>3, <2>1
  <2>2. CASE p # s
    BY <2>2, NodeAfter DEF Reached
  <2> QED
    BY <2>1, <2>2
<1> QED
  BY <1>2, <1>4 DEF Reached, Agree

\* Acknowledgements still come from servers that keep up.
LEMMA AcksStep ==
    ASSUME TypeOK, ShapesOK, VotesOK, ElectedOK, LogsOK, AcksOK, SafeOK, ElectionSafety, Kept,
           NEW s \in Server, NEW n, NEW out, Become(s, n, out), Legal(s, n, out)
    PROVE  AcksOK'
<1>1. /\ n \in Nodes /\ n.term \in Nat /\ n.log \in Seq(Nat) /\ node'[s] = n
      /\ n.matched \in [Server -> Nat]
      /\ \A q \in Server : node[q].term \in Nat /\ node[q].matched \in [Server -> Nat]
  BY TermsStep DEF Nodes
<1>2. ASSUME NEW q \in Server, NEW p \in Server, Acked(q, p)'
      PROVE  (KeepsUp(p, node[q].term) \/ Beaten(q))'
  <2>1. CASE Acked(q, p) /\ node'[q].term = node[q].term
    <3>1. PICK t \in Nat : t = node[q].term
      BY <1>1
    <3>2. CASE Beaten(q)
      BY <2>1, <3>2, BeatenStep
    <3>3. CASE KeepsUp(p, t) /\ ~Beaten(q)
      <4>1. Firm(t)
        BY <2>1, <3>1, <3>3, LeaderFirm DEF Acked
      <4>2. KeepsUp(p, t)'
        BY <3>3, <4>1, KeepsUpStep
      <4> QED
        BY <2>1, <3>1, <4>2 DEF KeepsUp
    <3> QED
      BY <2>1, <3>1, <3>2, <3>3 DEF AcksOK
  <2>2. CASE /\ p = s /\ node'[q].term = n.term
             /\ n.log # <<>> /\ LastOf(n.log) = n.term /\ n.saved = Len(n.log)
    <3>1. KeepsUp(s, n.term)'
      BY <2>2, NewKeepsUp
    <3> QED
      BY <2>2, <3>1 DEF KeepsUp
  <2>3. CASE node'[q].term = node[q].term /\ Beaten(q)
    BY <2>3, BeatenStep
  <2> QED
    BY <1>2, <2>1, <2>2, <2>3, AckedStep
<1>3. ASSUME NEW q \in Server, node'[q].state = "Leader", ~(q = s /\ Wins(s, n))
      PROVE  /\ node[q].state = "Leader" /\ node'[q].term = node[q].term
             /\ node'[q].log = node[q].log
  <2>1. CASE q = s
    <3>1. n.state = "Leader" /\ Leads(s, n)
      BY <1>1, <1>3, <2>1, LeaderStep
    <3> QED
      BY <1>1, <2>1, <3>1 DEF Leads
  <2>2. CASE q # s
    BY <1>3, <2>2, NodeAfter
  <2> QED
    BY <2>1, <2>2
<1>4. ASSUME NEW m \in msgs', m.type = "AppResp", m.index > 0
      PROVE  /\ <<m.term, m.to>> \in elected'
             /\ node'[m.to].state = "Leader" /\ node'[m.to].term = m.term
                   => Reached(m.from, m.to, m.index)'
  <2>1. /\ m \in Messages /\ m.from \in Server /\ m.to \in Server /\ m.term \in Nat
        /\ m.from # m.to /\ m \in AppendReplies
    BY <1>4, TypeStep, MessageFields DEF TypeOK
  <2>2. m.index \in Nat
    BY <2>1 DEF AppendReplies
  <2>3. CASE m \in msgs
    <3>1. <<m.term, m.to>> \in elected
      BY <1>4, <2>3 DEF AcksOK
    <3>2. ASSUME node'[m.to].state = "Leader", node'[m.to].term = m.term
          PROVE  Reached(m.from, m.to, m.index)'
      <4>1. ~(m.to = s /\ Wins(s, n))
        BY <1>1, <2>1, <3>1, <3>2, WinsNewTerm
      <4>2. /\ node[m.to].state = "Leader" /\ node'[m.to].term = node[m.to].term
            /\ node'[m.to].log = node[m.to].log
        BY <1>3, <2>1, <3>2, <4>1
      <4>3. Reached(m.from, m.to, m.index)
        BY <1>4, <2>3, <3>2, <4>2 DEF AcksOK
      <4> QED
        BY <2>1, <2>2, <4>2, <4>3, ReachedStep
    <3> QED
      BY <3>1, <3>2, NodeAfter
  <2>4. CASE m \in out
    <3>1. /\ m.from = s /\ m.to # s /\ m.term = n.term /\ <<m.term, m.to>> \in elected
          /\ node[m.to].state = "Leader" /\ node[m.to].term = m.term =>
                m.index <= n.committed \/ Agree(n.log, node[m.to].log, m.index)
      BY <1>4, <2>4 DEF Legal, MaySend, MayAck
    <3>2. node'[m.to] = node[m.to]
      BY <2>1, <3>1, NodeAfter
    <3>3. ASSUME node'[m.to].state = "Leader", node'[m.to].term = m.term
          PROVE  Reached(m.from, m.to, m.index)'
      <4>1. m.index <= n.committed \/ Agree(n.log, node'[m.to].log, m.index)
        BY <3>1, <3>2, <3>3
      <4>2. node'[m.from].term >= node'[m.to].term
        BY <1>1, <3>1, <3>3
      <4> QED
        BY <1>1, <3>1, <4>1, <4>2 DEF Reached, Agree
    <3> QED
      BY <3>1, <3>3, NodeAfter
  <2> QED
    BY <2>3, <2>4 DEF Become
<1>5. ASSUME NEW q \in Server, NEW p \in Server \ {q}, NEW k,
             node'[q].state = "Leader", k = node'[q].matched[p], k > 0
      PROVE  Reached(p, q, k)'
  <2>1. CASE q # s
    <3>1. node'[q] = node[q]
      BY <2>1, NodeAfter
    <3>2. k \in Nat /\ Reached(p, q, k)
      BY <1>1, <1>5, <3>1 DEF AcksOK
    <3> QED
      BY <1>5, <3>1, <3>2, ReachedStep
  <2>2. CASE q = s
    <3>1. n.state = "Leader" /\ k = n.matched[p] /\ k \in Nat
      BY <1>1, <1>5, <2>2
    <3>2. ~Wins(s, n)
      BY <1>5, <2>2, <3>1 DEF Wins
    <3>3. Leads(s, n)
      BY <3>1, <3>2, LeaderStep
    <3>4. node[s].state = "Leader" /\ node[s].term = n.term /\ n.log = node[s].log
      BY <3>3 DEF Leads
    <3>5. Reached(p, s, k)
      <4>1. CASE k = node[s].matched[p]
        BY <1>5, <2>2, <3>4, <4>1 DEF AcksOK
      <4>2. CASE Told(s, p, n.term, k)
        BY <1>5, <3>4, <4>2 DEF Told, AcksOK
      <4> QED
        BY <1>5, <2>2, <3>1, <3>3, <4>1, <4>2 DEF Leads
    <3> QED
      BY <1>1, <2>2, <3>1, <3>4, <3>5, ReachedStep
  <2> QED
    BY <2>1, <2>2
<1>6. ASSUME NEW q \in Server, NEW p \in Server,
             (node[q].state = "Leader" /\ q # p /\ node[q].matched[p] > 0)'
      PROVE  Reached(p, q, node[q].matched[p])'
  <2>1. PICK k : k = node'[q].matched[p]
    OBVIOUS
  <2>2. Reached(p, q, k)'
    BY <1>5, <1>6, <2>1
  <2> QED
    BY <2>1, <2>2 DEF Reached, Agree
<1>7. ASSUME NEW m \in msgs', m.type = "AppResp", m.index > 0
      PROVE  (/\ <<m.term, m.to>> \in elected
              /\ node[m.to].state = "Leader" /\ node[m.to].term = m.term
                    => Reached(m.from, m.to, m.index))'
  BY <1>4, <1>7
<1> QED
  BY <1>2, <1>6, <1>7 DEF AcksOK

-----------------------------------------------------------------------------
\* What is committed after a legal step

\* A candidate that wins has the logs of the leaders before it, as far as they can be
\* committed.
LEMMA WinnerHolds ==
    ASSUME TypeOK, ShapesOK, VotesOK, ElectedOK, LogsOK, AcksOK, SafeOK,
           NEW s \in Server, NEW n \in Nodes, Wins(s, n), NEW q \in Server,
           node[q].state = "Leader", node[q].term < n.term
    PROVE  Holds(node[q].log, n.log, Len(n.log)) \/ Beaten(q)
<1> DEFINE o == node[s]
           l == node[q].log
           t == node[q].term
<1>1. /\ n.term \in Nat /\ n.log \in Seq(Nat) /\ o.log \in Seq(Nat) /\ o.log \in Logs
      /\ l \in Seq(Nat) /\ l \in Logs /\ t \in Nat
      /\ \A p \in Server : node[p].term \in Nat
  BY LogTypes DEF TypeOK, Nodes
<1>2. /\ o.state = "Candidate" /\ n.term = o.term /\ n.log = Append(o.log, n.term)
      /\ \E Q \in SUBSET Server : IsQuorum(Q) /\ \A p \in Q : Granted(s, p, n.term)
  BY DEF Wins
<1>3. /\ Len(n.log) = Len(o.log) + 1
      /\ \A k \in 1..Len(o.log) : n.log[k] = o.log[k]
  BY <1>1, <1>2, AppendProperties
<1>4. l # <<>> /\ LastOf(l) = t /\ t > 0
  BY DEF ShapesOK, Shape
<1>5. /\ Len(l) \in Nat /\ Len(o.log) \in Nat /\ DOMAIN l = 1..Len(l)
      /\ DOMAIN o.log = 1..Len(o.log) /\ Len(l) > 0 /\ l[Len(l)] = t
      /\ LastOf(o.log) \in Nat
  BY <1>1, <1>4, LastProperties
<1>6. Holds(l, o.log, Len(o.log)) => Holds(l, n.log, Len(n.log))
  BY <1>3, <1>5 DEF Holds
<1>7. CASE LastOf(o.log) >= t
  <2>1. o.log # <<>> /\ Len(o.log) \in DOMAIN o.log /\ o.log[Len(o.log)] = LastOf(o.log)
    BY <1>1, <1>4, <1>7, LastProperties
  <2>2. CASE LastOf(o.log) > t
    BY <1>1, <1>6, <2>1, <2>2 DEF SafeOK
  <2>3. CASE LastOf(o.log) = t
    <3>1. Len(l) = Len(o.log) /\ \A k \in 1..Len(l) : l[k] = o.log[k]
      BY <1>1, <1>5, <2>1, <2>3, SMTT(20) DEF LogsOK, LogsMatch
    <3> QED
      BY <1>5, <1>6, <3>1 DEF Holds
  <2> QED
    BY <1>1, <1>5, <1>7, <2>2, <2>3, SMTT(20)
<1>8. CASE LastOf(o.log) < t
  <2>1. PICK Q \in SUBSET Server : IsQuorum(Q) /\ \A p \in Q : Granted(s, p, n.term)
    BY <1>2
  <2>2. ASSUME NEW p \in Q, ~Beaten(q) PROVE ~Acked(q, p) /\ node[p].term > t
    <3>1. Granted(s, p, n.term)
      BY <2>1
    <3>2. node[p].term >= n.term
      BY <1>1, <3>1 DEF VotesOK, Stands
    <3>3. ~KeepsUp(p, t)
      BY <1>1, <1>2, <1>5, <1>8, <3>1 DEF KeepsUp
    <3> QED
      BY <1>1, <2>2, <3>2, <3>3 DEF AcksOK
  <2> QED
    BY <2>1, <2>2 DEF Beaten
<1> QED
  BY <1>1, <1>5, <1>7, <1>8

\* A leader whose log a later one does not have still cannot commit it.
LEMMA SafeStep ==
    ASSUME TypeOK, ShapesOK, VotesOK, ElectedOK, LogsOK, AcksOK, SafeOK, Kept,
           NEW s \in Server, NEW n, NEW out, Become(s, n, out), Legal(s, n, out)
    PROVE  SafeOK'
<1>1. /\ n \in Nodes /\ n.term \in Nat /\ n.log \in Seq(Nat) /\ node'[s] = n
      /\ \A r \in Server : /\ node[r].term \in Nat /\ node'[r].term \in Nat
                           /\ node'[r].term >= node[r].term
  BY TermsStep DEF Nodes
<1> SUFFICES ASSUME NEW q \in Server, NEW a \in Logs', NEW i \in DOMAIN a,
                    node'[q].state = "Leader", a[i] > node'[q].term
             PROVE  Holds(node'[q].log, a, i) \/ Beaten(q)'
  BY DEF SafeOK, Holds
<1>2. CASE Wins(s, n) /\ q = s
  <2>1. Old(a, i)
    <3>1. ~(a = n.log /\ i = Len(n.log))
      <4>1. n.log[Len(n.log)] = n.term
        <5>1. n.log # <<>> /\ LastOf(n.log) = n.term
          BY <1>2 DEF Wins, Legal, Shape
        <5> QED
          BY <1>1, <5>1, LastProperties
      <4> QED
        BY <1>1, <1>2, <4>1
    <3> QED
      BY <3>1, EntryStep
  <2>2. PICK b \in Logs : i \in DOMAIN b /\ \A k \in 1..i : a[k] = b[k]
    BY <2>1 DEF Old
  <2>3. a[i] = b[i] /\ a[i] \in Nat
    BY <2>2, LogTypes, LastProperties
  <2>4. PICK x \in Server : <<a[i], x>> \in elected
    BY <2>2, <2>3 DEF LogsOK
  <2>5. PICK Q \in SUBSET Server : IsQuorum(Q) /\ \A p \in Q : Stands(p, x, a[i])
    BY <2>4 DEF ElectedOK
  <2>6. ASSUME NEW p \in Q PROVE ~Acked(s, p)' /\ node'[p].term > n.term
    <3>1. node'[p].term > n.term
      BY <1>1, <1>2, <2>3, <2>5, SMTT(20) DEF Stands
    <3>2. ~Acked(s, p)
      BY <1>2 DEF Acked, Wins
    <3> QED
      BY <1>1, <3>1, <3>2, AckedStep
  <2> QED
    BY <1>1, <1>2, <2>5, <2>6 DEF Beaten, IsQuorum
<1>3. CASE ~(Wins(s, n) /\ q = s)
  <2>1. /\ node[q].state = "Leader" /\ node'[q].term = node[q].term
        /\ node'[q].log = node[q].log
    <3>1. CASE q = s
      BY <1>1, <1>3, <3>1, LeaderStep DEF Leads
    <3>2. CASE q # s
      BY <3>2, NodeAfter
    <3> QED
      BY <3>1, <3>2
  <2>2. Holds(node[q].log, a, i) \/ Beaten(q)
    <3>1. CASE Old(a, i)
      <4>1. PICK b \in Logs : i \in DOMAIN b /\ \A k \in 1..i : a[k] = b[k]
        BY <3>1 DEF Old
      <4>2. a[i] = b[i] /\ i \in Nat
        BY <4>1, LogTypes, LastProperties
      <4>3. b[i] > node[q].term
        BY <2>1, <4>2
      <4>4. Holds(node[q].log, b, i) => Holds(node[q].log, a, i)
        <5>1. node[q].log \in Seq(Nat)
          BY LogTypes
        <5>2. DOMAIN node[q].log = 1..Len(node[q].log) /\ Len(node[q].log) \in Nat
          BY <5>1, LastProperties
        <5> QED
          BY <4>1, <4>2, <5>2 DEF Holds
      <4> QED
        BY <2>1, <4>1, <4>3, <4>4 DEF SafeOK
    <3>2. CASE Wins(s, n) /\ a = n.log /\ i = Len(n.log)
      <4>1. n.log[Len(n.log)] = n.term
        <5>1. n.log # <<>> /\ LastOf(n.log) = n.term
          BY <3>2 DEF Wins, Legal, Shape
        <5> QED
          BY <1>1, <5>1, LastProperties
      <4> QED
        BY <1>1, <2>1, <3>2, <4>1, WinnerHolds
    <3> QED
      BY <3>1, <3>2, EntryStep
  <2> QED
    BY <2>1, <2>2, BeatenStep
<1> QED
  BY <1>2, <1>3

\* What leaders committed is on the disks of a quorum and in the logs of later leaders.
LEMMA ChosenStep ==
    ASSUME TypeOK, ShapesOK, VotesOK, ElectedOK, LogsOK, AcksOK, SafeOK, ChosenOK,
           ElectionSafety, Kept,
           NEW s \in Server, NEW n, NEW out, Become(s, n, out), Legal(s, n, out)
    PROVE  ChosenOK'
<1>1. /\ n \in Nodes /\ n.term \in Nat /\ n.log \in Seq(Nat) /\ node'[s] = n
      /\ node[s].log \in Seq(Nat) /\ node[s].log \in Logs /\ node[s].term \in Nat
  BY TermsStep, LogTypes DEF Nodes
<1>2. n.state = "Leader" => n.log # <<>> /\ LastOf(n.log) = n.term /\ n.log[Len(n.log)] = n.term
  <2>1. n.state = "Leader" => n.log # <<>> /\ LastOf(n.log) = n.term
    BY DEF Legal, Shape
  <2> QED
    BY <1>1, <2>1, LastProperties
<1>3. TypeOK' /\ LogsOK' /\ AcksOK' /\ SafeOK'
  BY TypeStep, LogsStep, AcksStep, SafeStep
<1>4. ASSUME NEW c \in chosen
      PROVE  /\ c.log # <<>> /\ LastOf(c.log) = c.term /\ c.term > 0
             /\ \E Q \in SUBSET Server : IsQuorum(Q) /\ \A p \in Q : KeepsUp(p, c.term)'
             /\ \A a \in Logs' : \A i \in DOMAIN a : a[i] >= c.term => Holds(c.log, a, i)
  <2>1. /\ c.log \in Seq(Nat) /\ c.log \in Logs /\ c.term \in Nat
        /\ c.log # <<>> /\ LastOf(c.log) = c.term /\ c.term > 0
    BY LogTypes DEF ChosenOK
  <2>2. PICK Q \in SUBSET Server : IsQuorum(Q) /\ \A p \in Q : KeepsUp(p, c.term)
    BY DEF ChosenOK
  <2>3. /\ Len(c.log) \in DOMAIN c.log /\ c.log[Len(c.log)] = c.term
        /\ DOMAIN c.log = 1..Len(c.log) /\ Len(c.log) \in Nat
    BY <2>1, LastProperties
  <2>4. ASSUME NEW a \in Logs', NEW i \in DOMAIN a, a[i] >= c.term
        PROVE  Holds(c.log, a, i)
    <3>1. CASE Old(a, i)
      <4>1. PICK b \in Logs : i \in DOMAIN b /\ \A k \in 1..i : a[k] = b[k]
        BY <3>1 DEF Old
      <4>2. a[i] = b[i] /\ i \in Nat
        BY <4>1, LogTypes, LastProperties
      <4>3. Holds(c.log, b, i)
        BY <2>4, <4>1, <4>2 DEF ChosenOK
      <4> QED
        BY <2>3, <4>1, <4>2, <4>3 DEF Holds
    <3>2. CASE Wins(s, n) /\ a = n.log /\ i = Len(n.log)
      <4> DEFINE l == node[s].log
      <4>1. /\ n.log = Append(l, n.term) /\ node[s].state = "Candidate" /\ n.term = node[s].term
            /\ n.state = "Leader"
        BY <3>2 DEF Wins
      <4>2. /\ Len(n.log) = Len(l) + 1
            /\ \A k \in 1..Len(l) : n.log[k] = l[k]
        BY <1>1, <4>1, AppendProperties
      <4>3. n.term > c.term
        <5>1. n.term # c.term
          BY <1>1, <2>1, <2>3, <3>2, OldTermElected
        <5> QED
          BY <1>1, <1>2, <2>1, <2>4, <3>2, <4>1, <5>1
      <4>4. LastOf(l) >= c.term
        <5>1. PICK R \in SUBSET Server : IsQuorum(R) /\ \A p \in R : Granted(s, p, n.term)
          BY <3>2 DEF Wins
        <5>2. PICK p \in Server : p \in Q /\ p \in R
          BY <2>2, <5>1, QuorumsMeet
        <5> QED
          BY <2>2, <4>1, <4>3, <5>1, <5>2 DEF KeepsUp
      <4>5. c.term > 0
        BY DEF ChosenOK
      <4>6. Holds(c.log, l, Len(l))
        <5>1. l # <<>> /\ Len(l) \in DOMAIN l /\ l[Len(l)] = LastOf(l)
          BY <1>1, <2>1, <4>4, <4>5, LastProperties
        <5> QED
          BY <1>1, <4>4, <5>1 DEF ChosenOK
      <4>7. Len(l) \in Nat
        BY <1>1
      <4> QED
        BY <2>3, <3>2, <4>2, <4>6, <4>7, SMTT(20) DEF Holds
    <3> QED
      BY <3>1, <3>2, EntryStep
  <2>5. \A p \in Q : KeepsUp(p, c.term)'
    BY <2>1, <2>2, ChosenFirm, KeepsUpStep
  <2> QED
    BY <2>1, <2>2, <2>4, <2>5
<1>5. ASSUME NEW c \in chosen', c \notin chosen
      PROVE  /\ c.log # <<>> /\ LastOf(c.log) = c.term /\ c.term > 0
             /\ \E Q \in SUBSET Server : IsQuorum(Q) /\ \A p \in Q : KeepsUp(p, c.term)'
             /\ \A a \in Logs' : \A i \in DOMAIN a : a[i] >= c.term => Holds(c.log, a, i)
  <2>1. /\ CommitsAll(s, n) /\ n.state = "Leader"
        /\ c.term = n.term /\ c.log = n.log
    BY <1>5, NewChosen
  <2>2. n.term > 0
    BY <2>1 DEF Legal, Shape
  <2>3. PICK Q \in SUBSET Server : IsQuorum(Q) /\ \A p \in Q : n.matched[p] >= Len(n.log)
    BY <2>1 DEF CommitsAll
  <2>4. \A p \in Q : Acked(s, p)'
    BY <1>1, <2>1, <2>3 DEF Acked
  <2>9. ~Beaten(s)'
    <3>1. SUFFICES ASSUME Beaten(s)' PROVE FALSE
      OBVIOUS
    <3>2. PICK R \in SUBSET Server : IsQuorum(R) /\ \A p \in R : ~Acked(s, p)'
      BY <3>1 DEF Beaten, IsQuorum
    <3> QED
      BY <2>3, <2>4, <3>2, QuorumsMeet
  <2>5. \A p \in Q : KeepsUp(p, n.term)'
    BY <1>1, <1>3, <2>4, <2>9 DEF AcksOK, KeepsUp
  <2>6. n.log \in Logs'
    BY <1>1 DEF Logs
  <2>7. /\ Len(n.log) \in DOMAIN n.log /\ DOMAIN n.log = 1..Len(n.log) /\ Len(n.log) \in Nat
    BY <1>1, <1>2, <2>1, LastProperties
  <2>8. ASSUME NEW a \in Logs', NEW i \in DOMAIN a, a[i] >= n.term
        PROVE  Holds(n.log, a, i)
    <3>1. a[i] \in Nat /\ i \in Nat
      BY LogStep, LastProperties
    <3>2. CASE a[i] = n.term
      <4>1. i = Len(n.log) /\ \A k \in 1..i : a[k] = n.log[k]
        BY <1>2, <1>3, <2>1, <2>6, <2>7, <3>2 DEF LogsOK, LogsMatch
      <4> QED
        BY <2>7, <3>1, <4>1 DEF Holds
    <3>3. CASE a[i] > n.term
      BY <1>1, <1>3, <2>1, <2>9, <3>3 DEF SafeOK, Holds
    <3> QED
      BY <1>1, <2>8, <3>1, <3>2, <3>3
  <2> QED
    BY <1>2, <2>1, <2>2, <2>3, <2>5, <2>8
<1> QED
  BY <1>4, <1>5 DEF ChosenOK, Holds, IsQuorum

\* What is committed stays so.
LEMMA CommittedStep ==
    ASSUME TypeOK, NEW s \in Server, NEW n, NEW out, Become(s, n, out),
           NEW l, NEW k, Committed(l, k)
    PROVE  Committed(l, k)'
BY NodeAfter DEF Committed

\* What is committed for two leaders they both have.
LEMMA ChosenAgree ==
    ASSUME TypeOK, ChosenOK, NEW c \in chosen, NEW d \in chosen, NEW k \in Nat,
           k <= Len(c.log), k <= Len(d.log)
    PROVE  \A i \in 1..k : c.log[i] = d.log[i]
<1>1. /\ c.log \in Seq(Nat) /\ c.log \in Logs /\ c.term \in Nat
      /\ d.log \in Seq(Nat) /\ d.log \in Logs /\ d.term \in Nat
      /\ c.log # <<>> /\ LastOf(c.log) = c.term
      /\ d.log # <<>> /\ LastOf(d.log) = d.term
  BY LogTypes DEF ChosenOK
<1>2. /\ DOMAIN c.log = 1..Len(c.log) /\ Len(c.log) \in Nat /\ Len(c.log) > 0
      /\ c.log[Len(c.log)] = c.term
  BY <1>1, LastProperties
<1>3. /\ DOMAIN d.log = 1..Len(d.log) /\ Len(d.log) \in Nat /\ Len(d.log) > 0
      /\ d.log[Len(d.log)] = d.term
  BY <1>1, LastProperties
<1>4. Len(c.log) \in 1..Len(c.log) /\ Len(d.log) \in 1..Len(d.log)
  BY <1>2, <1>3
<1>5. CASE c.term <= d.term
  <2>1. Holds(c.log, d.log, Len(d.log))
    BY <1>1, <1>3, <1>4, <1>5 DEF ChosenOK
  <2> QED
    BY <1>2, <2>1 DEF Holds
<1>6. CASE d.term <= c.term
  <2>1. Holds(d.log, c.log, Len(c.log))
    BY <1>1, <1>2, <1>4, <1>6 DEF ChosenOK
  <2> QED
    BY <1>3, <2>1 DEF Holds
<1> QED
  BY <1>1, <1>5, <1>6

\* A follower of a leader that told it a commit index keeps what is committed by it.
LEMMA CommitKept ==
    ASSUME TypeOK, ShapesOK, VotesOK, ElectedOK, LogsOK, ChosenOK, ElectionSafety, Kept,
           NEW s \in Server, NEW n, NEW out, Become(s, n, out), Legal(s, n, out),
           NEW q \in Server \ {s}, NEW k \in Nat, k > 0,
           n.term = node[s].term, <<n.term, q>> \in elected,
           Committed(node[s].log, k),
           \A a \in Logs : \A i \in DOMAIN a : a[i] = n.term => Committed(a, k)
    PROVE  Committed(n.log, k)
<1> DEFINE o == node[s]
<1>1. /\ n \in Nodes /\ n.log \in Seq(Nat) /\ o.log \in Seq(Nat)
      /\ Len(n.log) \in Nat /\ Len(o.log) \in Nat
  BY LogTypes, LenProperties DEF Legal, Nodes
<1>2. ~Wins(s, n)
  BY <1>1, WinsNewTerm
<1>3. CASE \E from \in Server : Copies(s, n, from)
  <2>1. PICK m \in msgs : m.type = "App" /\ m.term = n.term /\ Agree(n.log, m.log, Len(n.log))
    BY <1>3 DEF Copies
  <2>2. ~Agree(n.log, o.log, Len(n.log))
    BY <1>3 DEF Copies
  <2>3. m.log \in Logs /\ m.log \in Seq(Nat) /\ m.log # <<>> /\ LastOf(m.log) = n.term
    BY <2>1, LogTypes DEF LogsOK
  <2>4. /\ DOMAIN m.log = 1..Len(m.log) /\ Len(m.log) \in 1..Len(m.log)
        /\ m.log[Len(m.log)] = n.term
    <3>1. /\ DOMAIN m.log = 1..Len(m.log) /\ Len(m.log) \in Nat /\ Len(m.log) > 0
          /\ m.log[Len(m.log)] = n.term
      BY <2>3, LastProperties
    <3> QED
      BY <3>1
  <2>5. Committed(m.log, k)
    BY <2>3, <2>4
  <2>6. PICK c \in chosen : /\ k <= Len(c.log) /\ k <= Len(m.log)
                            /\ \A i \in 1..k : c.log[i] = m.log[i]
    BY <2>5 DEF Committed
  <2>7. PICK d \in chosen : /\ k <= Len(d.log) /\ k <= Len(o.log)
                            /\ \A i \in 1..k : d.log[i] = o.log[i]
    BY DEF Committed
  <2>8. \A i \in 1..k : c.log[i] = d.log[i]
    BY <2>6, <2>7, ChosenAgree
  <2>9. Agree(o.log, d.log, k) /\ \A i \in 1..k : m.log[i] = d.log[i]
    BY <2>6, <2>7, <2>8 DEF Agree
  <2>10. d.log \in Seq(Nat)
    BY LogTypes
  <2>11. Agree(n.log, d.log, k)
    BY <1>1, <2>1, <2>2, <2>3, <2>6, <2>9, <2>10, CopyAgrees
  <2> QED
    BY <2>7, <2>11 DEF Agree, Committed
<1>4. CASE n.log = SubSeq(o.log, 1, o.saved)
  BY <1>1, <1>4, NothingLost
<1> QED
  BY <1>2, <1>3, <1>4 DEF Legal, LogLegal

\* Commit indexes, whoever tells them, are of what leaders committed.
LEMMA CommitsStep ==
    ASSUME TypeOK, ShapesOK, VotesOK, ElectedOK, LogsOK, AcksOK, SafeOK, ChosenOK, CommitsOK,
           ElectionSafety, Kept,
           NEW s \in Server, NEW n, NEW out, Become(s, n, out), Legal(s, n, out)
    PROVE  CommitsOK'
<1>1. /\ n \in Nodes /\ n.term \in Nat /\ n.log \in Seq(Nat) /\ node'[s] = n
      /\ n.committed \in Nat /\ node[s].committed \in Nat
      /\ \A q \in Server : /\ node[q].term \in Nat /\ node'[q].term \in Nat
                           /\ node'[q].term >= node[q].term
  BY TermsStep DEF Nodes
<1>2. /\ n.committed <= Len(n.log)
      /\ n.state = "Leader" => n.log # <<>> /\ LastOf(n.log) = n.term
  BY DEF Legal, Shape
<1>3. LogsOK' /\ AcksOK'
  BY LogsStep, AcksStep
<1>4. Committed(n.log, n.committed)'
  <2>1. CASE Committed(n.log, n.committed)
    BY <2>1, CommittedStep
  <2>2. CASE CommitsAll(s, n) /\ n.committed > node[s].committed
    <3>1. /\ n.state = "Leader" /\ n.committed = Len(n.log)
          /\ [term |-> n.term, log |-> SubSeq(n.log, 1, n.committed)] \in chosen'
      BY <2>2 DEF CommitsAll, Become
    <3>2. SubSeq(n.log, 1, n.committed) = n.log
      BY <1>1, <3>1
    <3>3. [term |-> n.term, log |-> n.log] \in chosen'
      BY <3>1, <3>2
    <3> QED
      BY <1>1, <3>1, <3>3 DEF Committed
  <2>3. CASE CommitsAll(s, n) /\ n.committed <= node[s].committed
    <3>1. n.log = node[s].log
      BY <2>3 DEF CommitsAll
    <3>2. Committed(n.log, node[s].committed)
      BY <3>1 DEF CommitsOK
    <3>3. CASE n.committed > 0
      <4>1. PICK c \in chosen : /\ node[s].committed <= Len(c.log)
                               /\ node[s].committed <= Len(n.log)
                               /\ \A i \in 1..node[s].committed : c.log[i] = n.log[i]
        BY <1>1, <2>3, <3>2, <3>3 DEF Committed
      <4>2. Len(c.log) \in Nat /\ Len(n.log) \in Nat
        BY <1>1, LenProperties DEF TypeOK
      <4>3. /\ n.committed <= Len(c.log) /\ n.committed <= Len(n.log)
            /\ \A i \in 1..n.committed : c.log[i] = n.log[i]
        BY <1>1, <2>3, <4>1, <4>2
      <4>4. Committed(n.log, n.committed)
        BY <4>3 DEF Committed
      <4> QED
        BY <4>4, CommittedStep
    <3>4. CASE ~(n.committed > 0)
      BY <3>4 DEF Committed
    <3> QED
      BY <3>3, <3>4
  <2> QED
    BY <1>1, <2>1, <2>2, <2>3 DEF Legal, CommitLegal, Sound
<1>5. ASSUME NEW q \in Server
      PROVE  Committed(node[q].log, node[q].committed)'
  <2>1. CASE q = s
    BY <1>1, <1>4, <2>1 DEF Committed
  <2>2. CASE q # s
    <3>1. node'[q] = node[q]
      BY <2>2, NodeAfter
    <3>2. PICK x : x = node[q]
      OBVIOUS
    <3>3. Committed(x.log, x.committed)'
      BY <3>2, CommittedStep DEF CommitsOK
    <3> QED
      BY <3>1, <3>2, <3>3 DEF Committed
  <2> QED
    BY <2>1, <2>2
<1>6. ASSUME NEW m \in msgs'
      PROVE  /\ m \in Messages /\ m.from \in Server /\ m.to \in Server /\ m.term \in Nat
             /\ m.from # m.to
  BY TypeStep, MessageFields DEF TypeOK
<1>7. ASSUME NEW m \in msgs', m.type = "App"
      PROVE  Committed(m.log, m.commit)'
  <2>1. CASE m \in msgs
    <3>1. Committed(m.log, m.commit)
      BY <1>7, <2>1 DEF CommitsOK
    <3> QED
      BY <3>1, CommittedStep
  <2>2. CASE m \in out
    BY <1>4, <1>7, <2>2 DEF Legal, MaySend, MayAppend
  <2> QED
    BY <2>1, <2>2 DEF Become
<1>8. ASSUME NEW m \in msgs', m.type = "Heartbeat", m.commit > 0
      PROVE  /\ <<m.term, m.from>> \in elected'
             /\ node'[m.to].term >= m.term
             /\ node'[m.to].term = m.term => Committed(node[m.to].log, m.commit)'
             /\ \A a \in Logs' : \A i \in DOMAIN a :
                   a[i] = m.term => m.commit <= i /\ Committed(a, m.commit)'
  <2>1. m.commit \in Nat
    BY <1>6, <1>8, MessageFields DEF Heartbeats
  <2>2. CASE m \in msgs
    <3>1. /\ <<m.term, m.from>> \in elected
          /\ node[m.to].term >= m.term
          /\ node[m.to].term = m.term => Committed(node[m.to].log, m.commit)
          /\ \A a \in Logs : \A i \in DOMAIN a :
                a[i] = m.term => m.commit <= i /\ Committed(a, m.commit)
      BY <1>8, <2>2 DEF CommitsOK
    <3>2. node'[m.to].term >= m.term
      BY <1>1, <1>6, <3>1
    <3>3. ASSUME node'[m.to].term = m.term
          PROVE  Committed(node[m.to].log, m.commit)'
      <4>1. node[m.to].term = m.term
        BY <1>1, <1>6, <3>1, <3>3
      <4>2. Committed(node[m.to].log, m.commit)
        BY <3>1, <4>1
      <4>3. CASE m.to # s
        <5>1. node'[m.to].log = node[m.to].log
          BY <1>6, <4>3, NodeAfter
        <5> QED
          BY <4>2, <5>1, NodeAfter DEF Committed
      <4>4. CASE m.to = s
        <5>1. Committed(n.log, m.commit)
          BY <1>1, <1>6, <1>8, <2>1, <2>2, <3>1, <3>3, <4>1, <4>2, <4>4, CommitKept
        <5>2. Committed(n.log, m.commit)'
          BY <5>1, CommittedStep
        <5>3. node'[m.to].log = n.log
          BY <1>1, <4>4
        <5> QED
          BY <5>2, <5>3 DEF Committed
      <4> QED
        BY <4>3, <4>4
    <3>4. ASSUME NEW a \in Logs', NEW i \in DOMAIN a, a[i] = m.term
          PROVE  m.commit <= i /\ Committed(a, m.commit)'
      <4>1. CASE Old(a, i)
        <5>1. PICK b \in Logs : i \in DOMAIN b /\ \A k \in 1..i : a[k] = b[k]
          BY <4>1 DEF Old
        <5>2. b[i] = m.term /\ i \in Nat
          BY <3>4, <5>1, LogTypes, LastProperties
        <5>3. m.commit <= i /\ Committed(b, m.commit)
          BY <3>1, <5>1, <5>2
        <5>4. i <= Len(a)
          BY LogStep, LastProperties
        <5>5. Committed(a, m.commit)
          BY <2>1, <5>1, <5>2, <5>3, <5>4 DEF Committed
        <5> QED
          BY <1>6, <5>3, <5>5, CommittedStep
      <4>2. CASE Wins(s, n) /\ a = n.log /\ i = Len(n.log)
        <5>1. n.log[Len(n.log)] = n.term
          BY <1>1, <1>2, <4>2, LastProperties DEF Wins
        <5> QED
          BY <1>1, <3>1, <3>4, <4>2, <5>1, WinsNewTerm
      <4> QED
        BY <4>1, <4>2, EntryStep
    <3> QED
      BY <3>1, <3>2, <3>3, <3>4, NodeAfter
  <2>3. CASE m \in out
    <3>1. /\ m.from = s /\ n.state = "Leader" /\ m.term = n.term
          /\ m.commit <= n.matched[m.to] /\ m.commit <= n.committed
      BY <1>8, <2>3 DEF Legal, MaySend, MayBeat
    <3>2. <<m.term, m.from>> \in elected'
      BY <3>1 DEF Become
    <3>3. n.matched[m.to] \in Nat /\ n.matched[m.to] > 0
      BY <1>1, <1>6, <1>8, <2>1, <3>1 DEF Nodes
    <3>4. Reached(m.to, s, node[s].matched[m.to])'
      BY <1>1, <1>3, <1>6, <3>1, <3>3 DEF AcksOK
    <3>5. PICK c \in chosen' : /\ n.committed <= Len(c.log) /\ n.committed <= Len(n.log)
                               /\ \A k \in 1..n.committed : c.log[k] = n.log[k]
      BY <1>1, <1>4, <1>8, <2>1, <3>1 DEF Committed
    <3>6. c.log \in Seq(Nat) /\ Len(c.log) \in Nat /\ Len(n.log) \in Nat
          /\ m.commit <= Len(c.log)
      <4>1. c.log \in Seq(Nat)
        BY TypeStep DEF TypeOK
      <4>2. Len(c.log) \in Nat /\ Len(n.log) \in Nat
        BY <1>1, <4>1, LenProperties
      <4> QED
        BY <1>1, <2>1, <3>1, <3>5, <4>1, <4>2
    <3>7. \A k \in 1..m.commit : c.log[k] = n.log[k]
      BY <1>1, <2>1, <3>1, <3>5
    <3>8. node'[m.to].term >= m.term
      BY <1>1, <3>1, <3>4 DEF Reached
    <3>9. ASSUME node'[m.to].term = m.term
          PROVE  Committed(node[m.to].log, m.commit)'
      <4>5. PICK x : x = node'[m.to]
        OBVIOUS
      <4>1. x.committed \in Nat /\ x.log \in Seq(Nat) /\ Len(x.log) \in Nat
        BY <1>6, <4>5, TypeStep, LenProperties DEF TypeOK, Nodes
      <4>2. n.matched[m.to] <= x.committed \/ Agree(x.log, n.log, n.matched[m.to])
        BY <1>1, <3>1, <3>4, <3>9, <4>5 DEF Reached, Agree
      <4>3. CASE n.matched[m.to] <= x.committed
        <5>1. Committed(x.log, x.committed)'
          <6>1. PICK r \in Server : r = m.to
            BY <1>6
          <6>2. Committed(node[r].log, node[r].committed)'
            BY <1>5
          <6> QED
            BY <4>5, <6>1, <6>2 DEF Committed
        <5>2. x.committed > 0
          BY <3>3, <4>1, <4>3
        <5>3. PICK d \in chosen' : /\ x.committed <= Len(d.log) /\ x.committed <= Len(x.log)
                                   /\ \A k \in 1..x.committed : d.log[k] = x.log[k]
          BY <5>1, <5>2 DEF Committed
        <5>4. Len(d.log) \in Nat
          BY TypeStep, LenProperties DEF TypeOK
        <5>5. m.commit <= x.committed
          BY <2>1, <3>1, <3>3, <4>1, <4>3
        <5>6. m.commit <= Len(d.log) /\ m.commit <= Len(x.log)
          BY <2>1, <4>1, <5>3, <5>4, <5>5
        <5>7. \A k \in 1..m.commit : d.log[k] = x.log[k]
          BY <2>1, <4>1, <5>3, <5>5
        <5> QED
          BY <4>5, <5>6, <5>7 DEF Committed
      <4>4. CASE Agree(x.log, n.log, n.matched[m.to])
        <5>1. m.commit <= Len(x.log) /\ \A k \in 1..m.commit : x.log[k] = n.log[k]
          BY <2>1, <3>1, <3>3, <4>1, <4>4 DEF Agree
        <5> QED
          BY <3>6, <3>7, <4>5, <5>1 DEF Committed
      <4> QED
        BY <4>2, <4>3, <4>4
    <3>10. /\ n.log \in Logs' /\ Len(n.log) \in DOMAIN n.log /\ n.log[Len(n.log)] = n.term
      <4>1. n.log \in Logs'
        BY <1>1 DEF Logs
      <4> QED
        BY <1>1, <1>2, <3>1, <4>1, LastProperties
    <3>11. ASSUME NEW a \in Logs', NEW i \in DOMAIN a, a[i] = m.term
           PROVE  m.commit <= i /\ Committed(a, m.commit)'
      <4>1. i = Len(n.log) /\ \A k \in 1..i : a[k] = n.log[k]
        BY <1>3, <3>1, <3>10, <3>11 DEF LogsOK, LogsMatch
      <4>2. i <= Len(a) /\ Len(a) \in Nat
        BY LogStep, LastProperties
      <4>3. m.commit <= i /\ m.commit <= Len(a)
        BY <1>1, <1>2, <2>1, <3>1, <3>6, <4>1, <4>2
      <4>4. \A k \in 1..m.commit : k \in 1..i
        BY <2>1, <3>6, <4>1, <4>3
      <4>5. \A k \in 1..m.commit : c.log[k] = a[k]
        BY <3>7, <4>1, <4>4
      <4> QED
        BY <3>6, <4>3, <4>5 DEF Committed
    <3> QED
      BY <3>1, <3>2, <3>8, <3>9, <3>11
  <2> QED
    BY <2>2, <2>3 DEF Become
<1>9. ASSUME NEW m \in msgs', m.type \in VoteTypes, m.commit # 0, m.commit_term # 0
      PROVE  \E c \in chosen' : /\ m.commit \in DOMAIN c.log
                                /\ c.log[m.commit] = m.commit_term
  <2>1. CASE m \in msgs
    <3>1. PICK c \in chosen : /\ m.commit \in DOMAIN c.log
                              /\ c.log[m.commit] = m.commit_term
      BY <1>9, <2>1 DEF CommitsOK
    <3> QED
      BY <3>1, NodeAfter
  <2>2. CASE m \in out
    <3>1. m.commit <= n.committed /\ m.commit_term = n.log[m.commit]
      BY <1>9, <2>2 DEF Legal, MaySend, MayTell
    <3>6. m.commit \in Nat /\ m.commit \in 1..n.committed
      <4>1. m \in VoteRequests \cup VoteReplies
        BY <1>9, <2>2, MessageFields DEF Legal, VoteTypes
      <4>2. m.commit \in Nat
        BY <4>1 DEF VoteRequests, VoteReplies
      <4> QED
        BY <1>1, <1>9, <3>1, <4>2
    <3>2. PICK c \in chosen' : /\ n.committed <= Len(c.log)
                               /\ \A i \in 1..n.committed : c.log[i] = n.log[i]
      BY <1>1, <1>4, <3>6 DEF Committed
    <3>3. c.log \in Seq(Nat) /\ c.term \in Nat
      BY TypeStep DEF TypeOK
    <3>4. m.commit \in DOMAIN c.log /\ c.log[m.commit] = n.log[m.commit]
      <4>1. Len(c.log) \in Nat /\ DOMAIN c.log = 1..Len(c.log)
        BY <3>3, EmptySeq, LenProperties
      <4>2. m.commit \in 1..Len(c.log)
        BY <1>1, <3>2, <3>6, <4>1
      <4> QED
        BY <3>2, <3>6, <4>1, <4>2
    <3> QED
      BY <3>1, <3>4
  <2> QED
    BY <2>1, <2>2 DEF Become
<1> QED
  BY <1>5, <1>7, <1>8, <1>9 DEF CommitsOK

\* The invariant holds after a legal step.
LEMMA InvStep ==
    ASSUME IInv, NEW s \in Server, NEW n, NEW out, Become(s, n, out), Legal(s, n, out)
    PROVE  IInv'
<1>1. /\ TypeOK' /\ ShapesOK' /\ VotesOK' /\ ElectedOK' /\ RequestsOK' /\ ElectionSafety'
      /\ LogsOK'
  BY TypeStep, ShapeStep, VotesStep, ElectedStep, RequestsStep, SafetyStep, LogsStep DEF IInv
<1>2. Kept' = Kept
  BY DEF Become, Kept, repaired
<1>3. Kept => AcksOK' /\ SafeOK' /\ ChosenOK' /\ CommitsOK'
  BY AcksStep, SafeStep, ChosenStep, CommitsStep DEF IInv
<1> QED
  BY <1>1, <1>2, <1>3 DEF IInv

-----------------------------------------------------------------------------
\* What the operators of module Election return

\* A node has these fields.
LEMMA NodeFields ==
    ASSUME NEW n \in Nodes
    PROVE  /\ n.state \in States /\ n.term \in Nat /\ n.vote \in Peer /\ n.leader_id \in Peer
           /\ n.recent \in BOOLEAN /\ n.votes \in [Server -> Votes] /\ n.log \in Seq(Nat)
           /\ n.saved \in Nat /\ n.committed \in Nat /\ n.matched \in [Server -> Nat]
           /\ n.active \in SUBSET Server /\ n.lead_transferee \in Peer
           /\ Len(n.log) \in Nat /\ DOMAIN n.log = 1..Len(n.log)
           /\ \A i \in DOMAIN n.log : n.log[i] \in Nat
<1>1. n.log \in Seq(Nat)
  BY DEF Nodes
<1>2. Len(n.log) \in Nat /\ DOMAIN n.log = 1..Len(n.log)
  BY <1>1, LenProperties
<1>3. \A i \in DOMAIN n.log : n.log[i] \in Nat
  BY <1>1, ElementOfSeq, <1>2
<1> QED
  BY <1>1, <1>2, <1>3 DEF Nodes

\* A node that becomes a follower keeps its log, and its vote when it stays in its
\* term.
LEMMA FollowerFields ==
    ASSUME NEW n \in Nodes, NEW t \in Nat, NEW l \in Peer,
           NEW f, f = BecomeFollower(n, t, l)
    PROVE  /\ f \in Nodes
           /\ f.state = "Follower" /\ f.term = t /\ f.leader_id = l
           /\ f.vote = (IF n.term = t THEN n.vote ELSE None)
           /\ f.log = n.log /\ f.saved = n.saved /\ f.committed = n.committed
BY DEF BecomeFollower, Reset, Nodes, NoVotes, NoneMatched, Votes, States, Peer

\* A node that campaigns does so in the next term, with its own vote.
LEMMA CandidateFields ==
    ASSUME NEW n \in Nodes, NEW s \in Server, NEW c, c = BecomeCandidate(s, n)
    PROVE  /\ c \in Nodes /\ c.state = "Candidate" /\ c.term = n.term + 1 /\ c.vote = s
           /\ c.log = n.log /\ c.committed = n.committed
           /\ \A p \in Server : c.votes[p] = "none"
<1>1. PICK t \in Nat : t = n.term + 1
  BY NodeFields
<1>2. PICK r : r = Reset(n, t)
  OBVIOUS
<1>3. /\ r \in Nodes /\ r.term = t /\ r.log = n.log /\ r.committed = n.committed
      /\ \A p \in Server : r.votes[p] = "none"
  BY <1>2 DEF Reset, Nodes, NoVotes, NoneMatched, Votes, Peer
<1>4. c = [r EXCEPT !.vote = s, !.state = "Candidate"]
  BY <1>1, <1>2 DEF BecomeCandidate
<1> QED
  BY <1>1, <1>3, <1>4, ZenonT(30) DEF Nodes, Peer, States

\* A node that was written has all of its log on disk, unless it leads.
LEMMA SavedFields ==
    ASSUME NEW n \in Nodes
    PROVE  /\ Saved(n) \in Nodes
           /\ Saved(n) = [n EXCEPT !.saved = Saved(n).saved]
           /\ Saved(n).saved = IF n.state = "Leader" THEN n.saved ELSE Len(n.log)
           /\ Saved(n).state = n.state /\ Saved(n).term = n.term /\ Saved(n).vote = n.vote
           /\ Saved(n).votes = n.votes /\ Saved(n).log = n.log
           /\ Saved(n).committed = n.committed /\ Saved(n).matched = n.matched
BY NodeFields DEF Saved, LastIndex, Nodes

\* The term of an entry, of the last one in particular.
LEMMA TermOfFields ==
    ASSUME NEW n \in Nodes
    PROVE  /\ LastTerm(n) = LastOf(n.log) /\ LastTerm(n) \in Nat
           /\ \A i \in Nat : /\ TermOf(n, i) \in Nat
                             /\ TermOf(n, i) # 0 => i \in DOMAIN n.log /\ TermOf(n, i) = n.log[i]
<1>1. /\ n.log \in Seq(Nat) /\ Len(n.log) \in Nat /\ DOMAIN n.log = 1..Len(n.log)
      /\ \A i \in DOMAIN n.log : n.log[i] \in Nat
  BY NodeFields
<1>2. n.log = <<>> <=> Len(n.log) = 0
  BY <1>1, EmptySeq
<1> QED
  BY <1>1, <1>2 DEF LastTerm, TermOf, LastIndex, LastOf

\* A vote that is recorded is one that was there, or the one that came.
LEMMA PollFields ==
    ASSUME NEW n \in Nodes, NEW p \in Server, NEW v \in {"yes", "no"},
           NEW r, r = [n EXCEPT !.votes[p] = IF @ # "none" THEN @ ELSE v]
    PROVE  /\ r \in Nodes
           /\ r.state = n.state /\ r.term = n.term /\ r.vote = n.vote
           /\ r.leader_id = n.leader_id
           /\ r.log = n.log /\ r.saved = n.saved /\ r.committed = n.committed
           /\ r.matched = n.matched
           /\ \A q \in Server : r.votes[q] = "yes" => n.votes[q] = "yes" \/ (q = p /\ v = "yes")
<1> DEFINE w == [n.votes EXCEPT ![p] = IF @ # "none" THEN @ ELSE v]
<1>1. n.votes \in [Server -> Votes]
  BY NodeFields
<1>2. w \in [Server -> Votes] /\ \A q \in Server : w[q] = "yes" => n.votes[q] = "yes" \/ (q = p /\ v = "yes")
  BY <1>1 DEF Votes
<1>3. r = [n EXCEPT !.votes = w]
  BY DEF Nodes
<1> HIDE DEF w
<1> QED
  BY <1>2, <1>3 DEF Nodes

\* What AtTerm leaves of a node that looks at a message of its own or a later term.
LEMMA AtTermFields ==
    ASSUME NEW n \in Nodes, NEW m \in Messages, m.term >= n.term,
           NEW a, a = AtTerm(n, m)
    PROVE  /\ a \in Nodes
           /\ a.log = n.log /\ a.saved = n.saved /\ a.committed = n.committed
           /\ n.term <= a.term /\ a.term <= m.term
           /\ \/ a = n
              \/ a.state = "Follower" /\ n.term < a.term /\ a.term = m.term /\ a.vote = None
           /\ m.type \notin {"PreVote", "PreVoteResp"} => a.term = m.term
           /\ m.type \notin {"PreVote", "PreVoteResp"} /\ m.term > n.term
                => a.state = "Follower"
<1>1. n.term \in Nat /\ m.term \in Nat /\ m.from \in Peer /\ None \in Peer
  BY NodeFields, MessageFields DEF Peer
<1> DEFINE Stays == \/ m.term <= n.term \/ m.type = "PreVote"
                    \/ m.type = "PreVoteResp" /\ ~m.reject
<1>2. CASE Stays
  BY <1>1, <1>2 DEF AtTerm
<1>3. CASE ~Stays
  <2>1. PICK l \in Peer : a = BecomeFollower(n, m.term, l)
    BY <1>1, <1>3 DEF AtTerm
  <2>2. m.term > n.term
    BY <1>1, <1>3
  <2>3. m.term \in Nat /\ l \in Peer
    BY <1>1
  <2>4. /\ a \in Nodes /\ a.state = "Follower" /\ a.term = m.term
        /\ a.vote = (IF n.term = m.term THEN n.vote ELSE None)
        /\ a.log = n.log /\ a.saved = n.saved /\ a.committed = n.committed
    BY <2>1, <2>3, FollowerFields
  <2> QED
    BY <1>1, <2>2, <2>4
<1> QED
  BY <1>2, <1>3

-----------------------------------------------------------------------------
\* What is enough for the step of a server to be legal

\* What is committed is committed in every log that begins with the same entries.
LEMMA CommittedStays ==
    ASSUME TypeOK, NEW a \in Seq(Nat), NEW b \in Seq(Nat), NEW k \in Nat,
           Sound(a, k), k <= Len(b), \A i \in 1..k : b[i] = a[i]
    PROVE  Sound(b, k)
BY DEF Sound, Committed

\* The commit index of a server is good.
LEMMA OwnCommitted ==
    ASSUME IInv, NEW s \in Server
    PROVE  Sound(node[s].log, node[s].committed)
BY DEF IInv, CommitsOK, Sound, ShapesOK, Shape

\* A server may be a follower or a pre-candidate of its term, or of a later one, with
\* its log or that of an append.
LEMMA FollowerLegal ==
    ASSUME IInv, NEW s \in Server, NEW n \in Nodes, n.state \in {"Follower", "PreCandidate"},
           Forward(s, n), Sound(n.log, n.committed),
           n.log = node[s].log \/ \E from \in Server : Copies(s, n, from)
    PROVE  Legal(s, Saved(n), {})
<1> DEFINE v == Saved(n)
           o == node[s]
<1>1. /\ v \in Nodes /\ v.saved = Len(n.log) /\ v.state = n.state /\ v.term = n.term
      /\ v.vote = n.vote /\ v.log = n.log /\ v.committed = n.committed
  BY SavedFields
<1>2. /\ n.log \in Seq(Nat) /\ Len(n.log) \in Nat /\ DOMAIN n.log = 1..Len(n.log)
      /\ n.term \in Nat /\ n.committed \in Nat
      /\ \A i \in DOMAIN n.log : n.log[i] \in Nat
  BY NodeFields
<1>3. o \in Nodes /\ o.term \in Nat /\ o.saved \in Nat /\ o.saved <= Len(o.log)
      /\ \A i \in DOMAIN o.log : o.log[i] \in Nat /\ o.log[i] <= o.term
  BY NodeFields DEF IInv, TypeOK, ShapesOK, Shape
<1> HIDE DEF v
<1>4. \A i \in DOMAIN n.log : n.log[i] <= n.term
  <2>1. CASE n.log = o.log
    <3>1. \A i \in DOMAIN n.log : n.log[i] <= o.term
      BY <1>3, <2>1
    <3>2. o.term <= n.term
      BY DEF Forward
    <3> QED
      BY <1>2, <1>3, <3>1, <3>2
  <2>2. CASE \E from \in Server : Copies(s, n, from)
    <3>1. PICK m \in msgs : m.type = "App" /\ m.term = n.term /\ Agree(n.log, m.log, Len(n.log))
      BY <2>2 DEF Copies
    <3>2. /\ DOMAIN m.log = 1..Len(m.log) /\ Len(m.log) \in Nat
          /\ \A i \in DOMAIN m.log : m.log[i] <= n.term
      BY <3>1, LogTypes, LastProperties DEF IInv, LogsOK
    <3>3. \A i \in DOMAIN n.log : i \in DOMAIN m.log /\ n.log[i] = m.log[i]
      BY <1>2, <3>1, <3>2 DEF Agree
    <3> QED
      BY <3>2, <3>3
  <2> QED
    BY <2>1, <2>2
<1>5. n.committed <= Len(n.log)
  BY <1>2 DEF Sound
<1>6. Shape(s, v)
  BY <1>1, <1>2, <1>4, <1>5 DEF Shape
<1>7. Forward(s, v) /\ Campaigns(s, v)
  BY <1>1 DEF Forward, Campaigns
<1>8. LogLegal(s, v)
  BY <1>1, <1>3 DEF LogLegal, Copies
<1>9. CommitLegal(s, v)
  BY <1>1 DEF CommitLegal
<1> QED
  BY <1>1, <1>6, <1>7, <1>8, <1>9 DEF Legal, v

\* A server may be a candidate of a later term with its own vote, or of its term with
\* the votes it has got.
LEMMA CandidateLegal ==
    ASSUME IInv, NEW s \in Server, NEW n \in Nodes, n.state = "Candidate",
           n.vote = s, n.log = node[s].log, Sound(n.log, n.committed),
           node[s].committed <= n.committed,
           node[s].term < n.term \/ (node[s].state = "Candidate" /\ node[s].term = n.term),
           \A p \in Server : n.votes[p] = "yes" => p = s \/ Granted(s, p, n.term)
    PROVE  Legal(s, Saved(n), {})
<1> DEFINE v == Saved(n)
           o == node[s]
<1>1. /\ v \in Nodes /\ v.saved = Len(n.log) /\ v.state = n.state /\ v.term = n.term
      /\ v.vote = n.vote /\ v.log = n.log /\ v.committed = n.committed /\ v.votes = n.votes
  BY SavedFields
<1>2. /\ n.log \in Seq(Nat) /\ Len(n.log) \in Nat /\ DOMAIN n.log = 1..Len(n.log)
      /\ n.term \in Nat /\ n.committed \in Nat
      /\ \A i \in DOMAIN n.log : n.log[i] \in Nat
  BY NodeFields
<1>3. /\ o \in Nodes /\ o.term \in Nat /\ o.saved \in Nat /\ o.saved <= Len(o.log)
      /\ \A i \in DOMAIN o.log : o.log[i] \in Nat /\ o.log[i] <= o.term
      /\ o.state = "Candidate" => /\ o.term > 0 /\ o.vote = s
                                  /\ \A i \in DOMAIN o.log : o.log[i] < o.term
  BY NodeFields DEF IInv, TypeOK, ShapesOK, Shape
<1> HIDE DEF v
<1>4. n.term > 0 /\ \A i \in DOMAIN n.log : n.log[i] < n.term /\ n.log[i] <= n.term
  BY <1>2, <1>3, SMTT(20)
<1>5. n.committed <= Len(n.log)
  BY <1>2 DEF Sound
<1>6. Shape(s, v)
  BY <1>1, <1>2, <1>4, <1>5 DEF Shape
<1>7. Forward(s, v) /\ Campaigns(s, v)
  BY <1>1, <1>2, <1>3 DEF Forward, Campaigns
<1>8. LogLegal(s, v)
  BY <1>1, <1>3 DEF LogLegal
<1>9. CommitLegal(s, v)
  BY <1>1 DEF CommitLegal
<1> QED
  BY <1>1, <1>6, <1>7, <1>8, <1>9 DEF Legal, v

\* What a leader may come to know: what its peers tell it, and that it has written its
\* log.
Knows(s, n) ==
    /\ n.state = "Leader" /\ node[s].state = "Leader"
    /\ n.term = node[s].term /\ n.vote = node[s].vote /\ n.log = node[s].log
    /\ n.saved \in {node[s].saved, Len(n.log)}
    /\ n.matched[s] <= n.saved
    /\ n.matched[s] = node[s].matched[s] \/ n.saved = Len(n.log)
    /\ \A p \in Server \ {s} :
          n.matched[p] = node[s].matched[p] \/ Told(s, p, n.term, n.matched[p])

\* A leader knows that, and commits nothing or all of its log.
LEMMA LeaderLegal ==
    ASSUME IInv, NEW s \in Server, NEW n \in Nodes, Knows(s, n),
           n.committed = node[s].committed \/ CommitsAll(s, n)
    PROVE  Legal(s, n, {}) /\ Saved(n) = n
<1> DEFINE o == node[s]
<1>1. /\ n.log \in Seq(Nat) /\ Len(n.log) \in Nat /\ DOMAIN n.log = 1..Len(n.log)
      /\ n.term \in Nat /\ n.committed \in Nat /\ n.saved \in Nat
      /\ n.matched \in [Server -> Nat]
  BY NodeFields
<1>2. /\ o \in Nodes /\ o.term \in Nat /\ o.saved \in Nat /\ o.committed \in Nat
      /\ Shape(s, o)
  BY NodeFields DEF IInv, TypeOK, ShapesOK
<1>3. Shape(s, n)
  BY <1>1, <1>2 DEF Shape, Knows, CommitsAll
<1>4. Forward(s, n) /\ Campaigns(s, n)
  <2>1. <<n.term, s>> \in elected
    BY DEF IInv, ElectedOK, Knows
  <2> QED
    BY <1>1, <1>2, <2>1 DEF Forward, Campaigns, Knows
<1>5. Leads(s, n)
  <2>1. n.matched[s] = node[s].matched[s] /\ n.matched[s] >= Len(n.log) => Acked(s, s)
    BY DEF Knows, Acked
  <2> QED
    BY <2>1 DEF Leads, Knows
<1>6. LogLegal(s, n)
  BY <1>1, <1>2, <1>5 DEF LogLegal, Knows, Shape
<1>7. CommitLegal(s, n)
  <2>1. CASE n.committed = o.committed
    <3>1. Sound(n.log, n.committed)
      BY <1>1, <1>2, <2>1, OwnCommitted DEF Knows
    <3> QED
      BY <1>2, <2>1, <3>1 DEF CommitLegal
  <2>2. CASE CommitsAll(s, n)
    BY <2>2 DEF CommitLegal
  <2> QED
    BY <2>1, <2>2
<1> QED
  BY <1>3, <1>4, <1>6, <1>7 DEF Legal, Knows, Saved

\* What a quorum has and is of the own term is the whole log.
LEMMA LeaderCommits ==
    ASSUME IInv, NEW s \in Server, NEW n \in Nodes, Knows(s, n), n.committed = node[s].committed,
           NEW u, u = MaybeCommit(n)
    PROVE  /\ u \in Nodes /\ Knows(s, u) /\ u.matched = n.matched /\ u.state = "Leader"
           /\ u.committed = node[s].committed \/ CommitsAll(s, u)
<1>1. /\ n.log \in Seq(Nat) /\ Len(n.log) \in Nat /\ DOMAIN n.log = 1..Len(n.log)
      /\ n.term \in Nat /\ n.committed \in Nat /\ n.saved \in Nat
      /\ n.matched \in [Server -> Nat]
  BY NodeFields
<1> DEFINE Have(i) == {p \in Server : n.matched[p] >= i}
           most == {i \in 1..LastIndex(n) : HasQuorum(Server, {}, Have(i))}
           mci == CHOOSE i \in most : \A j \in most : j <= i
<1>2. ASSUME LeaderCommit(n) # n.committed
      PROVE  /\ LeaderCommit(n) = Len(n.log)
             /\ \E Q \in SUBSET Server : IsQuorum(Q) /\ \A p \in Q : n.matched[p] >= Len(n.log)
  <2>1. most # {} /\ LeaderCommit(n) = mci /\ TermOf(n, mci) = n.term
    BY <1>2 DEF LeaderCommit
  <2>2. most \in SUBSET (1..Len(n.log))
    BY DEF LastIndex
  <2>3. \E i \in most : \A j \in most : j <= i
    <3> HIDE DEF most
    <3> QED
      BY <1>1, <2>1, <2>2, GreatestExists
  <2>4. mci \in most
    <3> HIDE DEF most
    <3> QED
      BY <2>3
  <2>5. mci \in 1..Len(n.log) /\ HasQuorum(Server, {}, Have(mci))
    BY <2>4 DEF LastIndex
  <2> HIDE DEF mci, most
  <2>6. mci = Len(n.log)
    <3>1. n.log[mci] = n.term
      BY <1>1, <2>1, <2>5 DEF TermOf
    <3>2. /\ n.log = node[s].log /\ n.log # <<>> /\ LastOf(n.log) = n.term
      BY DEF IInv, ShapesOK, Shape, Knows
    <3>3. n.log \in Logs
      BY <3>2 DEF Logs
    <3>4. Len(n.log) \in DOMAIN n.log /\ n.log[Len(n.log)] = n.term
      BY <1>1, <3>2, LastProperties
    <3> QED
      BY <1>1, <2>5, <3>1, <3>3, <3>4 DEF IInv, LogsOK, LogsMatch
  <2>7. \A p \in Have(mci) : n.matched[p] >= Len(n.log)
    BY <2>6
  <2>8. Have(mci) \in SUBSET Server /\ IsQuorum(Have(mci))
    BY <2>5 DEF IsQuorum
  <2> QED
    BY <2>1, <2>6, <2>7, <2>8
<1>3. LeaderCommit(n) \in Nat
  BY <1>1, <1>2
<1>4. /\ u \in Nodes /\ u.committed = LeaderCommit(n) /\ u.state = n.state /\ u.term = n.term
      /\ u.vote = n.vote /\ u.log = n.log /\ u.saved = n.saved /\ u.matched = n.matched
  BY <1>3 DEF MaybeCommit, Nodes
<1>5. Knows(s, u)
  BY <1>4 DEF Knows
<1> QED
  BY <1>2, <1>4, <1>5 DEF CommitsAll, Knows

\* A server that dies keeps what it has.
LEMMA DeadLegal ==
    ASSUME IInv, NEW s \in Server
    PROVE  Legal(s, [node[s] EXCEPT !.state = "Dead"], {})
<1> DEFINE n == [node[s] EXCEPT !.state = "Dead"]
<1>1. node[s] \in Nodes /\ Shape(s, node[s])
  BY DEF IInv, TypeOK, ShapesOK
<1>2. /\ n \in Nodes /\ n.state = "Dead" /\ n.term = node[s].term /\ n.vote = node[s].vote
      /\ n.log = node[s].log /\ n.saved = node[s].saved /\ n.committed = node[s].committed
  BY <1>1 DEF Nodes, States
<1> HIDE DEF n
<1>3. n.term \in Nat /\ n.committed \in Nat /\ n.saved \in Nat /\ node[s].term \in Nat
      /\ node[s].committed \in Nat /\ node[s].saved \in Nat
  BY <1>1, <1>2, NodeFields
<1>4. Shape(s, n)
  BY <1>1, <1>2 DEF Shape
<1>5. Sound(n.log, n.committed)
  BY <1>2, <1>3, OwnCommitted
<1> QED
  BY <1>2, <1>3, <1>4, <1>5 DEF Legal, Forward, Campaigns, LogLegal, CommitLegal, n

\* The invariant holds after the step of a server, when it is legal unless an
\* assertion failed.
LEMMA DoStep ==
    ASSUME IInv, NEW s \in Server, NEW n \in Nodes, NEW made, NEW out, NEW failed,
           Do(s, n, made, out, failed),
           failed = {} => Legal(s, Saved(n), {}),
           failed = {} => made \cup out \subseteq Messages,
           failed = {} => \A m \in made \cup out : MaySend(s, Saved(n), m)
    PROVE  IInv'
<1> DEFINE died == failed \cup Died(made, made \cup out)
<1>1. CASE died = {}
  <2>1. failed = {}
    BY <1>1
  <2>2. Legal(s, Saved(n), made \cup out)
    BY <2>1 DEF Legal
  <2>3. /\ Saved(n).state = n.state /\ Saved(n).term = n.term /\ Saved(n).log = n.log
        /\ Saved(n).committed = n.committed
    BY SavedFields
  <2>4. /\ node' = [node EXCEPT ![s] = Saved(n)]
        /\ msgs' = Sent(made \cup out)
        /\ elected' = IF n.state = "Leader" THEN elected \cup {<<n.term, s>>} ELSE elected
        /\ chosen' = IF n.state = "Leader" /\ n.committed > node[s].committed
                     THEN chosen \cup {[term |-> n.term,
                                        log |-> SubSeq(n.log, 1, n.committed)]}
                     ELSE chosen
        /\ scenario' = scenario
    BY <1>1 DEF Do
  <2>5. msgs' \subseteq msgs \cup (made \cup out)
    BY <2>4 DEF Sent
  <2>6. Become(s, Saved(n), made \cup out)
    BY <2>3, <2>4, <2>5 DEF Become
  <2> QED
    BY <2>2, <2>6, InvStep
<1>2. CASE died # {}
  <2> DEFINE d == [node[s] EXCEPT !.state = "Dead"]
  <2>1. /\ node' = [node EXCEPT ![s].state = "Dead"]
        /\ msgs' = msgs /\ elected' = elected /\ chosen' = chosen /\ scenario' = scenario
    BY <1>2 DEF Do
  <2>2. node' = [node EXCEPT ![s] = d]
    BY <2>1 DEF IInv, TypeOK
  <2>3. d.state = "Dead"
    BY DEF IInv, TypeOK, Nodes
  <2>4. Become(s, d, {})
    <3> HIDE DEF d
    <3> QED
      BY <2>1, <2>2, <2>3 DEF Become
  <2> QED
    BY <2>4, DeadLegal, InvStep
<1> QED
  BY <1>1, <1>2

\* A message that asks for nothing of what the invariant is about.
LEMMA MaySendOther ==
    ASSUME NEW s \in Server, NEW n, NEW m, m.from = s,
           \/ m.type \in {"HeartbeatResp", "TimeoutNow"}
           \/ m.type = "AppResp" /\ ~(m.index > 0)
           \/ m.type = "Heartbeat" /\ ~(m.commit > 0)
    PROVE  MaySend(s, n, m)
BY DEF MaySend, MayGrant, MayRequest, MayAppend, MayAck, MayBeat, MayTell, VoteTypes

\* A leader may send its log.
LEMMA AppendMessage ==
    ASSUME NEW s \in Server, NEW n \in Nodes, n.state = "Leader", NEW p \in Server \ {s},
           NEW m, m = AppendTo(s, n, p)
    PROVE  m \in Messages /\ MaySend(s, n, m)
<1>1. n.term \in Nat /\ n.log \in Seq(Nat) /\ n.committed \in Nat
  BY NodeFields
<1>2. /\ m.type = "App" /\ m.from = s /\ m.to = p /\ m.term = n.term
      /\ m.log = n.log /\ m.commit = n.committed /\ m \in Appends
  BY <1>1 DEF AppendTo, Appends
<1>3. m \in Messages
  BY <1>2 DEF Messages
<1> QED
  BY <1>2, <1>3 DEF MaySend, MayGrant, MayRequest, MayAppend, MayAck, MayBeat, MayTell, VoteTypes

\* The leadership may be handed over by anybody.
LEMMA TimeoutNowMessage ==
    ASSUME NEW s \in Server, NEW n \in Nodes, NEW p \in Server \ {s},
           NEW m, m = TimeoutNow(s, n, p)
    PROVE  m \in Messages /\ MaySend(s, n, m)
<1>1. n.term \in Nat
  BY NodeFields
<1>2. m.type = "TimeoutNow" /\ m.from = s /\ m.to = p /\ m \in Signals
  BY <1>1 DEF TimeoutNow, Signals
<1> QED
  BY <1>2, MaySendOther DEF Messages

\* A vote is asked for with the last term of the own log and what is committed.
LEMMA VoteRequestMessage ==
    ASSUME NEW s \in Server, NEW n \in Nodes, NEW type \in {"Vote", "PreVote"}, NEW t \in Nat,
           NEW transfer \in BOOLEAN, NEW v \in Nodes,
           v.log = n.log /\ v.committed = n.committed /\ v.term = n.term /\ v.state = n.state,
           n.committed <= Len(n.log),
           type = "Vote" => n.state = "Candidate" /\ t = n.term,
           NEW m \in VoteRequest(s, n, type, t, transfer)
    PROVE  m \in Messages /\ MaySend(s, v, m)
<1>1. PICK p \in Server \ {s} :
         m = [type |-> type, from |-> s, to |-> p, term |-> t, index |-> LastIndex(n),
              log_term |-> LastTerm(n), commit |-> n.committed,
              commit_term |-> TermOf(n, n.committed), transfer |-> transfer]
  BY DEF VoteRequest
<1>2. /\ n.committed \in Nat /\ LastIndex(n) \in Nat /\ LastTerm(n) \in Nat
      /\ TermOf(n, n.committed) \in Nat /\ LastTerm(n) = LastOf(n.log)
      /\ TermOf(n, n.committed) # 0 => TermOf(n, n.committed) = n.log[n.committed]
  BY NodeFields, TermOfFields DEF LastIndex
<1>3. /\ m.type = type /\ m.from = s /\ m.to = p /\ m.term = t /\ m.log_term = LastTerm(n)
      /\ m.commit = n.committed /\ m.commit_term = TermOf(n, n.committed)
      /\ m \in VoteRequests
  BY <1>1, <1>2 DEF VoteRequests
<1>4. m \in Messages
  BY <1>3 DEF Messages
<1>5. MayTell(s, v, m)
  BY <1>2, <1>3 DEF MayTell
<1> QED
  BY <1>2, <1>3, <1>4, <1>5 DEF MaySend, MayGrant, MayRequest, MayAppend, MayAck, MayBeat

\* An answer to a request for votes that is refused tells what is committed.
LEMMA RejectMessage ==
    ASSUME IInv, NEW s \in Server, NEW n \in Nodes, NEW m \in msgs, m.type \in {"Vote", "PreVote"},
           m.to = s, NEW v \in Nodes, n.committed <= Len(n.log),
           v.log = n.log /\ n.committed <= v.committed,
           NEW r, r = VoteReply(s, n, m, n.term, TRUE)
    PROVE  r \in Messages /\ MaySend(s, v, r)
<1>1. /\ n.committed \in Nat /\ TermOf(n, n.committed) \in Nat /\ n.term \in Nat
      /\ TermOf(n, n.committed) # 0 => TermOf(n, n.committed) = n.log[n.committed]
  BY NodeFields, TermOfFields
<1>2. m.from \in Server /\ m.from # s
  BY MessageFields DEF IInv, TypeOK
<1>3. /\ r.type = (IF m.type = "Vote" THEN "VoteResp" ELSE "PreVoteResp")
      /\ r.from = s /\ r.to = m.from /\ r.term = n.term /\ r.reject = TRUE
      /\ r.commit = n.committed /\ r.commit_term = TermOf(n, n.committed)
      /\ r \in VoteReplies
  BY <1>1, <1>2 DEF VoteReply, VoteReplies
<1>4. r \in Messages
  BY <1>2, <1>3 DEF Messages
<1>5. MayTell(s, v, r)
  BY <1>1, <1>3 DEF MayTell
<1> QED
  BY <1>3, <1>4, <1>5 DEF MaySend, MayGrant, MayRequest, MayAppend, MayAck, MayBeat

\* An answer to an append or a heartbeat of an old term.
LEMMA RefuseMessage ==
    ASSUME NEW s \in Server, NEW n \in Nodes, NEW p \in Server \ {s}, NEW v,
           NEW r, r = AppendReply(s, n, p, 0)
    PROVE  r \in Messages /\ MaySend(s, v, r)
<1>1. n.term \in Nat
  BY NodeFields
<1>2. r.type = "AppResp" /\ r.from = s /\ r.to = p /\ r.index = 0 /\ r \in AppendReplies
  BY <1>1 DEF AppendReply, AppendReplies
<1> QED
  BY <1>2, MaySendOther DEF Messages

\* Is n server s, but for its timer, its leader, and of whom it heard?
Same(s, n) ==
    LET o == node[s]
    IN  /\ n.state = o.state /\ n.term = o.term /\ n.vote = o.vote /\ n.votes = o.votes
        /\ n.log = o.log /\ n.saved = o.saved /\ n.committed = o.committed
        /\ n.matched = o.matched

\* A leader that is the same knows what it knew.
LEMMA SameKnows ==
    ASSUME IInv, NEW s \in Server, NEW n \in Nodes, Same(s, n), n.state = "Leader"
    PROVE  Knows(s, n) /\ Shape(s, node[s])
<1>1. Shape(s, node[s])
  BY DEF IInv, ShapesOK
<1> QED
  BY <1>1 DEF Knows, Same, Shape, Acked

\* To be the same is legal.
LEMMA SameLegal ==
    ASSUME IInv, NEW s \in Server, NEW n \in Nodes, Same(s, n), Alive(s)
    PROVE  Legal(s, Saved(n), {})
<1>1. /\ node[s] \in Nodes /\ Shape(s, node[s])
      /\ node[s].term \in Nat /\ node[s].committed \in Nat /\ node[s].saved \in Nat
      /\ n.state \in States
  BY NodeFields DEF IInv, TypeOK, ShapesOK
<1>2. Sound(n.log, n.committed)
  BY <1>1, OwnCommitted DEF Same
<1>3. CASE n.state \in {"Follower", "PreCandidate"}
  <2>1. Forward(s, n)
    BY <1>1 DEF Forward, Same
  <2> QED
    BY <1>2, <1>3, <2>1, FollowerLegal DEF Same
<1>4. CASE n.state = "Candidate"
  <2>1. n.vote = s
    BY <1>1, <1>4 DEF Same, Shape
  <2>2. \A p \in Server : n.votes[p] = "yes" => Granted(s, p, n.term)
    BY <1>4 DEF Same, Granted
  <2>3. node[s].committed <= n.committed
    BY <1>1 DEF Same
  <2>4. n.log = node[s].log /\ n.term = node[s].term /\ node[s].state = "Candidate"
    BY <1>4 DEF Same
  <2> QED
    BY <1>2, <1>4, <2>1, <2>2, <2>3, <2>4, CandidateLegal
<1>5. CASE n.state = "Leader"
  BY <1>5, SameKnows, LeaderLegal DEF Same
<1> QED
  BY <1>1, <1>3, <1>4, <1>5 DEF States, Same, Alive

\* A server that finds itself in an old term steps down.
LEMMA DownLegal ==
    ASSUME IInv, NEW s \in Server, NEW m \in msgs, m.term >= node[s].term,
           NEW n, n = AtTerm(node[s], m), n # node[s]
    PROVE  n \in Nodes /\ Legal(s, Saved(n), {})
<1>1. node[s] \in Nodes /\ m \in Messages
  BY DEF IInv, TypeOK
<1>2. /\ n \in Nodes /\ n.log = node[s].log /\ n.committed = node[s].committed
      /\ n.state = "Follower" /\ node[s].term < n.term
  BY <1>1, AtTermFields
<1>3. n.term \in Nat /\ node[s].term \in Nat
  BY <1>1, <1>2, NodeFields
<1>4. Forward(s, n)
  BY <1>2, <1>3 DEF Forward
<1>5. Sound(n.log, n.committed)
  BY <1>2, <1>3, OwnCommitted
<1> QED
  BY <1>2, <1>4, <1>5, FollowerLegal

-----------------------------------------------------------------------------
\* The steps that leave logs and votes alone

\* The lease of a leader expires.
LEMMA LeaseExpiresStep ==
    ASSUME IInv, NEW s \in Server, LeaseExpires(s)
    PROVE  IInv'
<1> DEFINE n == [node[s] EXCEPT !.recent = FALSE]
<1>1. node[s] \in Nodes
  BY DEF IInv, TypeOK
<1>2. n \in Nodes /\ Same(s, n)
  BY <1>1 DEF Nodes, Same
<1>3. Do(s, n, {}, {}, {}) /\ Alive(s)
  BY DEF LeaseExpires
<1> HIDE DEF n
<1> QED
  BY <1>2, <1>3, SameLegal, DoStep

\* Answers to messages of an old term.
LEMMA OldTermStep ==
    ASSUME IInv, NEW s \in Server, NEW m \in msgs, OldTerm(s, m)
    PROVE  IInv'
<1> DEFINE n == node[s]
           o == [n EXCEPT !.committed = 0]
<1>1. m \in Messages /\ m.to = s /\ m.from \in Server \ {s} /\ n \in Nodes /\ Same(s, n)
  BY MessageFields DEF IInv, TypeOK, Same, OldTerm
<1>2. Legal(s, Saved(n), {})
  BY <1>1, SameLegal DEF OldTerm
<1>3. /\ Saved(n) \in Nodes /\ Saved(n).log = n.log /\ Saved(n).term = n.term
      /\ Saved(n).committed = n.committed
  BY <1>1, SavedFields
<1>4. /\ o \in Nodes /\ o.committed = 0 /\ o.log = n.log /\ o.term = n.term
      /\ n.committed \in Nat /\ Len(n.log) \in Nat
  BY <1>1, NodeFields DEF Nodes
<1>5. \/ Do(s, n, {AppendReply(s, n, m.from, 0)}, {}, {})
      \/ m.type = "PreVote" /\ Do(s, n, {VoteReply(s, o, m, n.term, TRUE)}, {}, {})
  BY DEF OldTerm
<1> HIDE DEF n, o
<1>6. CASE Do(s, n, {AppendReply(s, n, m.from, 0)}, {}, {})
  <2>1. /\ AppendReply(s, n, m.from, 0) \in Messages
        /\ MaySend(s, Saved(n), AppendReply(s, n, m.from, 0))
    BY <1>1, RefuseMessage
  <2> QED
    BY <1>1, <1>2, <1>6, <2>1, DoStep
<1>7. CASE m.type = "PreVote" /\ Do(s, n, {VoteReply(s, o, m, n.term, TRUE)}, {}, {})
  <2>1. PICK r : r = VoteReply(s, o, m, n.term, TRUE)
    OBVIOUS
  <2>2. o.committed <= Len(o.log) /\ o.committed <= Saved(n).committed
    BY <1>3, <1>4
  <2>3. r = VoteReply(s, o, m, o.term, TRUE)
    BY <1>4, <2>1
  <2>4. r \in Messages /\ MaySend(s, Saved(n), r)
    BY <1>1, <1>3, <1>4, <1>7, <2>2, <2>3, RejectMessage
  <2>5. Do(s, n, {r}, {}, {})
    BY <1>7, <2>1
  <2> QED
    BY <1>1, <1>2, <2>4, <2>5, DoStep
<1> QED
  BY <1>5, <1>6, <1>7

\* The leader sends a heartbeat.
LEMMA BeatStep ==
    ASSUME IInv, NEW s \in Server, Beat(s)
    PROVE  IInv'
<1> DEFINE n == node[s]
<1>1. n \in Nodes /\ Same(s, n) /\ n.state = "Leader" /\ Alive(s)
      /\ Do(s, n, {}, BcastHeartbeat(s, n), {})
  BY DEF IInv, TypeOK, Same, Beat, Alive
<1>2. Knows(s, n) /\ Saved(n) = n /\ Legal(s, n, {})
  BY <1>1, SameKnows, LeaderLegal
<1>3. n.matched \in [Server -> Nat] /\ n.committed \in Nat /\ n.term \in Nat
  BY <1>1, NodeFields
<1>4. ASSUME NEW m \in BcastHeartbeat(s, n)
      PROVE  m \in Messages /\ MaySend(s, n, m)
  <2>1. PICK p \in Server \ {s} :
           m = [type |-> "Heartbeat", from |-> s, to |-> p, term |-> n.term,
                commit |-> Smaller(n.matched[p], n.committed)]
    BY <1>4 DEF BcastHeartbeat
  <2>2. Smaller(n.matched[p], n.committed) \in Nat
    BY <1>3 DEF Smaller
  <2>3. /\ m.type = "Heartbeat" /\ m.from = s /\ m.to = p /\ m.term = n.term
        /\ m.commit = Smaller(n.matched[p], n.committed) /\ m \in Heartbeats
    BY <1>3, <2>1, <2>2 DEF Heartbeats
  <2>4. m \in Messages
    BY <2>3 DEF Messages
  <2>5. m.commit <= n.matched[p] /\ m.commit <= n.committed
    BY <1>3, <2>3 DEF Smaller
  <2>6. MayBeat(s, n, m)
    BY <1>1, <2>3, <2>5 DEF MayBeat
  <2> QED
    BY <2>3, <2>4, <2>6 DEF MaySend, MayGrant, MayRequest, MayAppend, MayAck, MayTell, VoteTypes
<1> QED
  BY <1>1, <1>2, <1>4, DoStep

\* A leader that lost its quorum steps down, another forgets of whom it heard.
LEMMA CheckQuorumStep ==
    ASSUME IInv, NEW s \in Server, CheckQuorum(s)
    PROVE  IInv'
<1> DEFINE n == node[s]
           f == BecomeFollower(n, n.term, None)
           l == [n EXCEPT !.active = IF "check_quorum" \in config THEN {} ELSE @,
                          !.lead_transferee = None]
<1>1. /\ n \in Nodes /\ n.term \in Nat /\ n.committed \in Nat /\ n.state = "Leader"
      /\ Alive(s) /\ None \in Peer
  BY NodeFields DEF IInv, TypeOK, CheckQuorum, Alive, Peer
<1>2. CASE Do(s, f, {}, {}, {})
  <2>1. /\ f \in Nodes /\ f.state = "Follower" /\ f.term = n.term /\ f.vote = n.vote
        /\ f.log = n.log /\ f.committed = n.committed
    BY <1>1, FollowerFields
  <2> HIDE DEF f
  <2>2. Forward(s, f) /\ Sound(f.log, f.committed)
    BY <1>1, <2>1, OwnCommitted DEF Forward
  <2> QED
    BY <1>2, <2>1, <2>2, FollowerLegal, DoStep
<1>3. CASE Do(s, l, {}, {}, {})
  <2>1. l \in Nodes /\ Same(s, l)
    BY <1>1 DEF Nodes, Same, Peer
  <2> HIDE DEF l
  <2> QED
    BY <1>1, <1>3, <2>1, SameLegal, DoStep
<1> QED
  BY <1>2, <1>3 DEF CheckQuorum

\* A transfer of the leadership is asked for.
LEMMA TransferLeaderStep ==
    ASSUME IInv, NEW s \in Server, NEW p \in Server, TransferLeader(s, p)
    PROVE  IInv'
<1> DEFINE n == [node[s] EXCEPT !.lead_transferee = IF p = s THEN None ELSE p]
<1>1. node[s] \in Nodes /\ node[s].state = "Leader" /\ Alive(s)
  BY DEF IInv, TypeOK, TransferLeader, Alive
<1>2. n \in Nodes /\ Same(s, n)
  BY <1>1 DEF Nodes, Same, Peer
<1>3. \/ p = s /\ Do(s, n, {}, {}, {})
      \/ p # s /\ Do(s, n, {TimeoutNow(s, n, p)}, {}, {})
      \/ p # s /\ Do(s, n, {}, {AppendTo(s, n, p)}, {})
  BY DEF TransferLeader
<1> HIDE DEF n
<1>4. n.state = "Leader" /\ Saved(n) = n /\ Legal(s, n, {})
  BY <1>1, <1>2, SameKnows, LeaderLegal DEF Same
<1>5. p # s => /\ TimeoutNow(s, n, p) \in Messages /\ MaySend(s, n, TimeoutNow(s, n, p))
               /\ AppendTo(s, n, p) \in Messages /\ MaySend(s, n, AppendTo(s, n, p))
  BY <1>2, <1>4, TimeoutNowMessage, AppendMessage
<1> QED
  BY <1>2, <1>3, <1>4, <1>5, DoStep

\* The answer to a heartbeat.
LEMMA HeartbeatRespStep ==
    ASSUME IInv, NEW m \in msgs, ReceiveHeartbeatResp(m.to, m)
    PROVE  IInv'
<1> DEFINE s == m.to
           n == AtTerm(node[s], m)
           a == [n EXCEPT !.active = Heard(n, m.from)]
           out == IF n.matched[m.from] < LastIndex(n) THEN {AppendTo(s, n, m.from)} ELSE {}
<1>1. /\ m \in Messages /\ s \in Server /\ m.from \in Server \ {s} /\ node[s] \in Nodes
      /\ m.term >= node[s].term /\ Alive(s)
  BY MessageFields DEF IInv, TypeOK, ReceiveHeartbeatResp, Receives
<1>2. CASE n # node[s] /\ Do(s, n, {}, {}, {})
  BY <1>1, <1>2, DownLegal, DoStep
<1>3. CASE n.state = "Leader" /\ Do(s, a, {}, out, {})
  <2>1. n = node[s]
    BY <1>1, <1>3, AtTermFields
  <2>2. a \in Nodes /\ Same(s, a) /\ a.state = "Leader" /\ AppendTo(s, n, m.from) = AppendTo(s, a, m.from)
    BY <1>1, <1>3, <2>1 DEF Nodes, Same, Heard, AppendTo
  <2> HIDE DEF n, a
  <2>3. Saved(a) = a /\ Legal(s, a, {})
    BY <1>1, <2>2, SameKnows, LeaderLegal DEF Same
  <2>4. \A x \in out : x \in Messages /\ MaySend(s, a, x)
    BY <1>1, <2>2, AppendMessage
  <2> HIDE DEF out
  <2> QED
    BY <1>1, <1>3, <2>2, <2>3, <2>4, DoStep
<1> QED
  BY <1>2, <1>3 DEF ReceiveHeartbeatResp

-----------------------------------------------------------------------------
\* The steps that commit

\* A leader that commits tells everybody.
LEMMA CommitLegalSend ==
    ASSUME IInv, NEW s \in Server, NEW n \in Nodes, Knows(s, n), n.committed = node[s].committed,
           NEW u, u = MaybeCommit(n)
    PROVE  /\ u \in Nodes /\ u.state = "Leader" /\ u.matched = n.matched
           /\ Legal(s, Saved(u), {}) /\ Saved(u) = u
           /\ \A m \in BcastAppend(s, u) : m \in Messages /\ MaySend(s, u, m)
<1>1. /\ u \in Nodes /\ Knows(s, u) /\ u.matched = n.matched /\ u.state = "Leader"
      /\ u.committed = node[s].committed \/ CommitsAll(s, u)
  BY LeaderCommits
<1>2. Legal(s, u, {}) /\ Saved(u) = u
  BY <1>1, LeaderLegal
<1>3. \A m \in BcastAppend(s, u) : m \in Messages /\ MaySend(s, u, m)
  BY <1>1, AppendMessage DEF BcastAppend
<1> QED
  BY <1>1, <1>2, <1>3

\* A leader has written its log.
LEMMA PersistEntriesStep ==
    ASSUME IInv, NEW s \in Server, PersistEntries(s)
    PROVE  IInv'
<1> DEFINE o == node[s]
           n == [o EXCEPT !.saved = LastIndex(o), !.matched[s] = LastIndex(o)]
           p == MaybeCommit(n)
           out == IF p.committed > o.committed THEN BcastAppend(s, p) ELSE {}
<1>1. /\ o \in Nodes /\ o.state = "Leader" /\ Shape(s, o)
      /\ Len(o.log) \in Nat /\ o.matched \in [Server -> Nat]
  BY NodeFields DEF IInv, TypeOK, ShapesOK, PersistEntries
<1>2. /\ n \in Nodes /\ n.state = "Leader" /\ n.term = o.term /\ n.vote = o.vote /\ n.log = o.log
      /\ n.saved = Len(o.log) /\ n.committed = o.committed
      /\ n.matched = [o.matched EXCEPT ![s] = Len(o.log)]
  BY <1>1 DEF Nodes, LastIndex
<1>3. Do(s, p, {}, out, {})
  BY DEF PersistEntries
<1> HIDE DEF n
<1>4. Knows(s, n)
  <2>1. n.matched[s] = Len(o.log) /\ \A q \in Server \ {s} : n.matched[q] = o.matched[q]
    BY <1>1, <1>2
  <2>2. n.matched[s] <= n.saved
    BY <1>1, <1>2, <2>1
  <2> QED
    BY <1>1, <1>2, <2>1, <2>2 DEF Knows
<1>5. /\ p \in Nodes /\ Legal(s, Saved(p), {}) /\ Saved(p) = p
      /\ \A m \in BcastAppend(s, p) : m \in Messages /\ MaySend(s, p, m)
  BY <1>2, <1>4, CommitLegalSend
<1>6. \A m \in out : m \in Messages /\ MaySend(s, Saved(p), m)
  BY <1>5
<1> HIDE DEF p, out
<1> QED
  BY <1>3, <1>5, <1>6, DoStep

\* The answer to an append.
LEMMA AppendRespStep ==
    ASSUME IInv, NEW s \in Server, NEW m \in msgs, ReceiveAppendResp(s, m)
    PROVE  IInv'
<1> DEFINE o == node[s]
           n == AtTerm(o, m)
           a == [n EXCEPT !.active = Heard(n, m.from),
                          !.matched[m.from] = IF m.index > @ THEN m.index ELSE @]
           u == MaybeCommit(a)
           go == m.index > n.matched[m.from] /\ n.lead_transferee = m.from
                 /\ u.matched[m.from] = LastIndex(u)
           made == IF go THEN {TimeoutNow(s, u, m.from)} ELSE {}
           out == IF u.committed > n.committed THEN BcastAppend(s, u) ELSE {}
<1>1. /\ m \in Messages /\ m.to = s /\ m.from \in Server \ {s} /\ o \in Nodes
      /\ m.term >= o.term /\ m.type = "AppResp" /\ m.index \in Nat
  BY MessageFields DEF IInv, TypeOK, ReceiveAppendResp, Receives, AppendReplies
<1>2. CASE n # o /\ Do(s, n, {}, {}, {})
  BY <1>1, <1>2, DownLegal, DoStep
<1>3. CASE n.state = "Leader" /\ Do(s, u, made, out, {})
  <2>1. n = o /\ m.term = o.term
    BY <1>1, <1>3, AtTermFields, MessageFields, NodeFields
  <2>2. /\ o.state = "Leader" /\ Shape(s, o) /\ Len(o.log) \in Nat
        /\ o.matched \in [Server -> Nat] /\ o.saved \in Nat
    BY <1>1, <1>3, <2>1, NodeFields DEF IInv, ShapesOK
  <2>3. /\ a \in Nodes /\ a.state = "Leader" /\ a.term = o.term /\ a.vote = o.vote
        /\ a.log = o.log /\ a.saved = o.saved /\ a.committed = o.committed
        /\ \A p \in Server \ {m.from} : a.matched[p] = o.matched[p]
        /\ a.matched[m.from] \in {m.index, o.matched[m.from]}
    BY <1>1, <2>1, <2>2, ZenonT(30) DEF Nodes, Heard
  <2>4. a.matched[m.from] = o.matched[m.from] \/ (m.index > 0 /\ a.matched[m.from] = m.index)
    <3>1. a.matched[m.from] = IF m.index > o.matched[m.from] THEN m.index
                              ELSE o.matched[m.from]
      BY <1>1, <2>1, <2>2 DEF Nodes
    <3> QED
      BY <1>1, <2>2, <3>1
  <2>5. Knows(s, a)
    <3> HIDE DEF a
    <3>1. a.matched[s] = o.matched[s]
      BY <1>1, <2>3
    <3>2. o.matched[s] <= o.saved
      BY <2>2 DEF Shape
    <3>3. a.matched[s] <= a.saved
      BY <2>3, <3>1, <3>2
    <3>4. ASSUME NEW p \in Server \ {s}
          PROVE  a.matched[p] = o.matched[p] \/ Told(s, p, a.term, a.matched[p])
      <4>1. CASE p = m.from /\ m.index > 0 /\ a.matched[p] = m.index
        BY <1>1, <2>1, <2>3, <4>1 DEF Told
      <4> QED
        BY <2>3, <2>4, <4>1
    <3> QED
      BY <2>2, <2>3, <3>1, <3>3, <3>4 DEF Knows
  <2>6. /\ u \in Nodes /\ u.state = "Leader" /\ Legal(s, Saved(u), {}) /\ Saved(u) = u
        /\ \A x \in BcastAppend(s, u) : x \in Messages /\ MaySend(s, u, x)
    <3> HIDE DEF a
    <3> QED
      BY <2>3, <2>5, CommitLegalSend
  <2>7. TimeoutNow(s, u, m.from) \in Messages /\ MaySend(s, u, TimeoutNow(s, u, m.from))
    BY <1>1, <2>6, TimeoutNowMessage
  <2> HIDE DEF u, go
  <2>8. \A x \in made \cup out : x \in Messages /\ MaySend(s, Saved(u), x)
    BY <2>6, <2>7
  <2> HIDE DEF made, out
  <2> QED
    BY <1>3, <2>6, <2>8, DoStep
<1> QED
  BY <1>2, <1>3 DEF ReceiveAppendResp

-----------------------------------------------------------------------------
\* Appends and heartbeats

\* Whoever follows the sender of a message is in its term, and keeps log and vote.
LEMMA FollowFields ==
    ASSUME NEW o \in Nodes, NEW m \in Messages, m.term >= o.term,
           m.type \in {"App", "Heartbeat"}, o.state # "Dead",
           NEW n, n = Follow(AtTerm(o, m), m)
    PROVE  /\ n \in Nodes /\ n.state = "Follower" /\ n.term = m.term
           /\ n.log = o.log /\ n.saved = o.saved /\ n.committed = o.committed
           /\ n.term = o.term => n.vote = o.vote
<1>1. m.term \in Nat /\ m.from \in Peer
  BY MessageFields DEF Peer
<1>2. PICK a : a = AtTerm(o, m)
  OBVIOUS
<1>3. /\ a \in Nodes /\ a.log = o.log /\ a.saved = o.saved /\ a.committed = o.committed
      /\ a.term = m.term
      /\ a.term = o.term => a.vote = o.vote
  BY <1>2, AtTermFields, NodeFields
<1>4. n = Follow(a, m)
  BY <1>2
<1>5. CASE a.state = "Follower"
  <2>1. n = [a EXCEPT !.recent = TRUE, !.leader_id = m.from]
    BY <1>4, <1>5 DEF Follow
  <2> QED
    BY <1>1, <1>3, <1>5, <2>1 DEF Nodes
<1>6. CASE a.state # "Follower"
  <2>1. n = BecomeFollower(a, m.term, m.from)
    BY <1>4, <1>6 DEF Follow
  <2>2. /\ n \in Nodes /\ n.state = "Follower" /\ n.term = m.term
        /\ n.vote = (IF a.term = m.term THEN a.vote ELSE None)
        /\ n.log = a.log /\ n.saved = a.saved /\ n.committed = a.committed
    BY <1>1, <1>3, <2>1, FollowerFields
  <2> QED
    BY <1>3, <2>2
<1> QED
  BY <1>5, <1>6

\* Two logs have the same beginning when they have the same entries there.
LEMMA SameBeginning ==
    ASSUME NEW a \in Seq(Nat), NEW b \in Seq(Nat), NEW k \in Nat, k <= Len(a), k <= Len(b)
    PROVE  SubSeq(a, 1, k) = SubSeq(b, 1, k) <=> \A i \in 1..k : a[i] = b[i]
<1> DEFINE f == SubSeq(a, 1, k)
           g == SubSeq(b, 1, k)
<1>1. f \in Seq(Nat) /\ Len(f) = k /\ \A i \in 1..k : f[i] = a[i]
  OBVIOUS
<1>2. g \in Seq(Nat) /\ Len(g) = k /\ \A i \in 1..k : g[i] = b[i]
  OBVIOUS
<1> HIDE DEF f, g
<1>3. ASSUME \A i \in 1..k : a[i] = b[i] PROVE f = g
  BY <1>1, <1>2, <1>3, SeqEqual
<1> QED
  BY <1>1, <1>2, <1>3 DEF f, g

\* Whoever has an entry of the term it is in has it last.
LEMMA TopEntry ==
    ASSUME TypeOK, LogsOK, NEW a \in Logs, NEW i \in DOMAIN a,
           \A j \in DOMAIN a : a[j] <= a[i]
    PROVE  LastOf(a) = a[i]
<1>1. /\ a \in Seq(Nat) /\ DOMAIN a = 1..Len(a) /\ Len(a) \in Nat
      /\ \A j \in 1..Len(a) : a[j] \in Nat
  BY LogTypes, LastProperties
<1>2. Len(a) \in 1..Len(a) /\ a # <<>>
  BY <1>1
<1>3. LastOf(a) = a[Len(a)]
  BY <1>1, <1>2, LastProperties
<1>4. i = Len(a)
  <2>1. SUFFICES ASSUME i < Len(a) PROVE FALSE
    BY <1>1
  <2>2. a[i] < a[Len(a)]
    BY <1>1, <1>2, <2>1 DEF LogsOK
  <2> QED
    BY <1>1, <1>2, <2>2
<1> QED
  BY <1>3, <1>4

\* Who has committed as much as a leader has has its last entry, or the leader can commit
\* nothing: a later one committed something else, and a quorum has left the term of this one
\* without its log.
LEMMA Unmatched ==
    ASSUME IInv, Kept, NEW s \in Server, NEW q \in Server, node[q].state = "Leader",
           node[q].term >= node[s].term, node[s].committed >= Len(node[q].log)
    PROVE  Beaten(q) \/ LastOf(node[s].log) = node[q].term
<1> DEFINE o == node[s]
           l == node[q].log
           t == node[q].term
           k == o.committed
<1>1. /\ l \in Seq(Nat) /\ Len(l) \in Nat /\ DOMAIN l = 1..Len(l) /\ t \in Nat
      /\ l \in Logs /\ l # <<>> /\ LastOf(l) = t
  BY NodeFields DEF IInv, TypeOK, ShapesOK, Shape, Logs
<1>2. /\ o.log \in Seq(Nat) /\ k \in Nat /\ o.term \in Nat /\ k <= Len(o.log)
      /\ Len(o.log) \in Nat /\ DOMAIN o.log = 1..Len(o.log) /\ o.log \in Logs
      /\ \A i \in DOMAIN o.log : o.log[i] \in Nat /\ o.log[i] <= o.term
  BY NodeFields DEF IInv, TypeOK, ShapesOK, Shape, Logs
<1>3. Len(l) > 0 /\ l[Len(l)] = t /\ Len(l) \in DOMAIN l
  <2>1. Len(l) > 0 /\ l[Len(l)] = t
    BY <1>1, LastProperties
  <2> QED
    BY <1>1, <2>1
<1>4. k >= Len(l) /\ o.term <= t
  OBVIOUS
<1>5. TypeOK /\ LogsOK /\ SafeOK /\ ChosenOK /\ CommitsOK
  BY DEF IInv
<1>6. PICK c \in chosen : /\ k <= Len(c.log) /\ k <= Len(o.log)
                          /\ \A i \in 1..k : c.log[i] = o.log[i]
  <2>1. Committed(o.log, k)
    BY <1>5 DEF CommitsOK
  <2>2. k > 0
    BY <1>1, <1>2, <1>3, <1>4
  <2> QED
    BY <2>1, <2>2 DEF Committed
<1>7. /\ c.log \in Seq(Nat) /\ c.log \in Logs /\ c.term \in Nat
      /\ c.log # <<>> /\ LastOf(c.log) = c.term
      /\ \A a \in Logs : \A i \in DOMAIN a : a[i] >= c.term => Holds(c.log, a, i)
  BY <1>5, LogTypes DEF ChosenOK
<1>8. /\ Len(c.log) \in Nat /\ DOMAIN c.log = 1..Len(c.log) /\ c.log[Len(c.log)] = c.term
      /\ Len(c.log) \in 1..Len(c.log)
  <2>1. Len(c.log) > 0 /\ c.log[Len(c.log)] = c.term /\ DOMAIN c.log = 1..Len(c.log)
        /\ Len(c.log) \in Nat
    BY <1>7, LastProperties
  <2> QED
    BY <2>1
<1>9. Beaten(q) \/ Holds(l, c.log, Len(c.log)) \/ Holds(c.log, l, Len(l))
  <2>1. CASE c.term <= t
    BY <1>1, <1>3, <1>7, <2>1
  <2>2. CASE c.term > t
    BY <1>5, <1>7, <1>8, <2>2 DEF SafeOK
  <2> QED
    BY <1>1, <1>7, <2>1, <2>2
<1>10. CASE Holds(l, c.log, Len(c.log)) \/ Holds(c.log, l, Len(l))
  <2> HIDE DEF o, l, t, k
  <2>1. c.log[Len(l)] = t
    <3>1. CASE Holds(l, c.log, Len(c.log))
      BY <1>3, <3>1 DEF Holds
    <3>2. CASE Holds(c.log, l, Len(l))
      <4>1. Len(c.log) = Len(l)
        BY <1>1, <1>2, <1>4, <1>6, <1>8, <3>2 DEF Holds
      <4>2. Len(l) \in DOMAIN c.log
        BY <1>8, <4>1
      <4> QED
        BY <1>3, <3>2, <4>2 DEF Holds
    <3> QED
      BY <1>10, <3>1, <3>2
  <2>2. Len(l) \in 1..k
    BY <1>1, <1>2, <1>3, <1>4
  <2>3. Len(l) \in DOMAIN o.log /\ o.log[Len(l)] = t
    <3>1. c.log[Len(l)] = o.log[Len(l)]
      BY <1>6, <2>2
    <3>2. Len(l) \in 1..Len(o.log)
      BY <1>2, <2>2
    <3> QED
      BY <1>2, <2>1, <3>1, <3>2
  <2>4. \A j \in DOMAIN o.log : o.log[j] <= o.log[Len(l)]
    <3>1. t \in Nat
      BY <1>1
    <3>2. ASSUME NEW j \in DOMAIN o.log
          PROVE  o.log[j] <= t
      <4>1. o.log[j] \in Nat /\ o.log[j] <= o.term /\ o.term \in Nat
        BY <1>2, <3>2
      <4> QED
        BY <1>4, <3>1, <4>1
    <3> QED
      BY <2>3, <3>2
  <2>5. LastOf(o.log) = t
    BY <1>2, <1>5, <2>3, <2>4, TopEntry
  <2> QED
    BY <2>5 DEF o, t
<1> QED
  BY <1>9, <1>10

\* The comparison of beginnings, entry by entry.
LEMMA PrefixAgrees ==
    ASSUME NEW a \in Seq(Nat), NEW b \in Seq(Nat)
    PROVE  IsPrefixOf(a, b) <=> Agree(a, b, Len(a))
<1>1. Len(a) \in Nat /\ Len(b) \in Nat
  OBVIOUS
<1>2. SubSeq(a, 1, Len(a)) = a
  <2>1. /\ SubSeq(a, 1, Len(a)) \in Seq(Nat) /\ Len(SubSeq(a, 1, Len(a))) = Len(a)
        /\ \A i \in 1..Len(a) : SubSeq(a, 1, Len(a))[i] = a[i]
    BY <1>1, Truncated
  <2> QED
    BY <2>1, SeqEqual
<1>3. Len(a) <= Len(b) =>
         (SubSeq(a, 1, Len(a)) = SubSeq(b, 1, Len(a)) <=> \A i \in 1..Len(a) : a[i] = b[i])
  BY <1>1, SameBeginning
<1> QED
  BY <1>1, <1>2, <1>3 DEF IsPrefixOf, Agree

\* The log that an append leaves begins with its entries.
LEMMA TakenFields ==
    ASSUME NEW n \in Nodes, NEW e \in Seq(Nat), NEW l \in Taken(n, e)
    PROVE  /\ l \in Seq(Nat) /\ Len(e) <= Len(l) /\ \A i \in 1..Len(e) : l[i] = e[i]
           /\ l = n.log \/ l = e
           /\ Kept /\ l # n.log => ~Agree(e, n.log, Len(e))
<1>1. n.log \in Seq(Nat) /\ Len(e) \in Nat
  BY NodeFields
<1>2. IsPrefixOf(e, n.log) <=> Agree(e, n.log, Len(e))
  BY <1>1, PrefixAgrees
<1> QED
  BY <1>1, <1>2 DEF Taken, Kept, Agree

\* A server takes over entries of an append, or tells what it has committed.
LEMMA AppendStep ==
    ASSUME IInv, NEW s \in Server, NEW m \in msgs, ReceiveAppend(s, m)
    PROVE  IInv'
<1> DEFINE o == node[s]
           n == Follow(AtTerm(o, m), m)
           g == node[m.from]
           q == AppendReply(s, n, m.from, n.committed)
<1>1. /\ m \in Messages /\ m.to = s /\ m.from \in Server \ {s} /\ o \in Nodes
      /\ m.term >= o.term /\ m.type = "App" /\ o.state # "Dead" /\ m.term \in Nat
      /\ m.log \in Seq(Nat) /\ m.commit \in Nat /\ o.term \in Nat
      /\ o.committed \in Nat /\ o.committed <= Len(o.log)
  BY MessageFields, NodeFields
  DEF IInv, TypeOK, ShapesOK, Shape, ReceiveAppend, Receives, Appends, Alive
<1>2. PICK k \in DOMAIN m.log :
         LET entries == SubSeq(m.log, 1, k)
             commit  == Larger(n.committed, Smaller(m.commit, k))
         IN  IF HasCommitted(entries, n)
             THEN \E l \in Taken(n, entries) :
                     Do(s, [n EXCEPT !.log = l, !.committed = commit], {},
                        {AppendReply(s, n, m.from, k)}, {})
             ELSE Do(s, n, {}, {AppendReply(s, n, m.from, n.committed)}, {})
  BY DEF ReceiveAppend
<1>3. /\ n \in Nodes /\ n.state = "Follower" /\ n.term = m.term
      /\ n.log = o.log /\ n.saved = o.saved /\ n.committed = o.committed
      /\ n.term = o.term => n.vote = o.vote
  BY <1>1, FollowFields
<1> HIDE DEF n
<1> DEFINE e == SubSeq(m.log, 1, k)
           commit == Larger(n.committed, Smaller(m.commit, k))
           r == AppendReply(s, n, m.from, k)
<1>4. n.committed \in Nat /\ n.log \in Seq(Nat) /\ Len(n.log) \in Nat /\ n.term \in Nat
  BY <1>3, NodeFields
<1>5. /\ k \in Nat /\ k > 0 /\ k <= Len(m.log) /\ Len(m.log) \in Nat
      /\ e \in Seq(Nat) /\ Len(e) = k /\ \A i \in 1..k : e[i] = m.log[i]
  <2>1. DOMAIN m.log = 1..Len(m.log) /\ Len(m.log) \in Nat
    BY <1>1, LastProperties
  <2>2. k \in 0..Len(m.log) /\ k > 0
    BY <2>1
  <2> QED
    BY <1>1, <2>1, <2>2, Truncated
<1>6. /\ Sound(n.log, n.committed) /\ n.committed <= Len(n.log)
      /\ Kept => Committed(m.log, m.commit)
  BY <1>1, <1>3, OwnCommitted DEF IInv, CommitsOK
<1>7. <<m.term, m.from>> \in elected /\ m.log \in Logs /\ m.log # <<>> /\ LastOf(m.log) = m.term
  BY <1>1 DEF IInv, LogsOK, Logs
<1>8. g.state = "Leader" /\ g.term = m.term
         => /\ g.log \in Seq(Nat) /\ g.log \in Logs /\ Len(g.log) = Len(m.log)
            /\ \A i \in 1..Len(m.log) : m.log[i] = g.log[i]
  <2>1. g \in Nodes /\ g.log \in Seq(Nat) /\ g.log \in Logs
    BY <1>1, NodeFields DEF IInv, TypeOK, Logs
  <2>2. g.state = "Leader" => g.log # <<>> /\ LastOf(g.log) = g.term
    BY <1>1 DEF IInv, ShapesOK, Shape
  <2> QED
    BY <1>7, <2>1, <2>2, SameTermSameLog DEF IInv
<1> HIDE DEF e, commit, r
<1>9. CASE HasCommitted(e, n)
  <2>1. PICK l \in Taken(n, e) :
           Do(s, [n EXCEPT !.log = l, !.committed = commit], {}, {r}, {})
    BY <1>2, <1>9 DEF e, commit, r
  <2>2. /\ l \in Seq(Nat) /\ k <= Len(l) /\ \A i \in 1..k : l[i] = e[i]
        /\ l = n.log \/ l = e
        /\ Kept /\ l # n.log => ~Agree(e, n.log, k)
    BY <1>3, <1>5, <2>1, TakenFields
  <2>3. /\ Len(l) \in Nat /\ Agree(l, m.log, k)
    BY <1>1, <1>5, <2>2 DEF Agree
  <2>4. n.committed <= k /\ \A i \in 1..n.committed : l[i] = n.log[i]
    <3>1. n.committed <= k /\ SubSeq(n.log, 1, n.committed) = SubSeq(e, 1, n.committed)
      BY <1>5, <1>9 DEF HasCommitted
    <3>2. \A i \in 1..n.committed : n.log[i] = e[i]
      BY <1>4, <1>5, <1>6, <3>1, SameBeginning
    <3> QED
      BY <1>4, <1>5, <2>2, <3>1, <3>2
  <2>5. commit \in Nat /\ n.committed <= commit /\ commit <= k
        /\ (commit = n.committed \/ commit <= m.commit)
    BY <1>1, <1>4, <1>5, <2>4 DEF commit, Larger, Smaller
  <2>6. Sound(l, commit)
    <3>1. commit <= Len(l)
      BY <1>5, <2>2, <2>3, <2>5
    <3>2. CASE commit = n.committed
      BY <1>4, <1>6, <2>2, <2>4, <3>1, <3>2, CommittedStays DEF IInv
    <3>3. CASE commit <= m.commit
      <4>1. ASSUME Kept, commit > 0 PROVE Committed(l, commit)
        <5>1. PICK c \in chosen : /\ m.commit <= Len(c.log)
                                  /\ \A i \in 1..m.commit : c.log[i] = m.log[i]
          BY <1>1, <1>6, <2>5, <3>3, <4>1 DEF Committed
        <5>2. Len(c.log) \in Nat
          BY LenProperties DEF IInv, TypeOK
        <5>3. commit <= Len(c.log)
          BY <1>1, <2>5, <3>3, <5>1, <5>2
        <5>4. \A i \in 1..commit : i \in 1..m.commit /\ i \in 1..k
          BY <1>1, <1>5, <2>5, <3>3
        <5>5. \A i \in 1..commit : c.log[i] = l[i]
          BY <2>3, <5>1, <5>4 DEF Agree
        <5> QED
          BY <3>1, <5>3, <5>5 DEF Committed
      <4> QED
        BY <2>5, <3>1, <4>1 DEF Sound, Committed
    <3> QED
      BY <2>5, <3>2, <3>3
  <2> DEFINE a == [n EXCEPT !.log = l, !.committed = commit]
  <2>7. /\ a \in Nodes /\ a.state = "Follower" /\ a.term = m.term /\ a.log = l
        /\ a.vote = n.vote /\ a.committed = commit
    BY <1>3, <2>2, <2>5 DEF Nodes
  <2>8. Do(s, a, {}, {r}, {})
    BY <2>1
  <2> HIDE DEF a
  <2>9. a.log = o.log \/ Copies(s, a, m.from)
    <3>1. SUFFICES ASSUME l # n.log PROVE Copies(s, a, m.from)
      BY <1>3, <2>7
    <3>2. l = e /\ Len(l) = k
      BY <1>5, <2>2, <3>1
    <3>3. l # <<>>
      BY <1>5, <3>2
    <3>4. Kept => ~Agree(l, o.log, Len(l))
      BY <1>3, <2>2, <3>1, <3>2
    <3> QED
      BY <1>1, <2>3, <2>7, <3>2, <3>3, <3>4 DEF Copies
  <2>10. Forward(s, a)
    BY <1>1, <1>3, <2>5, <2>7 DEF Forward
  <2>11. Legal(s, Saved(a), {})
    BY <1>1, <2>6, <2>7, <2>9, <2>10, FollowerLegal
  <2>12. /\ r.type = "AppResp" /\ r.from = s /\ r.to = m.from /\ r.term = n.term
         /\ r.index = k /\ r \in AppendReplies
    BY <1>1, <1>4, <1>5 DEF r, AppendReply, AppendReplies
  <2>13. /\ Saved(a).state = "Follower" /\ Saved(a).term = m.term /\ Saved(a).log = l
    BY <2>7, SavedFields
  <2>14. ASSUME g.state = "Leader", g.term = m.term
         PROVE  Agree(l, g.log, k) /\ (k >= Len(g.log) => LastOf(l) = m.term)
    <3>1. Agree(l, g.log, k)
      BY <1>5, <1>8, <2>3, <2>14 DEF Agree
    <3>2. ASSUME k >= Len(g.log) PROVE LastOf(l) = m.term
      <4>1. k = Len(m.log)
        BY <1>5, <1>8, <2>14, <3>2
      <4>2. m.log[k] = m.term
        BY <1>1, <1>7, <4>1, LastProperties
      <4>3. l[k] = m.term
        BY <1>5, <2>3, <4>2 DEF Agree
      <4>4. CASE l = e
        <5>1. Len(l) = k /\ l # <<>>
          BY <1>5, <4>4
        <5> QED
          BY <2>2, <4>3, <5>1, LastProperties
      <4>5. CASE l = n.log
        <5>1. n.log \in Logs /\ DOMAIN n.log = 1..Len(n.log)
          BY <1>3, NodeFields DEF Logs
        <5>2. \A j \in DOMAIN n.log : n.log[j] \in Nat /\ n.log[j] <= o.term
          BY <1>1, <1>3, NodeFields DEF IInv, ShapesOK, Shape
        <5>3. k \in DOMAIN n.log /\ \A j \in DOMAIN n.log : n.log[j] <= n.log[k]
          <6>1. k \in 1..Len(n.log)
            BY <1>4, <1>5, <2>2, <4>5
          <6>2. n.log[k] = m.term
            BY <4>3, <4>5
          <6>3. \A j \in DOMAIN n.log : n.log[j] <= m.term
            BY <1>1, <5>2
          <6> QED
            BY <5>1, <6>1, <6>2, <6>3
        <5> QED
          BY <4>3, <4>5, <5>1, <5>3, TopEntry DEF IInv
      <4> QED
        BY <2>2, <4>4, <4>5
    <3> QED
      BY <3>1, <3>2
  <2>15. MayAck(s, Saved(a), r)
    BY <1>1, <1>3, <1>7, <2>12, <2>13, <2>14 DEF MayAck
  <2>16. r \in Messages /\ MaySend(s, Saved(a), r)
    BY <1>1, <2>12, <2>15
    DEF Messages, MaySend, MayGrant, MayRequest, MayAppend, MayBeat, MayTell, VoteTypes
  <2> QED
    BY <2>7, <2>8, <2>11, <2>16, DoStep
<1>10. CASE ~HasCommitted(e, n)
  <2>1. Do(s, n, {}, {q}, {})
    BY <1>2, <1>10 DEF e
  <2>2. Forward(s, n)
    BY <1>1, <1>3 DEF Forward
  <2>3. Legal(s, Saved(n), {})
    BY <1>3, <1>6, <2>2, FollowerLegal
  <2>4. /\ q.type = "AppResp" /\ q.from = s /\ q.to = m.from /\ q.term = n.term
        /\ q.index = n.committed /\ q \in AppendReplies
    BY <1>1, <1>3, <1>4 DEF AppendReply, AppendReplies
  <2>5. /\ Saved(n).state = "Follower" /\ Saved(n).term = n.term /\ Saved(n).log = n.log
        /\ Saved(n).committed = n.committed
    BY <1>3, SavedFields
  <2>6. ASSUME Kept, g.state = "Leader", g.term = m.term, n.committed >= Len(g.log)
        PROVE  Beaten(m.from) \/ LastOf(n.log) = n.term
    BY <1>1, <1>3, <2>6, Unmatched
  <2>7. MayAck(s, Saved(n), q)
    <3>1. q.index <= Saved(n).committed
      BY <1>4, <2>4, <2>5
    <3> QED
      BY <1>1, <1>3, <1>7, <2>4, <2>5, <2>6, <3>1 DEF MayAck
  <2>8. q \in Messages /\ MaySend(s, Saved(n), q)
    BY <1>1, <2>4, <2>7
    DEF Messages, MaySend, MayGrant, MayRequest, MayAppend, MayBeat, MayTell, VoteTypes
  <2> HIDE DEF q
  <2> QED
    BY <1>3, <2>1, <2>3, <2>8, DoStep
<1> QED
  BY <1>9, <1>10

\* A heartbeat commits what the server has of the leader.
LEMMA HeartbeatStep ==
    ASSUME IInv, NEW s \in Server, NEW m \in msgs, ReceiveHeartbeat(s, m)
    PROVE  IInv'
<1> DEFINE o == node[s]
           n == Follow(AtTerm(o, m), m)
           a == [n EXCEPT !.committed = IF m.commit > @ THEN m.commit ELSE @]
           r == [type |-> "HeartbeatResp", from |-> s, to |-> m.from, term |-> n.term]
           failed == Check("commit_to", m.commit <= LastIndex(n))
<1>1. /\ m \in Messages /\ m.to = s /\ m.from \in Server \ {s} /\ o \in Nodes
      /\ m.term >= o.term /\ m.type = "Heartbeat" /\ o.state # "Dead" /\ m.term \in Nat
      /\ m.commit \in Nat /\ o.term \in Nat
  BY MessageFields, NodeFields DEF IInv, TypeOK, ReceiveHeartbeat, Receives, Heartbeats, Alive
<1>2. Do(s, a, {}, {r}, failed)
  BY DEF ReceiveHeartbeat
<1>3. /\ n \in Nodes /\ n.state = "Follower" /\ n.term = m.term
      /\ n.log = o.log /\ n.committed = o.committed
      /\ n.term = o.term => n.vote = o.vote
  BY <1>1, FollowFields
<1> HIDE DEF n
<1>4. n.committed \in Nat /\ n.log \in Seq(Nat) /\ Len(n.log) \in Nat /\ n.term \in Nat
  BY <1>3, NodeFields
<1>5. /\ a \in Nodes /\ a.state = "Follower" /\ a.term = m.term /\ a.log = n.log
      /\ a.vote = n.vote
      /\ a.committed = n.committed \/ (a.committed = m.commit /\ m.commit > n.committed)
  BY <1>1, <1>3, <1>4 DEF Nodes
<1> HIDE DEF a
<1>6. ASSUME failed = {} PROVE Sound(a.log, a.committed)
  <2>1. CASE a.committed = n.committed
    BY <1>1, <1>3, <1>5, <2>1, OwnCommitted
  <2>2. CASE a.committed = m.commit /\ m.commit > n.committed
    <3>1. m.commit <= Len(n.log)
      BY <1>6 DEF Check, LastIndex
    <3>2. ASSUME Kept PROVE Committed(n.log, m.commit)
      <4>1. m.commit > 0 /\ CommitsOK
        BY <1>1, <1>4, <2>2, <3>2 DEF IInv
      <4>2. o.term >= m.term /\ (o.term = m.term => Committed(o.log, m.commit))
        BY <1>1, <4>1 DEF CommitsOK
      <4> QED
        BY <1>1, <1>3, <4>2
    <3> QED
      BY <1>5, <2>2, <3>1, <3>2 DEF Sound
  <2> QED
    BY <1>5, <2>1, <2>2
<1>7. Forward(s, a)
  BY <1>1, <1>3, <1>4, <1>5 DEF Forward
<1>8. failed = {} => Legal(s, Saved(a), {})
  BY <1>3, <1>5, <1>6, <1>7, FollowerLegal
<1>9. r \in Messages /\ MaySend(s, Saved(a), r)
  <2>1. r.type = "HeartbeatResp" /\ r.from = s /\ r.to = m.from /\ r \in Signals
    BY <1>1, <1>4 DEF Signals
  <2> QED
    BY <1>1, <2>1, MaySendOther DEF Messages
<1> HIDE DEF r, failed
<1> QED
  BY <1>2, <1>5, <1>8, <1>9, DoStep

-----------------------------------------------------------------------------
\* Campaigns and votes

\* A server campaigns: with pre-vote in its own term, otherwise in the next one, where
\* it votes for itself.
LEMMA HupStep ==
    ASSUME IInv, NEW s \in Server, NEW n \in Nodes,
           n.log = node[s].log, n.committed = node[s].committed, Forward(s, n),
           NEW kind \in {"pre_election", "election", "transfer"},
           Hup(s, n, kind)
    PROVE  IInv'
<1> DEFINE pre == kind = "pre_election"
           b == IF pre /\ "pre_vote" \in repaired THEN BecomePreCandidate(n)
                ELSE BecomeCandidate(s, n)
           c == Poll(b, s, TRUE)
           type == IF pre THEN "PreVote" ELSE "Vote"
           t == IF pre THEN b.term + 1 ELSE b.term
           made == VoteRequest(s, b, type, t, kind = "transfer")
<1>1. Do(s, c, made, {}, {})
  BY DEF Hup, Campaign
<1>2. /\ n.term \in Nat /\ n.committed \in Nat /\ n.log \in Seq(Nat)
      /\ node[s] \in Nodes /\ node[s].term \in Nat /\ node[s].term <= n.term
      /\ n.committed <= Len(n.log)
  BY NodeFields DEF IInv, TypeOK, ShapesOK, Shape, Forward
<1>3. /\ b \in Nodes /\ b.log = n.log /\ b.committed = n.committed
      /\ \A p \in Server : b.votes[p] = "none"
      /\ \/ pre /\ b.state = "PreCandidate" /\ b.term = n.term /\ b.vote = n.vote
         \/ b.state = "Candidate" /\ b.term = n.term + 1 /\ b.vote = s
  <2>1. CASE pre /\ "pre_vote" \in repaired
    <3>1. b = BecomePreCandidate(n)
      BY <2>1
    <3> QED
      BY <2>1, <3>1 DEF BecomePreCandidate, Nodes, States, Votes, NoVotes, Peer
  <2>2. CASE ~(pre /\ "pre_vote" \in repaired)
    <3>1. b = BecomeCandidate(s, n)
      BY <2>2
    <3> QED
      BY <1>2, <3>1, CandidateFields
  <2> QED
    BY <2>1, <2>2
<1> HIDE DEF b
<1>4. /\ c \in Nodes /\ c.state = b.state /\ c.term = b.term /\ c.vote = b.vote
      /\ c.log = n.log /\ c.committed = n.committed
      /\ \A p \in Server : c.votes[p] = "yes" => p = s
  <2>1. b \in Nodes /\ c = [b EXCEPT !.votes[s] = IF @ # "none" THEN @ ELSE "yes"]
    BY <1>3 DEF Poll
  <2> HIDE DEF c
  <2>2. /\ c \in Nodes /\ c.state = b.state /\ c.term = b.term /\ c.vote = b.vote
        /\ c.log = b.log /\ c.committed = b.committed
        /\ \A p \in Server : c.votes[p] = "yes" => b.votes[p] = "yes" \/ p = s
    BY <2>1, PollFields
  <2> QED
    BY <1>3, <2>2
<1> HIDE DEF c
<1>5. b.term \in Nat /\ n.term <= b.term /\ node[s].term <= b.term
  BY <1>2, <1>3
<1>6. Sound(c.log, c.committed)
  BY <1>4, OwnCommitted
<1>7. Legal(s, Saved(c), {})
  <2>1. CASE c.state = "PreCandidate"
    <3>1. Forward(s, c)
      BY <1>2, <1>3, <1>4, <2>1 DEF Forward
    <3> QED
      BY <1>4, <1>6, <2>1, <3>1, FollowerLegal
  <2>2. CASE c.state = "Candidate"
    <3>1. node[s].term < c.term /\ c.vote = s /\ node[s].committed <= c.committed
      BY <1>2, <1>3, <1>4, <2>2
    <3> QED
      BY <1>4, <1>6, <2>2, <3>1, CandidateLegal
  <2> QED
    BY <1>3, <1>4, <2>1, <2>2
<1>8. ASSUME NEW m \in made
      PROVE  m \in Messages /\ MaySend(s, Saved(c), m)
  <2>1. type \in {"Vote", "PreVote"} /\ t \in Nat
    BY <1>5
  <2>2. type = "Vote" => b.state = "Candidate" /\ t = b.term
    BY <1>3
  <2>3. /\ Saved(c) \in Nodes /\ Saved(c).log = b.log /\ Saved(c).committed = b.committed
        /\ Saved(c).term = b.term /\ Saved(c).state = b.state
    BY <1>3, <1>4, SavedFields
  <2>4. b.committed <= Len(b.log) /\ (kind = "transfer") \in BOOLEAN
    BY <1>2, <1>3
  <2> HIDE DEF type, t
  <2> QED
    BY <1>3, <2>1, <2>2, <2>3, <2>4, VoteRequestMessage
<1> HIDE DEF made
<1> QED
  BY <1>1, <1>4, <1>7, <1>8, DoStep

\* The timeout of a server that has no leader runs out.
LEMMA ElectionTimeoutStep ==
    ASSUME IInv, NEW s \in Server, ElectionTimeout(s)
    PROVE  IInv'
<1> DEFINE n == [node[s] EXCEPT !.recent = TRUE]
           kind == IF "pre_vote" \in config THEN "pre_election" ELSE "election"
<1>1. node[s] \in Nodes /\ node[s].term \in Nat /\ node[s].committed \in Nat
  BY NodeFields DEF IInv, TypeOK
<1>2. n \in Nodes /\ n.log = node[s].log /\ n.committed = node[s].committed /\ Forward(s, n)
  <2>1. /\ n \in Nodes /\ n.log = node[s].log /\ n.committed = node[s].committed
        /\ n.term = node[s].term /\ n.vote = node[s].vote
    BY <1>1 DEF Nodes
  <2> HIDE DEF n
  <2> QED
    BY <1>1, <2>1 DEF Forward
<1>3. Hup(s, n, kind)
  BY DEF ElectionTimeout
<1>4. kind \in {"pre_election", "election", "transfer"}
  OBVIOUS
<1> HIDE DEF n, kind
<1> QED
  BY <1>2, <1>3, <1>4, HupStep

\* The leader hands over.
LEMMA TimeoutNowStep ==
    ASSUME IInv, NEW s \in Server, NEW m \in msgs, ReceiveTimeoutNow(s, m)
    PROVE  IInv'
<1> DEFINE n == AtTerm(node[s], m)
<1>1. /\ m \in Messages /\ node[s] \in Nodes /\ m.term >= node[s].term
      /\ node[s].term \in Nat /\ node[s].committed \in Nat
  BY MessageFields, NodeFields DEF IInv, TypeOK, ReceiveTimeoutNow, Receives
<1>2. \/ n # node[s] /\ Do(s, n, {}, {}, {})
      \/ Hup(s, n, "transfer")
  BY DEF ReceiveTimeoutNow
<1>3. n \in Nodes /\ n.log = node[s].log /\ n.committed = node[s].committed /\ Forward(s, n)
  <2>1. /\ n \in Nodes /\ n.log = node[s].log /\ n.committed = node[s].committed
        /\ node[s].term <= n.term /\ n.term \in Nat
        /\ n = node[s] \/ (node[s].term < n.term /\ n.state = "Follower")
    BY <1>1, AtTermFields, NodeFields
  <2> QED
    BY <1>1, <2>1 DEF Forward
<1>4. CASE n # node[s] /\ Do(s, n, {}, {}, {})
  BY <1>1, <1>4, DownLegal, DoStep
<1>5. CASE Hup(s, n, "transfer")
  <2> HIDE DEF n
  <2> QED
    BY <1>3, <1>5, HupStep
<1> QED
  BY <1>2, <1>4, <1>5

\* What a server may be when it has looked at the term of a vote and counted it.
Basis(s, n) ==
    /\ n.log = node[s].log /\ n.committed = node[s].committed
    /\ \/ n.state \in {"Follower", "PreCandidate"} /\ Forward(s, n)
       \/ /\ n.state = "Candidate" /\ node[s].state = "Candidate" /\ n.term = node[s].term
          /\ n.vote = s
          /\ \A p \in Server : n.votes[p] = "yes" => p = s \/ Granted(s, p, n.term)
       \/ n.state = "Leader" /\ Same(s, n)

\* It may be so, and with a commit index that is good.
LEMMA BasisLegal ==
    ASSUME IInv, NEW s \in Server, NEW n \in Nodes, Basis(s, n), Alive(s),
           NEW k \in Nat,
           \/ k = n.committed
           \/ n.state # "Leader" /\ k > n.committed /\ Sound(n.log, k),
           NEW c, c = [n EXCEPT !.committed = k]
    PROVE  c \in Nodes /\ Legal(s, Saved(c), {})
<1>1. /\ c \in Nodes /\ c.state = n.state /\ c.term = n.term /\ c.vote = n.vote
      /\ c.log = n.log /\ c.committed = k /\ c.votes = n.votes /\ c.saved = n.saved
      /\ c.matched = n.matched
  BY DEF Nodes
<1>2. /\ node[s] \in Nodes /\ node[s].term \in Nat /\ n.term \in Nat /\ node[s].term <= n.term
      /\ node[s].committed \in Nat /\ node[s].committed = n.committed
  BY NodeFields DEF IInv, TypeOK, Basis, Forward, Same
<1>3. Sound(n.log, n.committed)
  BY <1>2, OwnCommitted DEF Basis
<1>4. Sound(c.log, c.committed) /\ node[s].committed <= c.committed
  BY <1>1, <1>2, <1>3
<1>5. CASE n.state \in {"Follower", "PreCandidate"}
  <2>1. Forward(s, c)
    BY <1>1, <1>4, <1>5 DEF Basis, Forward
  <2> QED
    BY <1>1, <1>4, <1>5, <2>1, FollowerLegal DEF Basis
<1>6. CASE n.state = "Candidate"
  BY <1>1, <1>2, <1>4, <1>6, CandidateLegal DEF Basis
<1>7. CASE n.state = "Leader"
  <2>1. Same(s, c)
    BY <1>1, <1>7 DEF Basis, Same
  <2> QED
    BY <1>1, <2>1, SameLegal
<1> QED
  BY <1>1, <1>5, <1>6, <1>7 DEF Basis

\* What the commit index of a vote allows to commit is in the log, and was chosen.
LEMMA VoteCommits ==
    ASSUME IInv, NEW s \in Server, NEW n \in Nodes, Basis(s, n),
           NEW m \in msgs, m.type \in VoteTypes, CommittedByVote(n, m)
    PROVE  m.commit \in Nat /\ m.commit > n.committed /\ Sound(n.log, m.commit)
<1>1. m \in Messages /\ m \in VoteRequests \cup VoteReplies
  BY MessageFields DEF IInv, TypeOK, VoteTypes
<1>2. m.commit \in Nat /\ m.term \in Nat /\ n.term \in Nat
  BY <1>1, NodeFields DEF VoteRequests, VoteReplies
<1>3. m.commit \in DOMAIN n.log /\ n.log[m.commit] = m.commit_term /\ m.commit_term # 0
      /\ m.commit # 0 /\ m.commit > n.committed
  BY <1>2, TermOfFields DEF CommittedByVote
<1>4. m.commit <= Len(n.log)
  <2>1. n.log \in Seq(Nat) /\ DOMAIN n.log = 1..Len(n.log)
    BY NodeFields
  <2> QED
    BY <1>2, <1>3, <2>1
<1>5. ASSUME Kept PROVE Committed(n.log, m.commit)
  <2>1. PICK c \in chosen : m.commit \in DOMAIN c.log /\ c.log[m.commit] = m.commit_term
    BY <1>3, <1>5 DEF IInv, CommitsOK
  <2>2. n.log \in Logs /\ c.log \in Logs /\ TypeOK
    BY DEF Logs, Basis, IInv
  <2>3. \A i \in 1..m.commit : c.log[i] = n.log[i]
    BY <1>3, <2>1, <2>2 DEF IInv, LogsOK, LogsMatch
  <2>4. m.commit <= Len(c.log)
    <3>1. c.log \in Seq(Nat)
      BY <2>2, LogTypes
    <3>2. DOMAIN c.log = 1..Len(c.log)
      BY <3>1, LenProperties
    <3> QED
      BY <1>2, <2>1, <3>1, <3>2
  <2> QED
    BY <1>2, <1>4, <2>3, <2>4 DEF Committed
<1> QED
  BY <1>2, <1>3, <1>4, <1>5 DEF Sound

\* What maybe_commit_by_vote leaves is legal.
LEMMA VoteCommitLegal ==
    ASSUME IInv, NEW s \in Server, NEW n \in Nodes, Basis(s, n), Alive(s),
           NEW m \in msgs, m.type \in VoteTypes,
           NEW c \in MaybeCommitByVote(n, m)
    PROVE  /\ c \in Nodes /\ Legal(s, Saved(c), {})
           /\ c.log = n.log /\ c.term = n.term /\ n.committed <= c.committed
<1>1. n.committed \in Nat /\ n.term \in Nat
  BY NodeFields
<1>2. CASE c = n
  <2>1. n = [n EXCEPT !.committed = n.committed]
    BY DEF Nodes
  <2>2. Legal(s, Saved(n), {})
    BY <1>1, <2>1, BasisLegal
  <2> QED
    BY <1>1, <1>2, <2>2
<1>3. CASE c # n
  <2> DEFINE k == [n EXCEPT !.committed = m.commit]
  <2>1. /\ CommittedByVote(n, m)
        /\ \/ c = k
           \/ /\ c = BecomeFollower(k, k.term, None)
              /\ n.state \in {"Candidate", "PreCandidate"}
    BY <1>3 DEF MaybeCommitByVote
  <2>2. /\ m.commit \in Nat /\ m.commit > n.committed /\ n.committed <= m.commit
        /\ Sound(n.log, m.commit) /\ n.state # "Leader"
    BY <1>1, <2>1, VoteCommits DEF CommittedByVote
  <2>3. k \in Nodes /\ k.log = n.log /\ k.term = n.term /\ k.committed = m.commit /\ k.vote = n.vote
    BY <2>2 DEF Nodes
  <2>4. Legal(s, Saved(k), {})
    BY <2>2, BasisLegal
  <2> HIDE DEF k
  <2>5. CASE c = k
    BY <2>2, <2>3, <2>4, <2>5
  <2>6. CASE c = BecomeFollower(k, k.term, None) /\ n.state \in {"Candidate", "PreCandidate"}
    <3>1. None \in Peer
      BY DEF Peer
    <3>2. /\ c \in Nodes /\ c.state = "Follower" /\ c.term = n.term /\ c.vote = n.vote
          /\ c.log = n.log /\ c.committed = m.commit
      BY <1>1, <2>3, <2>6, <3>1, FollowerFields
    <3>3. node[s].committed <= c.committed
      BY <1>1, <2>2, <3>2 DEF Basis
    <3>4. Forward(s, c)
      <4>1. CASE n.state = "PreCandidate"
        BY <2>6, <3>2, <3>3, <4>1 DEF Forward, Basis
      <4>2. CASE n.state = "Candidate"
        <5>1. node[s].vote = s /\ n.vote = s /\ node[s].term = n.term
          BY <4>2 DEF Basis, IInv, ShapesOK, Shape
        <5> QED
          BY <1>1, <3>2, <3>3, <5>1 DEF Forward
      <4> QED
        BY <2>6, <4>1, <4>2
    <3> QED
      BY <2>2, <3>2, <3>4, FollowerLegal DEF Basis
  <2> QED
    BY <2>1, <2>5, <2>6
<1> QED
  BY <1>2, <1>3

\* A server is asked for its vote.
LEMMA VoteStep ==
    ASSUME IInv, NEW s \in Server, NEW m \in msgs, ReceiveVote(s, m)
    PROVE  IInv'
<1> DEFINE o == node[s]
           n == AtTerm(o, m)
           g == IF m.type = "Vote" THEN [n EXCEPT !.recent = TRUE, !.vote = m.from] ELSE n
           yes == VoteReply(s, n, m, m.term, FALSE)
           no == VoteReply(s, n, m, n.term, TRUE)
<1>1. /\ m \in Messages /\ m.to = s /\ m.from \in Server \ {s} /\ o \in Nodes
      /\ m.term >= o.term /\ m.type \in {"Vote", "PreVote"} /\ Alive(s)
      /\ m \in VoteRequests /\ m.term \in Nat /\ m.log_term \in Nat
      /\ o.term \in Nat /\ o.log \in Seq(Nat) /\ o.committed \in Nat /\ Shape(s, o)
  <2>1. m \in Messages /\ m.to = s /\ m.type \in {"Vote", "PreVote"} /\ m.term >= o.term
        /\ Alive(s) /\ o \in Nodes /\ Shape(s, o)
    BY DEF IInv, TypeOK, ShapesOK, ReceiveVote, Receives
  <2>2. m \in VoteRequests /\ m.from \in Server /\ m.from # m.to
    BY <2>1, MessageFields
  <2> QED
    BY <2>1, <2>2, NodeFields DEF VoteRequests
<1>2. \/ /\ CanVote(n, m) /\ IsUpToDate(n, m)
         /\ Do(s, g, {yes}, {}, {})
      \/ \E c \in MaybeCommitByVote(n, m) : Do(s, c, {no}, {}, {})
  BY DEF ReceiveVote
<1>3. /\ n \in Nodes /\ n.log = o.log /\ n.committed = o.committed
      /\ o.term <= n.term
      /\ \/ n = o
         \/ n.state = "Follower" /\ o.term < n.term /\ n.vote = None
      /\ m.type = "Vote" => n.term = m.term
      /\ m.type = "PreVote" => n = o
  BY <1>1, AtTermFields DEF AtTerm
<1> HIDE DEF n
<1>4. n.term \in Nat /\ n.state \in States /\ n.log \in Seq(Nat) /\ n.committed \in Nat
  BY <1>3, NodeFields
<1>5. Basis(s, n)
  <2>1. CASE n = o
    <3>1. \A p \in Server : o.state = "Candidate" /\ o.votes[p] = "yes" => Granted(s, p, o.term)
      BY DEF Granted
    <3>2. Forward(s, n)
      BY <1>1, <2>1 DEF Forward
    <3> QED
      BY <1>1, <1>4, <2>1, <3>1, <3>2 DEF Basis, Same, Shape, States, Alive
  <2>2. CASE n.state = "Follower" /\ o.term < n.term
    BY <1>1, <1>3, <1>4, <2>2 DEF Basis, Forward
  <2> QED
    BY <1>3, <2>1, <2>2
<1>6. CASE CanVote(n, m) /\ IsUpToDate(n, m) /\ Do(s, g, {yes}, {}, {}) /\ m.type = "PreVote"
  <2>1. n = o /\ g = n /\ Same(s, n)
    BY <1>3, <1>6 DEF Same
  <2>2. Legal(s, Saved(n), {})
    BY <1>1, <1>3, <2>1, SameLegal
  <2>3. /\ yes.type = "PreVoteResp" /\ yes.from = s /\ yes.to = m.from /\ yes.commit = 0
        /\ yes \in VoteReplies
    BY <1>1, <1>6 DEF VoteReply, VoteReplies
  <2> HIDE DEF yes
  <2>4. yes \in Messages
    BY <1>1, <2>3 DEF Messages
  <2>5. MaySend(s, Saved(n), yes)
    BY <2>3 DEF MaySend, MayGrant, MayRequest, MayAppend, MayAck, MayBeat, MayTell
  <2>6. Do(s, n, {yes}, {}, {})
    BY <1>6, <2>1
  <2> QED
    BY <1>3, <2>2, <2>4, <2>5, <2>6, DoStep
<1>7. CASE CanVote(n, m) /\ IsUpToDate(n, m) /\ Do(s, g, {yes}, {}, {}) /\ m.type = "Vote"
  <2>1. n.vote = m.from \/ n.vote = None
    BY <1>7 DEF CanVote
  <2>2. n.state \in {"Follower", "PreCandidate"}
    <3>1. s # None
      BY ElectionAssumption
    <3> QED
      BY <1>1, <1>3, <1>4, <2>1, <3>1 DEF Shape, States, Alive
  <2>3. /\ g \in Nodes /\ g.state = n.state /\ g.term = m.term /\ g.vote = m.from
        /\ g.log = o.log /\ g.committed = o.committed
    BY <1>1, <1>3, <1>7 DEF Nodes, Peer
  <2>4. /\ yes.type = "VoteResp" /\ yes.from = s /\ yes.to = m.from /\ yes.commit = 0
        /\ yes.term = m.term /\ yes \in VoteReplies
    BY <1>1, <1>7 DEF VoteReply, VoteReplies
  <2> HIDE DEF yes, g
  <2>5. Forward(s, g)
    BY <1>1, <1>3, <1>7, <2>1, <2>3 DEF Forward
  <2>6. Sound(g.log, g.committed)
    BY <1>1, <2>3, OwnCommitted
  <2>7. Legal(s, Saved(g), {})
    BY <2>2, <2>3, <2>5, <2>6, FollowerLegal
  <2>8. yes \in Messages
    BY <1>1, <2>4 DEF Messages
  <2>9. /\ node[m.from].term >= m.term
        /\ node[m.from].state = "Candidate" /\ node[m.from].term = m.term
              => LastOf(node[m.from].log) >= LastOf(g.log)
    <3>1. /\ node[m.from].term >= m.term
          /\ node[m.from].state = "Candidate" /\ node[m.from].term = m.term
                => m.log_term = LastOf(node[m.from].log)
      BY <1>7 DEF IInv, RequestsOK
    <3>2. LastTerm(n) = LastOf(n.log) /\ LastTerm(n) \in Nat
      BY <1>3, TermOfFields
    <3>3. m.log_term >= LastOf(n.log)
      BY <1>1, <1>7, <3>2 DEF IsUpToDate
    <3> QED
      BY <1>3, <2>3, <3>1, <3>3
  <2>10. MayGrant(s, Saved(g), yes)
    <3>1. /\ Saved(g).term = g.term /\ Saved(g).vote = g.vote /\ Saved(g).log = g.log
          /\ Saved(g).state = g.state
      BY <2>3, SavedFields
    <3> QED
      BY <1>1, <2>2, <2>3, <2>4, <2>9, <3>1 DEF MayGrant
  <2>11. MaySend(s, Saved(g), yes)
    BY <2>4, <2>10 DEF MaySend, MayRequest, MayAppend, MayAck, MayBeat, MayTell
  <2> QED
    BY <1>7, <2>3, <2>7, <2>8, <2>11, DoStep
<1>8. CASE \E c \in MaybeCommitByVote(n, m) : Do(s, c, {no}, {}, {})
  <2>1. PICK c \in MaybeCommitByVote(n, m) : Do(s, c, {no}, {}, {})
    BY <1>8
  <2>2. /\ c \in Nodes /\ Legal(s, Saved(c), {})
        /\ c.log = n.log /\ c.term = n.term /\ n.committed <= c.committed
    BY <1>1, <1>3, <1>5, VoteCommitLegal DEF VoteTypes
  <2>3. /\ Saved(c) \in Nodes /\ Saved(c).log = n.log /\ Saved(c).term = n.term
        /\ n.committed <= Saved(c).committed
    BY <2>2, SavedFields
  <2>4. n.committed <= Len(n.log)
    BY <1>1, <1>3 DEF Shape
  <2>5. no \in Messages /\ MaySend(s, Saved(c), no)
    BY <1>1, <1>3, <2>3, <2>4, RejectMessage
  <2> HIDE DEF no
  <2> QED
    BY <2>1, <2>2, <2>5, DoStep
<1> QED
  BY <1>1, <1>2, <1>6, <1>7, <1>8

\* A candidate that won leads.
LEMMA WinStep ==
    ASSUME IInv, NEW s \in Server, node[s].state = "Candidate",
           NEW p \in Nodes, p.state = "Candidate", p.term = node[s].term, p.vote = s,
           p.log = node[s].log, p.saved = node[s].saved, p.committed = node[s].committed,
           \A q \in Server : p.votes[q] = "yes" => Granted(s, q, p.term),
           Result(p) = "won",
           NEW l, l = BecomeLeader(s, p)
    PROVE  l \in Nodes /\ l.state = "Leader" /\ Saved(l) = l /\ Legal(s, l, {})
<1> DEFINE o == node[s]
           k == Len(o.log)
<1>1. /\ o \in Nodes /\ Shape(s, o) /\ o.term \in Nat /\ o.log \in Seq(Nat) /\ k \in Nat
      /\ o.saved \in Nat /\ o.committed \in Nat
      /\ \A i \in 1..k : o.log[i] \in Nat
  BY NodeFields DEF IInv, TypeOK, ShapesOK
<1>2. o.saved = k /\ o.term > 0 /\ o.committed <= k /\ DOMAIN o.log = 1..k
      /\ \A i \in 1..k : o.log[i] < o.term
  BY <1>1, NodeFields DEF Shape
<1>3. /\ l \in Nodes /\ l.state = "Leader" /\ l.term = o.term /\ l.vote = s
      /\ l.log = Append(o.log, o.term) /\ l.saved = k /\ l.committed = o.committed
      /\ l.matched[s] = k /\ \A q \in Server \ {s} : l.matched[q] = 0
  <2>1. PICK r : r = Reset(p, p.term)
    OBVIOUS
  <2>2. /\ r \in Nodes /\ r.term = o.term /\ r.vote = s /\ r.log = o.log /\ r.saved = k
        /\ r.committed = o.committed /\ r.matched = NoneMatched
    BY <1>1, <1>2, <2>1 DEF Reset, Nodes, NoVotes, NoneMatched, Votes, Peer
  <2>3. l = [r EXCEPT !.leader_id = s, !.state = "Leader", !.log = Append(r.log, o.term),
                      !.matched = [r.matched EXCEPT ![s] = k]]
    BY <1>2, <2>1, <2>2 DEF BecomeLeader
  <2>4. PICK a \in Seq(Nat) : a = Append(o.log, o.term)
    BY <1>1, AppendProperties
  <2>5. PICK x \in [Server -> Nat] : /\ x = [NoneMatched EXCEPT ![s] = k]
                                     /\ x[s] = k /\ \A q \in Server \ {s} : x[q] = 0
    <3>1. k \in Nat /\ NoneMatched \in [Server -> Nat] /\ \A q \in Server : NoneMatched[q] = 0
      BY <1>1 DEF NoneMatched
    <3> HIDE DEF k
    <3> DEFINE y == [NoneMatched EXCEPT ![s] = k]
    <3>2. y \in [Server -> Nat] /\ y[s] = k /\ \A q \in Server \ {s} : y[q] = 0
      BY <3>1
    <3> QED
      BY <3>2
  <2>6. l = [r EXCEPT !.leader_id = s, !.state = "Leader", !.log = a, !.matched = x]
    BY <2>2, <2>3, <2>4, <2>5
  <2>7. /\ l \in Nodes /\ l.state = "Leader" /\ l.term = o.term /\ l.vote = s
        /\ l.log = a /\ l.saved = k /\ l.committed = o.committed /\ l.matched = x
    BY <2>2, <2>6 DEF Nodes, States, Peer
  <2> QED
    BY <2>4, <2>5, <2>7
<1>4. /\ Len(l.log) = k + 1 /\ l.log # <<>> /\ DOMAIN l.log = 1..(k + 1)
      /\ \A i \in 1..k : l.log[i] = o.log[i]
      /\ l.log[k + 1] = o.term /\ LastOf(l.log) = o.term
  <2>1. /\ Len(l.log) = k + 1 /\ l.log \in Seq(Nat) /\ l.log[k + 1] = o.term
        /\ \A i \in 1..k : l.log[i] = o.log[i]
    BY <1>1, <1>3, AppendProperties
  <2> QED
    BY <1>1, <2>1, LastProperties
<1>5. l.matched[s] = k /\ \A q \in Server \ {s} : l.matched[q] = 0
  BY <1>3
<1>6. Shape(s, l)
  <2>1. \A i \in DOMAIN l.log : l.log[i] <= l.term
    BY <1>1, <1>2, <1>3, <1>4
  <2> QED
    BY <1>1, <1>2, <1>3, <1>4, <1>5, <2>1 DEF Shape
<1>7. Wins(s, l)
  <2> DEFINE Q == {q \in Server : p.votes[q] = "yes"}
  <2>1. IsQuorum(Q)
    <3>1. JointVoteResult(Server, {}, Q, {q \in Server : p.votes[q] = "none"}) = "won"
      BY DEF Result
    <3> QED
      BY <3>1, ElectionAssumption, WonWhateverMissing DEF IsQuorum, HasQuorum
  <2>2. l.matched[s] < Len(l.log) /\ \A q \in Server \ {s} : l.matched[q] = 0
    BY <1>1, <1>4, <1>5
  <2>3. \A q \in Q : Granted(s, q, l.term)
    BY <1>3
  <2> QED
    BY <1>2, <1>3, <2>1, <2>2, <2>3 DEF Wins
<1>8. Sound(l.log, l.committed)
  <2>1. o.committed <= Len(l.log) /\ \A i \in 1..o.committed : l.log[i] = o.log[i]
    BY <1>1, <1>2, <1>4
  <2>2. PICK b \in Seq(Nat), d \in Seq(Nat), c \in Nat :
           b = l.log /\ d = o.log /\ c = o.committed
    BY <1>1, <1>3, NodeFields
  <2>3. TypeOK /\ Sound(d, c)
    BY <2>2, OwnCommitted DEF IInv
  <2>4. c <= Len(b) /\ \A i \in 1..c : b[i] = d[i]
    BY <2>1, <2>2
  <2>5. Sound(b, c)
    BY <2>3, <2>4, CommittedStays
  <2> QED
    BY <1>3, <2>2, <2>5
<1>9. Forward(s, l) /\ Campaigns(s, l)
  BY <1>1, <1>3 DEF Forward, Campaigns, Shape
<1>10. LogLegal(s, l)
  BY <1>7 DEF LogLegal
<1>11. CommitLegal(s, l)
  BY <1>1, <1>3, <1>8 DEF CommitLegal
<1> QED
  BY <1>3, <1>6, <1>8, <1>9, <1>10, <1>11 DEF Legal, Saved

\* A candidate counts a vote.
LEMMA VoteRespStep ==
    ASSUME IInv, NEW s \in Server, NEW m \in msgs, ReceiveVoteResp(s, m)
    PROVE  IInv'
<1> DEFINE o == node[s]
           n == AtTerm(o, m)
           p == Poll(n, m.from, ~m.reject)
           f == IF Result(p) = "lost" THEN BecomeFollower(p, p.term, None) ELSE p
           l == BecomeLeader(s, p)
           failed == Check("become_leader: persisted", p.saved = LastIndex(p))
<1>1. /\ m \in Messages /\ m.to = s /\ m.from \in Server \ {s} /\ o \in Nodes
      /\ m.term >= o.term /\ m.type \in {"VoteResp", "PreVoteResp"} /\ Alive(s)
      /\ m.reject \in BOOLEAN /\ m.term \in Nat /\ o.term \in Nat /\ Shape(s, o)
      /\ o.committed \in Nat
  <2>1. m \in Messages /\ m.to = s /\ m.type \in {"VoteResp", "PreVoteResp"} /\ m.term >= o.term
        /\ Alive(s) /\ o \in Nodes /\ Shape(s, o)
    BY DEF IInv, TypeOK, ShapesOK, ReceiveVoteResp, Receives
  <2>2. m \in VoteReplies /\ m.from \in Server /\ m.from # m.to /\ m.term \in Nat
    BY <2>1, MessageFields
  <2> QED
    BY <2>1, <2>2, NodeFields DEF VoteReplies
<1>2. CASE n # o /\ Do(s, n, {}, {}, {})
  BY <1>1, <1>2, DownLegal, DoStep
<1>3. CASE <<n.state, m.type>> \in {<<"PreCandidate", "PreVoteResp">>, <<"Candidate", "VoteResp">>}
  <2>1. n = o /\ (m.type = "VoteResp" => m.term = o.term)
    BY <1>1, <1>3, AtTermFields
  <2>2. PICK v \in {"yes", "no"} :
           /\ v = "yes" <=> ~m.reject
           /\ p = [o EXCEPT !.votes[m.from] = IF @ # "none" THEN @ ELSE v]
    BY <1>1, <2>1 DEF Poll
  <2>3. /\ p \in Nodes /\ p.state = o.state /\ p.term = o.term /\ p.vote = o.vote
        /\ p.log = o.log /\ p.saved = o.saved /\ p.committed = o.committed
        /\ \A q \in Server : p.votes[q] = "yes" => o.votes[q] = "yes" \/ (q = m.from /\ v = "yes")
    <3>1. o \in Nodes /\ m.from \in Server
      BY <1>1
    <3> HIDE DEF p, n, o
    <3> QED
      BY <2>2, <3>1, PollFields
  <2>4. Forward(s, p)
    <3> HIDE DEF p
    <3> QED
      BY <1>1, <2>3 DEF Forward
  <2>5. \/ Result(p) = "won" /\ n.state = "PreCandidate" /\ Hup(s, p, "election")
        \/ Result(p) = "won" /\ n.state = "Candidate" /\ Do(s, l, {}, BcastAppend(s, l), failed)
        \/ \E c \in MaybeCommitByVote(f, m) : Do(s, c, {}, {}, {})
    BY <1>3 DEF ReceiveVoteResp
  <2>6. o.state = "Candidate" =>
           /\ o.vote = s
           /\ \A q \in Server : p.votes[q] = "yes" => Granted(s, q, o.term)
    <3>1. o.state = "Candidate" => m.type = "VoteResp" /\ m.term = o.term
      BY <1>3, <2>1
    <3> HIDE DEF p
    <3>2. ASSUME NEW q \in Server, p.votes[q] = "yes", o.state = "Candidate"
          PROVE  Granted(s, q, o.term)
      <4>1. CASE o.votes[q] = "yes"
        BY <3>2, <4>1 DEF Granted
      <4>2. CASE q = m.from /\ ~m.reject
        BY <1>1, <3>1, <3>2, <4>2 DEF Granted
      <4> QED
        BY <2>2, <2>3, <3>2, <4>1, <4>2
    <3>3. o.state = "Candidate" => o.vote = s
      BY <1>1 DEF Shape
    <3> QED
      BY <3>2, <3>3
  <2>7. CASE Result(p) = "won" /\ n.state = "PreCandidate" /\ Hup(s, p, "election")
    <3> HIDE DEF p
    <3> QED
      BY <2>3, <2>4, <2>7, HupStep
  <2>8. CASE Result(p) = "won" /\ n.state = "Candidate" /\ Do(s, l, {}, BcastAppend(s, l), failed)
    <3>1. l \in Nodes /\ l.state = "Leader" /\ Saved(l) = l /\ Legal(s, l, {})
      <4> HIDE DEF p
      <4> QED
        BY <2>1, <2>3, <2>6, <2>8, WinStep
    <3> HIDE DEF l, failed, p
    <3>2. \A x \in BcastAppend(s, l) : x \in Messages /\ MaySend(s, l, x)
      BY <3>1, AppendMessage DEF BcastAppend
    <3> QED
      BY <2>8, <3>1, <3>2, DoStep
  <2>9. CASE \E c \in MaybeCommitByVote(f, m) : Do(s, c, {}, {}, {})
    <3>1. f \in Nodes /\ Basis(s, f)
      <4>1. CASE f = p
        <5> HIDE DEF p, f, n
        <5> QED
          BY <1>3, <2>1, <2>3, <2>4, <2>6, <4>1 DEF Basis
      <4>2. CASE f = BecomeFollower(p, p.term, None)
        <5>1. None \in Peer /\ p.term \in Nat
          BY <2>3, NodeFields DEF Peer
        <5> HIDE DEF p, f
        <5>2. /\ f \in Nodes /\ f.state = "Follower" /\ f.term = p.term /\ f.vote = p.vote
              /\ f.log = p.log /\ f.committed = p.committed
          BY <2>3, <4>2, <5>1, FollowerFields
        <5>3. Forward(s, f)
          BY <2>4, <5>2 DEF Forward
        <5> QED
          BY <2>3, <5>2, <5>3 DEF Basis
      <4> QED
        BY <4>1, <4>2
    <3> HIDE DEF f
    <3>2. \A c \in MaybeCommitByVote(f, m) : c \in Nodes /\ Legal(s, Saved(c), {})
      BY <1>1, <3>1, VoteCommitLegal DEF VoteTypes
    <3> QED
      BY <2>9, <3>2, DoStep
  <2> QED
    BY <2>5, <2>7, <2>8, <2>9
<1> QED
  BY <1>2, <1>3 DEF ReceiveVoteResp

\* A server that never ran.
LEMMA NewNodeFields ==
    /\ NewNode \in Nodes /\ NewNode.state = "Follower" /\ NewNode.term = 0
    /\ NewNode.vote = None /\ NewNode.log = <<>> /\ NewNode.saved = 0 /\ NewNode.committed = 0
<1>1. <<>> \in Seq(Nat)
  BY EmptySeq
<1> QED
  BY <1>1 DEF NewNode, Nodes, States, Peer, NoVotes, NoneMatched, Votes

\* A server starts again with what it wrote.
LEMMA RestartStep ==
    ASSUME IInv, NEW s \in Server, Restart(s)
    PROVE  IInv'
<1> DEFINE o == node[s]
           a == SubSeq(o.log, 1, o.saved)
           k == Smaller(o.committed, o.saved)
           n == [NewNode EXCEPT !.term = o.term, !.vote = o.vote, !.log = a,
                                !.saved = o.saved, !.committed = k]
<1>1. /\ o \in Nodes /\ Shape(s, o) /\ o.term \in Nat /\ o.vote \in Peer /\ o.log \in Seq(Nat)
      /\ o.saved \in Nat /\ o.committed \in Nat /\ Len(o.log) \in Nat
      /\ o.saved <= Len(o.log) /\ o.committed <= Len(o.log)
      /\ DOMAIN o.log = 1..Len(o.log) /\ \A i \in DOMAIN o.log : o.log[i] <= o.term
  BY NodeFields DEF IInv, TypeOK, ShapesOK, Shape
<1>2. k \in Nat /\ k <= o.saved /\ k <= o.committed
  BY <1>1 DEF Smaller
<1>3. /\ a \in Seq(Nat) /\ Len(a) = o.saved /\ DOMAIN a = 1..o.saved
      /\ \A i \in 1..o.saved : a[i] = o.log[i]
  BY <1>1, Truncated, LenProperties
<1> HIDE DEF a, k
<1>4. /\ n \in Nodes /\ n.state = "Follower" /\ n.term = o.term /\ n.vote = o.vote /\ n.log = a
      /\ n.saved = o.saved /\ n.committed = k
  <2>1. NewNode \in Nodes /\ NewNode.state = "Follower"
    BY NewNodeFields
  <2> HIDE DEF o
  <2> QED
    BY <1>1, <1>2, <1>3, <2>1 DEF Nodes
<1>5. Become(s, n, {})
  BY <1>4 DEF Restart, Become, a, k
<1> HIDE DEF n
<1>6. Sound(a, k)
  <2>1. ASSUME Kept, k > 0 PROVE Committed(a, k)
    <3>1. PICK c \in chosen : /\ o.committed <= Len(c.log)
                              /\ \A i \in 1..o.committed : c.log[i] = o.log[i]
      BY <1>1, <1>2, <2>1, OwnCommitted DEF Sound, Committed
    <3>2. Len(c.log) \in Nat
      BY LogTypes, LastProperties DEF IInv
    <3>3. k <= Len(c.log) /\ k <= Len(a) /\ \A i \in 1..k : c.log[i] = a[i]
      BY <1>1, <1>2, <1>3, <3>1, <3>2
    <3> QED
      BY <3>3 DEF Committed
  <2> QED
    BY <1>2, <1>3, <2>1 DEF Sound, Committed
<1>7. Shape(s, n)
  <2>1. \A i \in DOMAIN n.log : n.log[i] <= n.term
    <3>1. ASSUME NEW i \in 1..o.saved PROVE i \in DOMAIN o.log
      BY <1>1
    <3> QED
      BY <1>1, <1>3, <1>4, <3>1
  <2> QED
    BY <1>1, <1>2, <1>3, <1>4, <2>1 DEF Shape
<1>8. Forward(s, n) /\ Campaigns(s, n)
  <2>1. CASE o.saved = Len(o.log)
    <3>1. k = o.committed
      BY <1>1, <2>1 DEF k, Smaller
    <3> QED
      BY <1>1, <1>2, <1>4, <3>1 DEF Forward, Campaigns
  <2>2. CASE o.saved < Len(o.log)
    <3>1. <<o.term, s>> \in elected
      BY <2>2 DEF IInv, ElectedOK
    <3> QED
      BY <1>1, <1>4, <3>1 DEF Forward, Campaigns
  <2> QED
    BY <1>1, <2>1, <2>2
<1>9. LogLegal(s, n)
  BY <1>4 DEF LogLegal, a
<1>10. CommitLegal(s, n)
  BY <1>4, <1>6 DEF CommitLegal
<1>11. Legal(s, n, {})
  BY <1>4, <1>7, <1>8, <1>9, <1>10 DEF Legal
<1> QED
  BY <1>5, <1>11, InvStep

-----------------------------------------------------------------------------
\* The invariant

\* It holds in the beginning.
LEMMA InitInv ==
    ASSUME Init
    PROVE  IInv
<1>1. \A s \in Server : /\ node[s] = NewNode /\ node[s] \in Nodes /\ node[s].state = "Follower"
                        /\ node[s].log = <<>> /\ node[s].saved = 0 /\ node[s].committed = 0
  BY NewNodeFields DEF Init
<1>2. Len(<<>>) = 0 /\ DOMAIN <<>> = {}
  OBVIOUS
<1>3. TypeOK
  BY NewNodeFields DEF Init, TypeOK
<1>4. ShapesOK
  BY <1>1, <1>2 DEF ShapesOK, Shape
<1>5. \A l \in Logs : l = <<>>
  BY <1>1 DEF Logs, Init
<1>6. VotesOK
  BY <1>1 DEF VotesOK, Granted, Init
<1>7. ElectedOK /\ RequestsOK /\ ElectionSafety
  BY <1>1, <1>2 DEF ElectedOK, RequestsOK, ElectionSafety, Init
<1>8. LogsOK
  BY <1>2, <1>5 DEF LogsOK, LogsMatch, Init
<1>9. AcksOK /\ ChosenOK
  BY <1>1 DEF AcksOK, ChosenOK, Acked, Init
<1>10. SafeOK
  BY <1>2, <1>5 DEF SafeOK
<1>11. CommitsOK
  BY <1>1 DEF CommitsOK, Committed, Init
<1> QED
  BY <1>3, <1>4, <1>6, <1>7, <1>8, <1>9, <1>10, <1>11 DEF IInv

\* Nothing of it changes when nothing moves.
LEMMA StutterInv ==
    ASSUME IInv, UNCHANGED vars
    PROVE  IInv'
<1>1. scenario' = scenario /\ node' = node /\ msgs' = msgs /\ elected' = elected /\ chosen' = chosen
  BY DEF vars
<1>2. TypeOK' /\ ShapesOK'
  BY <1>1 DEF IInv, TypeOK, ShapesOK
<1>3. /\ \A s, p, t : Granted(s, p, t)' <=> Granted(s, p, t)
      /\ \A s, p, t : Stands(s, p, t)' <=> Stands(s, p, t)
  BY <1>1 DEF Granted, Stands
<1>4. /\ \A s, p : Acked(s, p)' <=> Acked(s, p)
      /\ \A p, t : KeepsUp(p, t)' <=> KeepsUp(p, t)
      /\ \A p, q, k : Reached(p, q, k)' <=> Reached(p, q, k)
      /\ \A s : Beaten(s)' <=> Beaten(s)
      /\ \A l, k : Committed(l, k)' <=> Committed(l, k)
  <2>1. \A s, p : Acked(s, p)' <=> Acked(s, p)
    BY <1>1 DEF Acked
  <2>2. \A p, t : KeepsUp(p, t)' <=> KeepsUp(p, t)
    BY <1>1, <1>3 DEF KeepsUp
  <2>3. \A p, q, k : Reached(p, q, k)' <=> Reached(p, q, k)
    BY <1>1 DEF Reached, Agree
  <2>4. \A s : Beaten(s)' <=> Beaten(s)
    BY <1>1, <2>1 DEF Beaten, IsQuorum
  <2>5. \A l, k : Committed(l, k)' <=> Committed(l, k)
    BY <1>1 DEF Committed
  <2> QED
    BY <2>1, <2>2, <2>3, <2>4, <2>5
<1>5. Logs' = Logs
  BY <1>1 DEF Logs
<1>6. VotesOK' /\ ElectedOK' /\ RequestsOK' /\ ElectionSafety'
  <2>1. VotesOK'
    BY <1>1, <1>3 DEF IInv, VotesOK
  <2>2. ElectedOK'
    BY <1>1, <1>3 DEF IInv, ElectedOK
  <2>3. RequestsOK' /\ ElectionSafety'
    BY <1>1 DEF IInv, RequestsOK, ElectionSafety
  <2> QED
    BY <2>1, <2>2, <2>3
<1>7. LogsOK'
  BY <1>1, <1>5 DEF IInv, LogsOK, LogsMatch
<1>8. Kept' <=> Kept
  BY <1>1 DEF Kept, repaired
<1>9. AcksOK => AcksOK'
  BY <1>1, <1>4 DEF AcksOK
<1>10. SafeOK /\ ChosenOK => SafeOK' /\ ChosenOK'
  BY <1>1, <1>4, <1>5 DEF SafeOK, ChosenOK
<1>11. CommitsOK => CommitsOK'
  BY <1>1, <1>4, <1>5 DEF CommitsOK
<1> QED
  BY <1>2, <1>6, <1>7, <1>8, <1>9, <1>10, <1>11 DEF IInv

\* Every step keeps it.
LEMMA NextInv ==
    ASSUME IInv, [Next]_vars
    PROVE  IInv'
<1>1. CASE UNCHANGED vars
  BY <1>1, StutterInv
<1>2. CASE Steady
  <2>1. ASSUME NEW s \in Server, Beat(s) \/ PersistEntries(s)
        PROVE  IInv'
    BY <2>1, BeatStep, PersistEntriesStep
  <2>2. ASSUME NEW m \in msgs,
               \/ OldTerm(m.to, m)
               \/ ReceiveVote(m.to, m) \/ ReceiveVoteResp(m.to, m) \/ ReceiveTimeoutNow(m.to, m)
               \/ ReceiveAppend(m.to, m) \/ ReceiveAppendResp(m.to, m)
               \/ ReceiveHeartbeat(m.to, m) \/ ReceiveHeartbeatResp(m.to, m)
        PROVE  IInv'
    <3>1. m.to \in Server
      BY MessageFields DEF IInv, TypeOK
    <3> QED
      BY <2>2, <3>1, OldTermStep, VoteStep, VoteRespStep, TimeoutNowStep, AppendStep,
         AppendRespStep, HeartbeatStep, HeartbeatRespStep
  <2> QED
    BY <1>2, <2>1, <2>2 DEF Steady
<1>3. CASE \E s \in Server : \/ LeaseExpires(s) \/ ElectionTimeout(s) \/ CheckQuorum(s) \/ Restart(s)
                             \/ \E p \in Server : TransferLeader(s, p)
  BY <1>3, LeaseExpiresStep, ElectionTimeoutStep, CheckQuorumStep, RestartStep, TransferLeaderStep
<1> QED
  BY <1>1, <1>2, <1>3 DEF Next

\* For any number of servers, any settings and whatever defects are mended, the
\* invariant holds in every state; its parts on acknowledgements and commits, where
\* find_conflict is mended.
THEOREM InductiveInvariant == Spec => []IInv
<1>1. Init => IInv
  BY InitInv
<1>2. IInv /\ [Next]_vars => IInv'
  BY NextInv
<1> QED
  BY <1>1, <1>2, PTL DEF Spec

\* The nodes, messages and the history have their types.
THEOREM TypesHold == Spec => []TypeOK
<1>1. IInv => TypeOK
  BY DEF IInv
<1> QED
  BY <1>1, InductiveInvariant, PTL

\* A term has at most one leader, however votes are lost, delayed or repeated, and
\* whoever crashes (Raft::step, poll, become_leader).
THEOREM ElectionSafetyHolds == Spec => []ElectionSafety
<1>1. IInv => ElectionSafety
  BY DEF IInv
<1> QED
  BY <1>1, InductiveInvariant, PTL

\* Where find_conflict keeps what was acknowledged, a leader has all that leaders of earlier
\* terms committed (the comparison of logs in a vote, and maybe_commit for entries of its
\* own term only).
THEOREM LeaderCompletenessHolds == Spec => [](Kept => LeaderCompleteness)
<1>1. IInv => (Kept => LeaderCompleteness)
  <2> SUFFICES ASSUME IInv, Kept, NEW s \in Server, NEW c \in chosen,
                      node[s].state = "Leader", node[s].term > c.term
               PROVE  IsPrefixOf(c.log, node[s].log)
    BY DEF LeaderCompleteness
  <2> DEFINE l == node[s].log
  <2>1. /\ TypeOK /\ l \in Logs /\ l \in Seq(Nat) /\ c.log \in Seq(Nat) /\ c.term \in Nat
        /\ node[s].term \in Nat /\ Len(l) \in Nat /\ DOMAIN l = 1..Len(l)
        /\ Len(c.log) \in Nat /\ DOMAIN c.log = 1..Len(c.log)
    BY LogTypes, LastProperties, NodeFields DEF IInv, TypeOK
  <2>2. l # <<>> /\ LastOf(l) = node[s].term
    BY DEF IInv, ShapesOK, Shape
  <2>3. Len(l) \in DOMAIN l /\ l[Len(l)] >= c.term
    BY <2>1, <2>2, LastProperties
  <2>4. Holds(c.log, l, Len(l))
    BY <2>1, <2>3 DEF IInv, ChosenOK
  <2>5. Len(c.log) <= Len(l) /\ \A i \in 1..Len(c.log) : c.log[i] = l[i]
    BY <2>1, <2>4 DEF Holds
  <2> HIDE DEF l
  <2>6. SubSeq(l, 1, Len(c.log)) = c.log
    <3>1. /\ SubSeq(l, 1, Len(c.log)) \in Seq(Nat)
          /\ Len(SubSeq(l, 1, Len(c.log))) = Len(c.log)
          /\ \A i \in 1..Len(c.log) : SubSeq(l, 1, Len(c.log))[i] = l[i]
      BY <2>1, <2>5, Truncated
    <3> QED
      BY <2>1, <2>5, <3>1, SeqEqual
  <2> QED
    BY <2>5, <2>6 DEF IsPrefixOf, l
<1> QED
  BY <1>1, InductiveInvariant, PTL

\* Where find_conflict keeps what was acknowledged, what a server takes for committed was
\* committed by a leader, whether an append, a heartbeat or a vote told it
\* (maybe_commit_by_vote).
THEOREM CommittedWasChosenHolds == Spec => [](Kept => CommittedWasChosen)
<1>1. IInv => (Kept => CommittedWasChosen)
  <2> SUFFICES ASSUME IInv, Kept, NEW s \in Server, node[s].committed > 0
               PROVE  \E c \in chosen : /\ Len(c.log) >= node[s].committed
                                        /\ SubSeq(c.log, 1, node[s].committed)
                                           = SubSeq(node[s].log, 1, node[s].committed)
    BY DEF CommittedWasChosen
  <2> DEFINE l == node[s].log
             k == node[s].committed
  <2>1. l \in Seq(Nat) /\ Len(l) \in Nat /\ k \in Nat /\ k <= Len(l)
    BY NodeFields DEF IInv, TypeOK, ShapesOK, Shape
  <2>2. PICK c \in chosen : k <= Len(c.log) /\ \A i \in 1..k : c.log[i] = l[i]
    BY DEF IInv, CommitsOK, Committed
  <2>3. c.log \in Seq(Nat) /\ Len(c.log) \in Nat
    BY LogTypes, LastProperties DEF IInv
  <2> HIDE DEF l, k
  <2>4. SubSeq(c.log, 1, k) = SubSeq(l, 1, k)
    <3>1. /\ SubSeq(l, 1, k) \in Seq(Nat) /\ Len(SubSeq(l, 1, k)) = k
          /\ \A i \in 1..k : SubSeq(l, 1, k)[i] = l[i]
      BY <2>1, Truncated
    <3>2. /\ SubSeq(c.log, 1, k) \in Seq(Nat) /\ Len(SubSeq(c.log, 1, k)) = k
          /\ \A i \in 1..k : SubSeq(c.log, 1, k)[i] = c.log[i]
      BY <2>1, <2>2, <2>3, Truncated
    <3> QED
      BY <2>2, <3>1, <3>2, SeqEqual
  <2> QED
    BY <2>1, <2>2, <2>3, <2>4 DEF l, k
<1> QED
  BY <1>1, InductiveInvariant, PTL

\* Two servers have the same entry wherever both take it for committed.
CommitsAgree ==
    \A s, q \in Server : \A i \in DOMAIN node[s].log :
        i <= node[s].committed /\ i <= node[q].committed => node[q].log[i] = node[s].log[i]

\* Where find_conflict keeps what was acknowledged, no two servers commit different
\* entries at an index: whoever led when they did (maybe_commit, handle_append_entries,
\* handle_heartbeat, maybe_commit_by_vote).
THEOREM CommitsAgreeHolds == Spec => [](Kept => CommitsAgree)
<1>1. IInv => (Kept => CommitsAgree)
  <2> SUFFICES ASSUME IInv, Kept, NEW s \in Server, NEW q \in Server,
                      NEW i \in DOMAIN node[s].log,
                      i <= node[s].committed, i <= node[q].committed
               PROVE  node[q].log[i] = node[s].log[i]
    BY DEF CommitsAgree
  <2>1. /\ node[s].committed \in Nat /\ node[q].committed \in Nat /\ i \in Nat /\ i > 0
        /\ TypeOK /\ ChosenOK
    BY NodeFields, LenProperties DEF IInv, TypeOK
  <2>2. PICK c \in chosen : /\ node[s].committed <= Len(c.log)
                            /\ \A j \in 1..node[s].committed : c.log[j] = node[s].log[j]
    BY <2>1 DEF IInv, CommitsOK, Committed
  <2>3. PICK d \in chosen : /\ node[q].committed <= Len(d.log)
                            /\ \A j \in 1..node[q].committed : d.log[j] = node[q].log[j]
    BY <2>1 DEF IInv, CommitsOK, Committed
  <2>4. Len(c.log) \in Nat /\ Len(d.log) \in Nat
    BY <2>1, LogTypes, LastProperties
  <2>5. c.log[i] = d.log[i]
    BY <2>1, <2>2, <2>3, <2>4, ChosenAgree
  <2> QED
    BY <2>1, <2>2, <2>3, <2>5
<1> QED
  BY <1>1, InductiveInvariant, PTL

-----------------------------------------------------------------------------
\* Assertions

\* Messages can be built and sent.
Sendable == {"new_message", "send_term"} \subseteq repaired

\* A step that fails no assertion of its own fails none in its messages.
LEMMA DoSurvives ==
    ASSUME Sendable, NEW s, NEW n, NEW made, NEW out, NEW failed,
           Do(s, n, made, out, failed)
    PROVE  panics' = panics \cup failed
<1>1. Died(made, made \cup out) = {}
  BY DEF Sendable, Died, Check
<1> QED
  BY <1>1 DEF Do

\* Campaigns assert nothing.
LEMMA HupSurvives ==
    ASSUME Sendable, NEW s, NEW n, NEW kind, Hup(s, n, kind)
    PROVE  panics' = panics
BY DoSurvives DEF Hup

\* A heartbeat commits nothing that its receiver does not have: it acknowledged that,
\* and keeps it where find_conflict is mended.
LEMMA HeartbeatSurvives ==
    ASSUME IInv, Kept, Sendable, NEW s \in Server, NEW m \in msgs, ReceiveHeartbeat(s, m)
    PROVE  panics' = panics
<1> DEFINE o == node[s]
           n == Follow(AtTerm(o, m), m)
           failed == Check("commit_to", m.commit <= LastIndex(n))
<1>1. /\ m \in Messages /\ m.to = s /\ o \in Nodes /\ m.term >= o.term /\ m.type = "Heartbeat"
      /\ o.state # "Dead" /\ m.term \in Nat /\ m.commit \in Nat /\ o.term \in Nat
  BY MessageFields, NodeFields DEF IInv, TypeOK, ReceiveHeartbeat, Receives, Heartbeats, Alive
<1>2. PICK x, r : Do(s, x, {}, {r}, failed)
  BY DEF ReceiveHeartbeat
<1>3. n.log = o.log
  BY <1>1, FollowFields
<1> HIDE DEF n
<1>4. m.commit <= Len(o.log)
  <2>1. Len(o.log) \in Nat
    BY <1>1, NodeFields
  <2>2. CASE m.commit = 0
    BY <2>1, <2>2
  <2>3. CASE m.commit > 0
    <3>1. node[m.to].term >= m.term /\ (node[m.to].term = m.term => Committed(node[m.to].log, m.commit))
      BY <1>1, <2>3 DEF IInv, CommitsOK
    <3>2. Committed(o.log, m.commit)
      BY <1>1, <3>1
    <3> QED
      BY <2>3, <3>2 DEF Committed
  <2> QED
    BY <1>1, <2>2, <2>3
<1>5. failed = {}
  BY <1>3, <1>4 DEF Check, LastIndex
<1> HIDE DEF failed
<1> QED
  BY <1>2, <1>5, DoSurvives

\* Who wins an election has all of its log on disk.
LEMMA VoteRespSurvives ==
    ASSUME IInv, Sendable, NEW s \in Server, NEW m \in msgs, ReceiveVoteResp(s, m)
    PROVE  panics' = panics
<1>1. PICK n : n = AtTerm(node[s], m)
  OBVIOUS
<1>2. PICK p : p = Poll(n, m.from, ~m.reject)
  OBVIOUS
<1>3. /\ m \in Messages /\ node[s] \in Nodes /\ m.term >= node[s].term /\ m.from \in Server
  BY MessageFields DEF IInv, TypeOK, ReceiveVoteResp, Receives
<1>4. n \in Nodes /\ (n = node[s] \/ n.state = "Follower")
  BY <1>1, <1>3, AtTermFields
<1>5. p.log = n.log /\ p.saved = n.saved
  BY <1>2, <1>3, <1>4, PollFields DEF Poll
<1>6. \/ Do(s, n, {}, {}, {})
      \/ Hup(s, p, "election")
      \/ /\ n.state = "Candidate"
         /\ \E l : Do(s, l, {}, BcastAppend(s, l),
                      Check("become_leader: persisted", p.saved = LastIndex(p)))
      \/ \E c : Do(s, c, {}, {}, {})
  BY <1>1, <1>2 DEF ReceiveVoteResp
<1>7. ASSUME n.state = "Candidate"
      PROVE  Check("become_leader: persisted", p.saved = LastIndex(p)) = {}
  <2>1. n = node[s]
    BY <1>4, <1>7
  <2>2. n.saved = Len(n.log)
    BY <1>7, <2>1 DEF IInv, ShapesOK, Shape
  <2> QED
    BY <1>5, <2>2 DEF Check, LastIndex
<1>8. CASE Do(s, n, {}, {}, {}) \/ \E c : Do(s, c, {}, {}, {})
  BY <1>8, DoSurvives
<1>9. CASE Hup(s, p, "election")
  BY <1>9, HupSurvives
<1>10. CASE /\ n.state = "Candidate"
            /\ \E l : Do(s, l, {}, BcastAppend(s, l),
                         Check("become_leader: persisted", p.saved = LastIndex(p)))
  <2>1. \E l : Do(s, l, {}, BcastAppend(s, l), {})
    BY <1>7, <1>10
  <2> QED
    BY <2>1, DoSurvives
<1> QED
  BY <1>6, <1>8, <1>9, <1>10

\* No step fails an assertion.
LEMMA StepSurvives ==
    ASSUME IInv, Kept, Sendable, [Next]_vars
    PROVE  panics' = panics
<1>1. ASSUME NEW s \in Server, Beat(s) \/ PersistEntries(s)
      PROVE  panics' = panics
  BY <1>1, DoSurvives DEF Beat, PersistEntries
<1>2. ASSUME NEW m \in msgs,
             \/ OldTerm(m.to, m)
             \/ ReceiveVote(m.to, m) \/ ReceiveVoteResp(m.to, m) \/ ReceiveTimeoutNow(m.to, m)
             \/ ReceiveAppend(m.to, m) \/ ReceiveAppendResp(m.to, m)
             \/ ReceiveHeartbeat(m.to, m) \/ ReceiveHeartbeatResp(m.to, m)
      PROVE  panics' = panics
  <2>1. m.to \in Server
    BY MessageFields DEF IInv, TypeOK
  <2>2. CASE OldTerm(m.to, m)
    BY <2>2, DoSurvives DEF OldTerm
  <2>3. CASE ReceiveVote(m.to, m)
    BY <2>3, DoSurvives DEF ReceiveVote
  <2>4. CASE ReceiveTimeoutNow(m.to, m)
    BY <2>4, DoSurvives, HupSurvives DEF ReceiveTimeoutNow
  <2>5. CASE ReceiveAppendResp(m.to, m)
    BY <2>5, DoSurvives DEF ReceiveAppendResp
  <2>6. CASE ReceiveHeartbeatResp(m.to, m)
    BY <2>6, DoSurvives DEF ReceiveHeartbeatResp
  <2>7. CASE ReceiveAppend(m.to, m)
    <3>1. \/ \E k, l, c, out : Do(m.to, [Follow(AtTerm(node[m.to], m), m)
                                           EXCEPT !.log = l, !.committed = c], {}, out, {})
          \/ \E n, out : Do(m.to, n, {}, out, {})
      BY <2>7 DEF ReceiveAppend
    <3>2. \E n, out : Do(m.to, n, {}, out, {})
      BY <3>1
    <3> QED
      BY <3>2, DoSurvives
  <2> QED
    BY <1>2, <2>1, <2>2, <2>3, <2>4, <2>5, <2>6, <2>7, VoteRespSurvives, HeartbeatSurvives
<1>3. ASSUME NEW s \in Server,
             LeaseExpires(s) \/ ElectionTimeout(s) \/ CheckQuorum(s) \/ Restart(s)
      PROVE  panics' = panics
  <2>1. CASE LeaseExpires(s)
    BY <2>1, DoSurvives DEF LeaseExpires
  <2>2. CASE ElectionTimeout(s)
    BY <2>2, HupSurvives DEF ElectionTimeout
  <2>3. CASE CheckQuorum(s)
    BY <2>3, DoSurvives DEF CheckQuorum
  <2>4. CASE Restart(s)
    BY <2>4 DEF Restart
  <2> QED
    BY <1>3, <2>1, <2>2, <2>3, <2>4
<1>4. ASSUME NEW s \in Server, NEW p \in Server, TransferLeader(s, p)
      PROVE  panics' = panics
  BY <1>4, DoSurvives DEF TransferLeader
<1>5. CASE UNCHANGED vars
  BY <1>5 DEF vars
<1>6. \A m \in msgs : m.to \in Server
  BY MessageFields DEF IInv, TypeOK
<1> QED
  BY <1>1, <1>2, <1>3, <1>4, <1>5, <1>6 DEF Next, Steady

\* No step changes the settings.
LEMMA ScenarioStays ==
    ASSUME [Next]_vars
    PROVE  scenario' = scenario
<1>1. ASSUME NEW s, Beat(s) \/ PersistEntries(s)
      PROVE  scenario' = scenario
  BY <1>1 DEF Beat, PersistEntries, Do
<1>2. ASSUME NEW s, NEW m, OldTerm(s, m) \/ ReceiveVote(s, m) \/ ReceiveVoteResp(s, m)
      PROVE  scenario' = scenario
  BY <1>2 DEF OldTerm, ReceiveVote, ReceiveVoteResp, Hup, Do
<1>3. ASSUME NEW s, NEW m, ReceiveTimeoutNow(s, m) \/ ReceiveAppend(s, m) \/ ReceiveAppendResp(s, m)
      PROVE  scenario' = scenario
  BY <1>3 DEF ReceiveTimeoutNow, ReceiveAppend, ReceiveAppendResp, Hup, Do
<1>4. ASSUME NEW s, NEW m, ReceiveHeartbeat(s, m) \/ ReceiveHeartbeatResp(s, m)
      PROVE  scenario' = scenario
  BY <1>4 DEF ReceiveHeartbeat, ReceiveHeartbeatResp, Do
<1>5. ASSUME NEW s, LeaseExpires(s) \/ ElectionTimeout(s) \/ CheckQuorum(s) \/ Restart(s)
      PROVE  scenario' = scenario
  BY <1>5 DEF LeaseExpires, ElectionTimeout, CheckQuorum, Restart, Hup, Do
<1>6. ASSUME NEW s, NEW p, TransferLeader(s, p)
      PROVE  scenario' = scenario
  BY <1>6 DEF TransferLeader, Do
<1>7. CASE UNCHANGED vars
  BY <1>7 DEF vars
<1> QED
  BY <1>1, <1>2, <1>3, <1>4, <1>5, <1>6, <1>7 DEF Next, Steady

\* Once messages can be built and sent, and find_conflict keeps what was acknowledged, no
\* assertion fails on any server, with any number of servers and any settings: heartbeats
\* commit within the log, though an answer to an append may acknowledge what its sender
\* does not have, and a new leader has its log on disk (commit_to, become_leader).
THEOREM SurvivalHolds == Spec => [](Kept /\ Sendable => NodesSurvive)
<1> DEFINE Survives == Kept /\ Sendable => NodesSurvive
<1>1. Init => Survives
  BY DEF Init, NodesSurvive
<1>2. IInv /\ Survives /\ [Next]_vars => Survives'
  <2> SUFFICES ASSUME IInv, Survives, [Next]_vars PROVE Survives'
    OBVIOUS
  <2>1. (Sendable' <=> Sendable) /\ (Kept' <=> Kept)
    BY ScenarioStays DEF Sendable, Kept, repaired
  <2>2. Kept /\ Sendable => panics' = panics
    BY StepSurvives
  <2> QED
    BY <2>1, <2>2 DEF NodesSurvive
<1> QED
  BY <1>1, <1>2, InductiveInvariant, PTL DEF Spec

-----------------------------------------------------------------------------
\* Leases

\* A server whose term rises is the one that takes the step.
LEMMA TermRises ==
    ASSUME TypeOK, NEW r \in Server, NEW n \in Nodes, NEW made, NEW out, NEW failed,
           Do(r, n, made, out, failed), NEW s \in Server, node'[s].term > node[s].term
    PROVE  s = r /\ n.term = node'[s].term /\ n.vote = node'[s].vote
<1>1. node \in [Server -> Nodes] /\ \A p \in Server : node[p].term \in Nat
  BY NodeFields DEF TypeOK
<1>2. Saved(n).term = n.term /\ Saved(n).vote = n.vote
  BY SavedFields
<1>3. CASE node' = [node EXCEPT ![r] = Saved(n)]
  BY <1>1, <1>2, <1>3
<1>4. CASE node' = [node EXCEPT ![r].state = "Dead"]
  <2>1. node'[s].term = node[s].term
    BY <1>1, <1>4 DEF Nodes
  <2> QED
    BY <1>1, <2>1
<1> QED
  BY <1>3, <1>4 DEF Do

\* Server s heard from its leader, and the lease is on.
Leased(s) ==
    /\ "check_quorum" \in config /\ "in_lease" \in repaired
    /\ node[s].state = "Follower" /\ node[s].leader_id # None /\ node[s].recent

\* Does s take part in the election of a later term?
Joins(s) == node'[s].term > node[s].term /\ node'[s].vote # None

\* Server s is a follower that heard from its leader, so it neither campaigns nor does what
\* leaders do.
LEMMA OwnLease ==
    ASSUME TypeOK, NEW r \in Server, NEW s \in Server, Leased(s), Joins(s),
           \/ Beat(r) \/ PersistEntries(r) \/ LeaseExpires(r) \/ ElectionTimeout(r)
           \/ CheckQuorum(r) \/ Restart(r) \/ \E p \in Server : TransferLeader(r, p)
    PROVE  FALSE
<1>1. node \in [Server -> Nodes] /\ node[r] \in Nodes /\ node[s].term \in Nat
  BY NodeFields DEF TypeOK
<1>2. \/ \E n : node' = [node EXCEPT ![r] = n]
      \/ node' = [node EXCEPT ![r].state = "Dead"]
  BY DEF Beat, PersistEntries, LeaseExpires, ElectionTimeout, CheckQuorum, Restart, TransferLeader,
         Hup, Do
<1>3. s = r
  <2>1. s # r => node'[s] = node[s]
    BY <1>1, <1>2
  <2> QED
    BY <1>1, <2>1 DEF Joins
<1>4. CASE LeaseExpires(r)
  <2> DEFINE n == [node[r] EXCEPT !.recent = FALSE]
  <2>1. n \in Nodes /\ n.term = node[r].term
    BY <1>1 DEF Nodes
  <2>2. Do(r, n, {}, {}, {})
    BY <1>4 DEF LeaseExpires
  <2> HIDE DEF n
  <2>3. node'[s].term = node[s].term
    BY <1>3, <2>1, <2>2, TermRises DEF Joins
  <2> QED
    BY <1>1, <2>3 DEF Joins
<1>5. CASE Restart(r)
  <2>1. node'[s].term = node[s].term
    BY <1>1, <1>3, <1>5 DEF Restart, NewNode
  <2> QED
    BY <1>1, <2>1 DEF Joins
<1> QED
  BY <1>3, <1>4, <1>5 DEF Beat, PersistEntries, ElectionTimeout, CheckQuorum, TransferLeader, Leased

\* In its lease a server looks at no request for votes of a later term, but for a transfer.
LEMMA VoteInLease ==
    ASSUME TypeOK, NEW s \in Server, NEW r \in Server, NEW m \in msgs, ReceiveVote(r, m),
           Leased(s), Joins(s)
    PROVE  m.type = "Vote" /\ m.transfer
<1> DEFINE o == node[r]
           a == AtTerm(o, m)
           v == [a EXCEPT !.recent = TRUE, !.vote = m.from]
<1>1. /\ m \in Messages /\ o \in Nodes /\ m.term >= o.term /\ m.from \in Peer
      /\ m.type \in {"Vote", "PreVote"} /\ m \in VoteRequests
      /\ node[s].term \in Nat /\ o.term \in Nat /\ m.term \in Nat /\ m.commit \in Nat
  BY MessageFields, NodeFields DEF TypeOK, ReceiveVote, Receives, Peer, VoteRequests
<1>2. a \in Nodes /\ a.term \in Nat
  BY <1>1, AtTermFields, NodeFields
<1>3. v \in Nodes /\ v.term = a.term
  BY <1>1, <1>2 DEF Nodes
<1>4. \A c \in MaybeCommitByVote(a, m) : c \in Nodes /\ c.term = a.term
  <2> DEFINE d == [a EXCEPT !.committed = m.commit]
  <2>1. d \in Nodes /\ d.term = a.term
    BY <1>1, <1>2 DEF Nodes
  <2> HIDE DEF a, d
  <2>2. BecomeFollower(d, d.term, None) \in Nodes /\ BecomeFollower(d, d.term, None).term = a.term
    BY <1>2, <2>1, FollowerFields DEF Peer
  <2>3. MaybeCommitByVote(a, m) \subseteq {a, d, BecomeFollower(d, d.term, None)}
    BY DEF MaybeCommitByVote, d
  <2> QED
    BY <1>2, <2>1, <2>2, <2>3
<1>5. \/ \E out : Do(r, v, out, {}, {})
      \/ \E out : Do(r, a, out, {}, {})
      \/ \E c \in MaybeCommitByVote(a, m) : \E out : Do(r, c, out, {}, {})
  BY DEF ReceiveVote
<1>6. s = r /\ node'[s].term = a.term
  <2> HIDE DEF a, v
  <2> QED
    BY <1>2, <1>3, <1>4, <1>5, TermRises DEF Joins
<1>7. m.term > o.term /\ m.type = "Vote"
  <2>1. a # o
    BY <1>1, <1>6 DEF Joins
  <2> QED
    BY <1>1, <2>1 DEF AtTerm
<1>8. InLease(o)
  BY <1>6 DEF InLease, Leased
<1> QED
  BY <1>1, <1>7, <1>8 DEF ReceiveVote, IgnoredInLease

\* The other messages of a later term take the vote away.
LEMMA OtherInLease ==
    ASSUME TypeOK, NEW s \in Server, NEW r \in Server, NEW m \in msgs, Leased(s), Joins(s),
           \/ OldTerm(r, m) \/ ReceiveVoteResp(r, m) \/ ReceiveAppend(r, m)
           \/ ReceiveAppendResp(r, m) \/ ReceiveHeartbeat(r, m) \/ ReceiveHeartbeatResp(r, m)
    PROVE  FALSE
<1> DEFINE o == node[r]
           a == AtTerm(o, m)
<1>1. m \in Messages /\ o \in Nodes /\ node \in [Server -> Nodes] /\ node[s].term \in Nat
      /\ m.term \in Nat /\ o.term \in Nat
  BY MessageFields, NodeFields DEF TypeOK
<1>2. s = r
  <2>1. \/ \E n : node' = [node EXCEPT ![r] = n]
        \/ node' = [node EXCEPT ![r].state = "Dead"]
    BY DEF OldTerm, ReceiveVoteResp, ReceiveAppend, ReceiveAppendResp, ReceiveHeartbeat,
           ReceiveHeartbeatResp, Hup, Do
  <2>2. s # r => node'[s] = node[s]
    BY <1>1, <2>1
  <2> QED
    BY <1>1, <2>2 DEF Joins
<1>3. o.state = "Follower"
  BY <1>2 DEF Leased
<1>4. CASE OldTerm(r, m)
  <2>1. \E out : Do(r, o, out, {}, {})
    BY <1>4 DEF OldTerm
  <2>2. node'[s].term = node[s].term
    BY <1>1, <1>2, <2>1, TermRises DEF Joins
  <2> QED
    BY <1>1, <2>2 DEF Joins
<1>5. ASSUME m.term >= o.term
      PROVE  /\ a \in Nodes /\ a.state = "Follower"
             /\ a = o \/ a.vote = None
  BY <1>1, <1>3, <1>5, AtTermFields
<1>6. ASSUME NEW n \in Nodes, NEW out, NEW made, NEW failed, Do(r, n, made, out, failed),
             m.term >= o.term, n.vote = a.vote, n.term = a.term
      PROVE  FALSE
  <2>1. n.term = node'[s].term /\ n.vote = node'[s].vote
    BY <1>6, TermRises DEF Joins
  <2>2. n.term # o.term /\ n.vote # None
    BY <1>1, <1>2, <2>1 DEF Joins
  <2> QED
    BY <1>5, <1>6, <2>2
<1>7. CASE ReceiveVoteResp(r, m) \/ ReceiveAppendResp(r, m) \/ ReceiveHeartbeatResp(r, m)
  <2>1. m.term >= o.term
    BY <1>7 DEF ReceiveVoteResp, ReceiveAppendResp, ReceiveHeartbeatResp, Receives
  <2>2. a.state = "Follower" /\ a \in Nodes
    BY <1>5, <2>1
  <2>3. Do(r, a, {}, {}, {})
    BY <1>7, <2>2 DEF ReceiveVoteResp, ReceiveAppendResp, ReceiveHeartbeatResp
  <2> QED
    BY <1>6, <2>1, <2>2, <2>3
<1>8. CASE ReceiveAppend(r, m) \/ ReceiveHeartbeat(r, m)
  <2> DEFINE n == Follow(a, m)
             y == [n EXCEPT !.committed = IF m.commit > @ THEN m.commit ELSE @]
  <2>1. /\ m.term >= o.term /\ o.state # "Dead" /\ m.type \in {"App", "Heartbeat"}
        /\ m.type = "App" => m.log \in Seq(Nat)
        /\ m.commit \in Nat /\ m.from \in Peer
    BY <1>1, <1>3, <1>8, MessageFields
       DEF ReceiveAppend, ReceiveHeartbeat, Receives, Appends, Heartbeats, Peer
  <2>2. a \in Nodes /\ a.state = "Follower"
    BY <1>5, <2>1
  <2>3. n \in Nodes /\ n.vote = a.vote /\ n.term = a.term
    <3> HIDE DEF a
    <3>1. n = [a EXCEPT !.recent = TRUE, !.leader_id = m.from]
      BY <2>2 DEF Follow
    <3> QED
      BY <2>1, <2>2, <3>1 DEF Nodes
  <2>4. n.committed \in Nat
    BY <2>3, NodeFields
  <2> HIDE DEF n
  <2>5. y \in Nodes /\ y.vote = a.vote /\ y.term = a.term
    BY <2>1, <2>3, <2>4 DEF Nodes
  <2>6. \/ /\ m.type = "App"
           /\ \E k \in DOMAIN m.log : \E l \in Taken(n, SubSeq(m.log, 1, k)) : \E out :
                 Do(r, [n EXCEPT !.log = l,
                                 !.committed = Larger(n.committed, Smaller(m.commit, k))],
                    {}, out, {})
        \/ \E out : Do(r, n, {}, out, {})
        \/ \E out, failed : Do(r, y, {}, out, failed)
    BY <1>8 DEF ReceiveAppend, ReceiveHeartbeat, Receives, n
  <2>7. ASSUME m.type = "App", NEW k \in DOMAIN m.log, NEW l \in Taken(n, SubSeq(m.log, 1, k)),
               NEW x, x = [n EXCEPT !.log = l,
                                    !.committed = Larger(n.committed, Smaller(m.commit, k))]
        PROVE  x \in Nodes /\ x.vote = a.vote /\ x.term = a.term
    <3>1. k \in 0..Len(m.log) /\ k \in Nat
      BY <2>1, <2>7, LenProperties
    <3>2. SubSeq(m.log, 1, k) \in Seq(Nat)
      BY <2>1, <2>7, <3>1, Truncated
    <3>3. l \in Seq(Nat)
      BY <2>3, <2>7, <3>2, TakenFields
    <3>4. Larger(n.committed, Smaller(m.commit, k)) \in Nat
      BY <2>1, <2>4, <3>1 DEF Larger, Smaller
    <3> QED
      BY <2>3, <2>7, <3>3, <3>4 DEF Nodes
  <2> HIDE DEF y, a
  <2>8. CASE \E out : Do(r, n, {}, out, {})
    BY <1>6, <2>1, <2>3, <2>8
  <2>9. CASE \E out, failed : Do(r, y, {}, out, failed)
    BY <1>6, <2>1, <2>5, <2>9
  <2> QED
    BY <1>6, <2>1, <2>6, <2>7, <2>8, <2>9
<1> QED
  BY <1>4, <1>7, <1>8

\* Where leases are kept as they should be (or are not used), a server that heard from its
\* leader joins no election of a later term, but for a transfer: whatever requests, answers
\* and appends come, in any order (in_lease and Raft::step).
THEOREM LeaseStandsFirmHolds ==
    ASSUME \A x \in Scenarios : "check_quorum" \in x.config => "in_lease" \in x.repaired
    PROVE  Spec => LeaseStandsFirm
<1> DEFINE Stood == \A s \in Server :
                       /\ "check_quorum" \in config
                       /\ node[s].state = "Follower" /\ node[s].leader_id # None /\ node[s].recent
                       /\ node'[s].term > node[s].term /\ node'[s].vote # None
                       => \E m \in msgs \cup msgs' :
                             m.type = "TimeoutNow" \/ (m.type = "Vote" /\ m.transfer)
<1>1. TypeOK /\ [Next]_vars => Stood
  <2> SUFFICES ASSUME TypeOK, [Next]_vars, NEW s \in Server, "check_quorum" \in config,
                      node[s].state = "Follower", node[s].leader_id # None, node[s].recent,
                      Joins(s)
               PROVE  \E m \in msgs : m.type = "TimeoutNow" \/ (m.type = "Vote" /\ m.transfer)
    BY DEF Joins
  <2>1. Leased(s)
    BY DEF Leased, TypeOK, config, repaired
  <2>2. ASSUME NEW r \in Server,
               \/ Beat(r) \/ PersistEntries(r) \/ LeaseExpires(r) \/ ElectionTimeout(r)
               \/ CheckQuorum(r) \/ Restart(r) \/ \E p \in Server : TransferLeader(r, p)
        PROVE  FALSE
    BY <2>1, <2>2, OwnLease
  <2>3. ASSUME NEW m \in msgs,
               \/ OldTerm(m.to, m) \/ ReceiveVoteResp(m.to, m) \/ ReceiveAppend(m.to, m)
               \/ ReceiveAppendResp(m.to, m) \/ ReceiveHeartbeat(m.to, m)
               \/ ReceiveHeartbeatResp(m.to, m)
        PROVE  FALSE
    BY <2>1, <2>3, OtherInLease, MessageFields DEF TypeOK
  <2>4. ASSUME NEW m \in msgs, ReceiveVote(m.to, m)
        PROVE  m.type = "Vote" /\ m.transfer
    BY <2>1, <2>4, VoteInLease, MessageFields DEF TypeOK
  <2>5. ASSUME NEW m \in msgs, ReceiveTimeoutNow(m.to, m)
        PROVE  m.type = "TimeoutNow"
    BY <2>5 DEF ReceiveTimeoutNow, Receives
  <2>6. CASE UNCHANGED vars
    <3>1. node' = node /\ node[s].term \in Nat
      BY <2>6, NodeFields DEF vars, TypeOK
    <3> QED
      BY <3>1 DEF Joins
  <2> QED
    BY <2>2, <2>3, <2>4, <2>5, <2>6 DEF Next, Steady
<1>2. TypeOK /\ [Next]_vars => [Stood]_vars
  BY <1>1
<1> QED
  BY <1>2, TypesHold, PTL DEF Spec, LeaseStandsFirm
=============================================================================
