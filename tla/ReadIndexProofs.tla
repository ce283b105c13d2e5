-------------------------- MODULE ReadIndexProofs ---------------------------
(***************************************************************************)
(* Proofs about ReadIndex: IInv of module ReadIndexInv is inductive, so    *)
(* what a read is answered is current, for any number of servers, reads,   *)
(* terms and commits.  The first lemmas say what keeps a part of the       *)
(* invariant; those of the actions show that they keep to that.            *)
(***************************************************************************)
EXTENDS ReadIndexInv, SequenceTheorems, FiniteSetTheorems, TLAPS

-----------------------------------------------------------------------------
\* Quorums

\* A vote is won by more than half of the voters (MajorityConfig::vote_result with
\* majority); nobody has to win the vote of an empty half.
LEMMA WonByMajority ==
    ASSUME NEW V, IsFiniteSet(V), NEW yes, NEW missing
    PROVE  /\ Cardinality(V) \in Nat /\ Cardinality(V \cap yes) \in Nat
           /\ VoteResult(V, yes, missing) = "won"
                <=> V = {} \/ 2 * Cardinality(V \cap yes) > Cardinality(V)
<1>1. IsFiniteSet(V \cap yes) /\ IsFiniteSet(V \cap missing)
  BY FS_Intersection
<1>2. /\ Cardinality(V) \in Nat
      /\ Cardinality(V \cap yes) \in Nat
      /\ Cardinality(V \cap missing) \in Nat
  BY <1>1, FS_CardinalityType
<1>3. Cardinality(V \cap yes) >= Majority(Cardinality(V))
        <=> 2 * Cardinality(V \cap yes) > Cardinality(V)
  BY <1>2 DEF Majority
<1> QED
  BY <1>2, <1>3 DEF VoteResult

\* A joint vote is won when both halves are (JointConfig::vote_result).
LEMMA JointWon ==
    ASSUME NEW I, NEW O, NEW yes, NEW missing
    PROVE  JointVoteResult(I, O, yes, missing) = "won"
             <=> /\ VoteResult(I, yes, missing) = "won"
                 /\ VoteResult(O, yes, missing) = "won"
BY DEF JointVoteResult, BothHalves

\* Two sets that each hold more than half of the voters share one.
LEMMA MajoritiesMeet ==
    ASSUME NEW V, IsFiniteSet(V), NEW Q, NEW R,
           2 * Cardinality(V \cap Q) > Cardinality(V),
           2 * Cardinality(V \cap R) > Cardinality(V)
    PROVE  \E v \in V : v \in Q /\ v \in R
<1>1. IsFiniteSet(V \cap Q) /\ IsFiniteSet(V \cap R)
  BY FS_Intersection
<1>2. /\ Cardinality(V) \in Nat
      /\ Cardinality(V \cap Q) \in Nat
      /\ Cardinality(V \cap R) \in Nat
  BY <1>1, FS_CardinalityType
<1>3. Cardinality(V \cap Q) + Cardinality(V \cap R) > Cardinality(V)
  BY <1>2
<1>4. (V \cap Q) \cap (V \cap R) # {}
  BY <1>3, FS_MajoritiesIntersect
<1> QED
  BY <1>4

\* Whoever wins a vote of one half shares a voter with whoever else does, however
\* the other half and those who did not vote stand: the heart of election safety.
LEMMA WinnersMeet ==
    ASSUME NEW V, IsFiniteSet(V), V # {}, NEW O, NEW P,
           NEW Q, NEW R, NEW missing, NEW silent,
           JointVoteResult(V, O, Q, missing) = "won",
           JointVoteResult(V, P, R, silent) = "won"
    PROVE  \E v \in V : v \in Q /\ v \in R
<1>1. /\ VoteResult(V, Q, missing) = "won"
      /\ VoteResult(V, R, silent) = "won"
  BY JointWon
<1>2. /\ 2 * Cardinality(V \cap Q) > Cardinality(V)
      /\ 2 * Cardinality(V \cap R) > Cardinality(V)
  BY <1>1, WonByMajority
<1> QED
  BY <1>2, MajoritiesMeet

-----------------------------------------------------------------------------
\* Nodes

\* What a node has.
LEMMA NodeFields ==
    ASSUME NEW n \in Nodes
    PROVE  /\ n.term \in Nat /\ n.state \in {"Follower", "Leader"}
           /\ n.leader_id \in Server \cup {None} /\ n.committed \in Nat /\ n.current \in BOOLEAN
           /\ n.queue \in Seq(Read) /\ n.pending \in SUBSET Pending
           /\ Len(n.queue) \in Nat /\ DOMAIN n.queue = 1..Len(n.queue)
           /\ \A i \in DOMAIN n.queue : n.queue[i] \in Read
           /\ \A r \in n.pending : /\ r.ctx \in Read /\ r.from \in Server /\ r.index \in Nat
                                   /\ r.acks \in SUBSET Server
<1>1. n.queue \in Seq(Read) /\ n.pending \in SUBSET Pending
  BY DEF Nodes
<1>2. /\ Len(n.queue) \in Nat /\ DOMAIN n.queue = 1..Len(n.queue)
      /\ \A i \in DOMAIN n.queue : n.queue[i] \in Read
  BY <1>1, LenProperties, ElementOfSeq
<1> QED
  BY <1>1, <1>2 DEF Nodes, Pending

\* What a message has.
LEMMA MessageFields ==
    ASSUME NEW m \in Messages
    PROVE  /\ m.from \in Server /\ m.to \in Server /\ m.term \in Nat /\ m.ctx \in Read
           /\ m.type \in {"Heartbeat", "HeartbeatResp", "ReadIndex", "ReadIndexResp"}
           /\ m.type \in {"Heartbeat", "HeartbeatResp"} => m \in Beats
           /\ m.type = "ReadIndex" => m \in Requests
           /\ m.type = "ReadIndexResp" => m \in Responses /\ m.index \in Nat
BY DEF Messages, Beats, Requests, Responses

\* Two quorums share a server.
LEMMA QuorumsMeet ==
    ASSUME NEW Q \in SUBSET Server, NEW R \in SUBSET Server, IsQuorum(Q), IsQuorum(R)
    PROVE  \E p \in Server : p \in Q /\ p \in R
<1>1. IsFiniteSet(Server) /\ Server # {}
  BY ReadAssumption, FS_EmptySet
<1> QED
  BY <1>1, WinnersMeet DEF IsQuorum, HasQuorum

\* A quorum is not empty.
LEMMA QuorumHasOne ==
    ASSUME NEW Q \in SUBSET Server, IsQuorum(Q)
    PROVE  \E p \in Server : p \in Q
BY QuorumsMeet

\* What becomes of a node that follows: nothing that waits, and the term grows.
LEMMA FollowerFields ==
    ASSUME NEW n \in Nodes, NEW t \in Nat, NEW l \in Server \cup {None}, n.term <= t,
           NEW f, f = BecomeFollower(n, t, l)
    PROVE  /\ f \in Nodes /\ f.term = t /\ f.state = "Follower" /\ f.leader_id = l
           /\ f.committed = n.committed /\ f.queue = <<>> /\ f.pending = {}
           /\ n.term < t => ~f.current
<1>1. <<>> \in Seq(Read)
  BY EmptySeq
<1>2. /\ n.term \in Nat /\ n.state \in {"Follower", "Leader"} /\ n.committed \in Nat
      /\ n.queue \in Seq(Read) /\ n.pending \in SUBSET Pending
  BY NodeFields
<1>3. PICK c \in BOOLEAN : c = (n.current /\ n.term = t)
  BY DEF Nodes
<1>4. f = [n EXCEPT !.term = t, !.state = "Follower", !.leader_id = l,
                    !.current = c, !.queue = <<>>, !.pending = {}]
  BY <1>3, Zenon DEF BecomeFollower
<1>5. /\ f \in Nodes /\ f.term = t /\ f.state = "Follower" /\ f.leader_id = l
      /\ f.committed = n.committed /\ f.queue = <<>> /\ f.pending = {} /\ f.current = c
  BY <1>1, <1>4 DEF Nodes
<1>6. n.term < t => n.term # t
  BY <1>2
<1> QED
  BY <1>3, <1>5, <1>6

-----------------------------------------------------------------------------
\* What keeps the invariant

\* Terms do not fall.
Grow ==
    /\ node' \in [Server -> Nodes] /\ scenario' = scenario
    /\ \A q \in Server : node[q].term <= node'[q].term

\* Nobody is elected.
NoElection ==
    \A q \in Server : node'[q].state = "Leader" =>
        node[q].state = "Leader" /\ node'[q].term = node[q].term

\* Terms are numbers, before and after the step.
LEMMA GrowTerms ==
    ASSUME TypeOK, Grow
    PROVE  /\ option' = option /\ repeats' = repeats
           /\ \A q \in Server : /\ node[q] \in Nodes /\ node[q].term \in Nat
                                /\ node'[q] \in Nodes /\ node'[q].term \in Nat
                                /\ node[q].term <= node'[q].term
<1>1. \A q \in Server : node[q] \in Nodes /\ node'[q] \in Nodes
  BY DEF TypeOK, Grow
<1> QED
  BY <1>1, NodeFields DEF Grow, option, repeats

\* Leaders stay alone if nobody is elected.
LEMMA LeadersKept ==
    ASSUME TypeOK, LeadersOK, Grow, NoElection
    PROVE  LeadersOK'
<1>1. \A q \in Server : node[q].term \in Nat /\ node'[q].term \in Nat /\ node[q].term <= node'[q].term
  BY GrowTerms
<1>2. ASSUME NEW s \in Server, node'[s].state = "Leader"
      PROVE  \E Q \in SUBSET Server : IsQuorum(Q) /\ \A p \in Q : node'[p].term >= node'[s].term
  <2>1. node[s].state = "Leader" /\ node'[s].term = node[s].term
    BY <1>2 DEF NoElection
  <2>2. PICK Q \in SUBSET Server : IsQuorum(Q) /\ \A p \in Q : node[p].term >= node[s].term
    BY <2>1 DEF LeadersOK
  <2> QED
    BY <1>1, <2>1, <2>2
<1>3. ASSUME NEW s \in Server, NEW q \in Server, node'[s].state = "Leader",
             node'[q].state = "Leader", s # q
      PROVE  node'[s].term # node'[q].term
  BY <1>1, <1>3 DEF NoElection, LeadersOK
<1> QED
  BY <1>2, <1>3 DEF LeadersOK

\* Who lost a quorum does not get it back.
LEMMA DeposedKept ==
    ASSUME TypeOK, Grow, NEW s \in Server, NEW Q \in SUBSET Server, Deposed(s, Q),
           node'[s].term = node[s].term
    PROVE  Deposed(s, Q)'
<1>1. \A q \in Server : node[q].term \in Nat /\ node'[q].term \in Nat /\ node[q].term <= node'[q].term
  BY GrowTerms
<1> QED
  BY <1>1 DEF Deposed

\* Nothing is committed, and nobody that was not gets to be current.
LEMMA CurrentKept ==
    ASSUME TypeOK, CurrentOK, Grow, chosen' = chosen,
           \A q \in Server : MayRead(node'[q]) =>
               /\ MayRead(node[q]) /\ node'[q].term = node[q].term
               /\ node'[q].committed = node[q].committed
    PROVE  CurrentOK'
<1> SUFFICES ASSUME NEW s \in Server, MayRead(node'[s]), node'[s].committed < chosen'
             PROVE  \E Q \in SUBSET Server : Deposed(s, Q)'
  BY DEF CurrentOK
<1>1. MayRead(node[s]) /\ node'[s].term = node[s].term /\ node[s].committed < chosen
  OBVIOUS
<1>2. PICK Q \in SUBSET Server : Deposed(s, Q)
  BY <1>1 DEF CurrentOK
<1> QED
  BY <1>1, <1>2, DeposedKept

\* Is somebody at work on the read c, beyond forwarding it?
InUse(c) ==
    \/ \E q \in Server : \E r \in node[q].pending : r.ctx = c
    \/ \E m \in msgs : m.type # "ReadIndex" /\ m.ctx = c

\* No read is taken or forwarded.
NoNewRead ==
    /\ \A q \in Server : \A r \in node'[q].pending : \E o \in node[q].pending : o.ctx = r.ctx
    /\ \A m \in msgs' : m \in msgs \/ (m.type # "ReadIndex" /\ InUse(m.ctx))

\* What was asked for stays so.
AskedStays == \A c \in Read : asked[c] # None => asked'[c] = asked[c]

\* Without new reads none is in two places.
LEMMA FreshKept ==
    ASSUME TypeOK, TypeOK', FreshOK, Grow, NoNewRead, AskedStays
    PROVE  FreshOK'
<1> SUFFICES ASSUME ~repeats
             PROVE  /\ \A c \in Read : asked'[c] = None => Unused(c, {})'
                    /\ \A m \in msgs' : m.type = "ReadIndex" => Unused(m.ctx, {m})'
  BY GrowTerms DEF FreshOK
<1>1. ASSUME NEW c \in Read, asked'[c] = None
      PROVE  Unused(c, {})'
  <2>1. asked[c] = None
    BY <1>1 DEF AskedStays
  <2>2. Unused(c, {})
    BY <2>1 DEF FreshOK
  <2>3. ~InUse(c)
    BY <2>2 DEF Unused, InUse
  <2> QED
    BY <2>2, <2>3 DEF Unused, NoNewRead
<1>2. ASSUME NEW m \in msgs', m.type = "ReadIndex"
      PROVE  Unused(m.ctx, {m})'
  <2>1. m \in msgs
    BY <1>2 DEF NoNewRead
  <2>2. Unused(m.ctx, {m})
    BY <1>2, <2>1 DEF FreshOK
  <2>3. ~InUse(m.ctx)
    BY <1>2, <2>2 DEF Unused, InUse
  <2> QED
    BY <2>2, <2>3 DEF Unused, NoNewRead
<1> QED
  BY <1>1, <1>2

\* q's reads are those it had, but for some at the front of its queue, with
\* acknowledgements that have come.
Waits(q) ==
    /\ node'[q].term = node[q].term
    /\ \E k \in Nat :
          /\ k <= Len(node[q].queue) /\ Len(node'[q].queue) = Len(node[q].queue) - k
          /\ \A i \in 1..Len(node'[q].queue) : node'[q].queue[i] = node[q].queue[i + k]
    /\ \A r \in node'[q].pending : \E o \in node[q].pending :
          /\ o.ctx = r.ctx /\ o.index = r.index
          /\ \A p \in r.acks : \/ p \in o.acks
                               \/ \E m \in msgs : /\ m.type = "HeartbeatResp" /\ m.from = p
                                                  /\ m.to = q /\ m.term = node[q].term
                                                  /\ m.ctx = r.ctx

\* Nobody acknowledges for a term that it has left.
AcksInTerm ==
    \A m \in msgs' : m.type = "HeartbeatResp" =>
        m \in msgs \/ m.term >= node[m.from].term

\* Whose term is later stays silent.
LEMMA SilentKept ==
    ASSUME TypeOK, Grow, AcksInTerm, NEW s \in Server, Waits(s),
           NEW p \in Server, node[p].term > node[s].term, NEW c, Silent(p, s, c)
    PROVE  Silent(p, s, c)'
<1>1. node'[s].term = node[s].term /\ node[s].term \in Nat /\ node[p].term \in Nat
  BY GrowTerms DEF Waits
<1>2. p \notin Acks(node'[s], c)
  <2>1. SUFFICES ASSUME NEW r \in node'[s].pending, r.ctx = c, p \in r.acks
                 PROVE  FALSE
    BY DEF Acks
  <2>2. PICK o \in node[s].pending :
          /\ o.ctx = r.ctx
          /\ \A x \in r.acks : \/ x \in o.acks
                               \/ \E m \in msgs : /\ m.type = "HeartbeatResp" /\ m.from = x
                                                  /\ m.to = s /\ m.term = node[s].term
                                                  /\ m.ctx = r.ctx
    BY DEF Waits
  <2>3. p \notin o.acks
    BY <2>1, <2>2 DEF Silent, Acks
  <2> QED
    BY <2>1, <2>2, <2>3 DEF Silent
<1>3. ASSUME NEW m \in msgs', m.type = "HeartbeatResp", m.from = p, m.to = s,
             m.term = node'[s].term, m.ctx = c
      PROVE  FALSE
  <2>1. m \in msgs
    BY <1>1, <1>3 DEF AcksInTerm
  <2> QED
    BY <1>1, <1>3, <2>1 DEF Silent
<1> QED
  BY <1>2, <1>3 DEF Silent

\* The quorum that a late read has lost is lost to it and to those behind it.
LEMMA LateKept ==
    ASSUME TypeOK, TypeOK', LateOK, AnswersOK, Grow, AcksInTerm, AskedStays,
           \A q \in Server : node'[q].pending = {} \/ Waits(q)
    PROVE  LateOK'
<1> SUFFICES ASSUME ~repeats, NEW s \in Server, NEW r \in node'[s].pending,
                    NEW i \in DOMAIN node'[s].queue, node'[s].queue[i] = r.ctx,
                    r.index < asked'[r.ctx]
             PROVE  \E Q \in SUBSET Server :
                        /\ Deposed(s, Q)'
                        /\ \A p \in Q : \A j \in i..Len(node'[s].queue) :
                              Silent(p, s, node[s].queue[j])'
  BY GrowTerms DEF LateOK
<1>1. Waits(s)
  OBVIOUS
<1>2. PICK o \in node[s].pending : o.ctx = r.ctx /\ o.index = r.index
  BY <1>1 DEF Waits
<1>3. PICK k \in Nat : /\ k <= Len(node[s].queue)
                       /\ Len(node'[s].queue) = Len(node[s].queue) - k
                       /\ \A j \in 1..Len(node'[s].queue) : node'[s].queue[j] = node[s].queue[j + k]
  BY <1>1 DEF Waits
<1>4. node[s] \in Nodes /\ node'[s] \in Nodes
  BY GrowTerms
<1>5. /\ DOMAIN node[s].queue = 1..Len(node[s].queue) /\ Len(node[s].queue) \in Nat
      /\ DOMAIN node'[s].queue = 1..Len(node'[s].queue) /\ Len(node'[s].queue) \in Nat
      /\ o.ctx \in Read
  BY <1>2, <1>4, NodeFields
<1>6. asked'[r.ctx] = asked[o.ctx]
  BY <1>2, <1>5 DEF AnswersOK, AskedStays
<1>7. i + k \in DOMAIN node[s].queue /\ node[s].queue[i + k] = o.ctx
  BY <1>2, <1>3, <1>5, SMTT(20)
<1>8. PICK Q \in SUBSET Server :
         /\ Deposed(s, Q)
         /\ \A p \in Q : \A j \in (i + k)..Len(node[s].queue) : Silent(p, s, node[s].queue[j])
  BY <1>2, <1>6, <1>7 DEF LateOK
<1>9. Deposed(s, Q)'
  BY <1>1, <1>8, DeposedKept DEF Waits
<1>10. ASSUME NEW p \in Q, NEW j \in i..Len(node'[s].queue)
       PROVE  Silent(p, s, node[s].queue[j])'
  <2>1. j + k \in (i + k)..Len(node[s].queue) /\ node'[s].queue[j] = node[s].queue[j + k]
    BY <1>3, <1>5
  <2>2. PICK c : c = node'[s].queue[j]
    OBVIOUS
  <2>3. Silent(p, s, c)
    BY <1>8, <2>1, <2>2
  <2>4. Silent(p, s, c)'
    BY <1>1, <1>8, <2>3, SilentKept DEF Deposed
  <2> QED
    BY <2>2, <2>4 DEF Silent
<1> QED
  BY <1>9, <1>10

\* One node's queue is about the reads that it has pending, and only a leader has some.
QueueOf(n) ==
    /\ ToSet(n.queue) = {r.ctx : r \in n.pending}
    /\ IsInjective(n.queue)
    /\ n.state # "Leader" => n.queue = <<>> /\ n.pending = {}

\* Who follows has an empty queue.
LEMMA EmptyQueue ==
    ASSUME NEW n, n.queue = <<>>, n.pending = {}
    PROVE  QueueOf(n)
BY DEF QueueOf, ToSet, IsInjective

\* A step of one node: the others stay, and so does what was committed.
LEMMA DoFields ==
    ASSUME TypeOK, NEW s \in Server, NEW n \in Nodes, node[s].term <= n.term,
           NEW gone, NEW out \in SUBSET Messages, NEW answered \in SUBSET (Read \X Nat),
           Do(s, n, gone, out, answered), asked' \in [Read -> Nat \cup {None}]
    PROVE  /\ TypeOK' /\ Grow /\ chosen' = chosen
           /\ \A q \in Server : node'[q] = IF q = s THEN n ELSE node[q]
           /\ \A m \in msgs' : m \in msgs \/ m \in out
           /\ \A a \in answers' : a \in answers \/ a \in answered
<1>1. /\ scenario' = scenario /\ chosen' = chosen
      /\ node' = [node EXCEPT ![s] = n]
      /\ msgs' = (msgs \ gone) \cup out /\ answers' = answers \cup answered
  BY DEF Do
<1>2. node \in [Server -> Nodes]
  BY DEF TypeOK
<1>3. node' \in [Server -> Nodes] /\ \A q \in Server : node'[q] = IF q = s THEN n ELSE node[q]
  BY <1>1, <1>2
<1>4. \A q \in Server : node[q].term \in Nat
  BY <1>2, NodeFields
<1>5. TypeOK'
  BY <1>1, <1>3 DEF TypeOK
<1>6. Grow
  <2>1. \A q \in Server : node[q].term <= node'[q].term
    BY <1>3, <1>4
  <2> QED
    BY <1>1, <1>3, <2>1 DEF Grow
<1> QED
  BY <1>1, <1>3, <1>5, <1>6

\* A node that goes on to lead does so in its term, and has what it had committed.
GoesOn(s, n) ==
    n.state = "Leader" => /\ node[s].state = "Leader" /\ n.term = node[s].term
                          /\ n.committed = node[s].committed /\ n.current = node[s].current

\* Who leads stays alone, and current, when a node goes on or falls back.
LEMMA DoLeaders ==
    ASSUME IInv, TypeOK', NEW s \in Server, NEW n \in Nodes, GoesOn(s, n), Grow,
           chosen' = chosen, \A q \in Server : node'[q] = IF q = s THEN n ELSE node[q]
    PROVE  LeadersOK' /\ CurrentOK'
<1>1. NoElection
  BY DEF NoElection, GoesOn
<1>2. \A q \in Server : MayRead(node'[q]) =>
          /\ MayRead(node[q]) /\ node'[q].term = node[q].term
          /\ node'[q].committed = node[q].committed
  BY DEF MayRead, GoesOn
<1> QED
  BY <1>1, <1>2, LeadersKept, CurrentKept DEF IInv

\* The queues and the bounds are kept with those of the node.
LEMMA DoQueues ==
    ASSUME IInv, TypeOK', NEW s \in Server, NEW n \in Nodes, QueueOf(n),
           n.committed <= chosen, \A r \in n.pending : r.index <= chosen,
           chosen' = chosen, \A q \in Server : node'[q] = IF q = s THEN n ELSE node[q],
           \A c \in Read : asked'[c] # None => asked'[c] = asked[c] \/ asked'[c] = chosen,
           \A m \in msgs' : m.type = "ReadIndexResp" => m \in msgs \/ m.index <= chosen
    PROVE  Bounded' /\ QueuesOK'
<1>1. chosen \in Nat
  BY DEF IInv, TypeOK
<1>2. Bounded'
  BY <1>1 DEF IInv, Bounded
<1>3. \A q \in Server : QueueOf(node'[q])
  BY DEF IInv, QueuesOK, QueueIsPending, QueueOf
<1>4. QueuesOK'
  BY <1>3 DEF QueuesOK, QueueIsPending, QueueOf
<1> QED
  BY <1>2, <1>4

\* A step of one node that takes no read.
LEMMA DoStep ==
    ASSUME IInv, NEW s \in Server, NEW n \in Nodes, node[s].term <= n.term,
           NEW gone, NEW out \in SUBSET Messages, NEW answered \in SUBSET (Read \X Nat),
           Do(s, n, gone, out, answered), UNCHANGED asked,
           GoesOn(s, n), QueueOf(n), n.committed <= chosen,
           n.pending = {} \/ (node'[s] = n => Waits(s)),
           \A m \in out :
              /\ m.type # "ReadIndex" /\ InUse(m.ctx)
              /\ m.type = "HeartbeatResp" => m.term >= node[m.from].term
              /\ m.type = "ReadIndexResp" =>
                    /\ m.index <= chosen
                    /\ option = "Safe" /\ ~repeats => m.index >= asked[m.ctx],
           \A a \in answered : InUse(a[1]) /\ (option = "Safe" /\ ~repeats => a[2] >= asked[a[1]])
    PROVE  IInv'
<1>1. /\ TypeOK' /\ Grow /\ chosen' = chosen /\ asked' = asked
      /\ \A q \in Server : node'[q] = IF q = s THEN n ELSE node[q]
      /\ \A m \in msgs' : m \in msgs \/ m \in out
      /\ \A a \in answers' : a \in answers \/ a \in answered
  BY DoFields DEF IInv, TypeOK
<1>2. \A q \in Server : node'[q].pending = {} \/ Waits(q)
  <2>1. ASSUME NEW q \in Server, q # s
        PROVE  Waits(q)
    <3>1. node'[q] = node[q] /\ node[q] \in Nodes
      BY <1>1, <2>1 DEF IInv, TypeOK
    <3>2. Len(node[q].queue) \in Nat
      BY <3>1, NodeFields
    <3>3. /\ Len(node'[q].queue) = Len(node[q].queue) - 0
          /\ \A i \in 1..Len(node'[q].queue) : node'[q].queue[i] = node[q].queue[i + 0]
      BY <3>1, <3>2
    <3> QED
      BY <3>1, <3>2, <3>3 DEF Waits
  <2>2. node'[s].pending = {} \/ Waits(s)
    BY <1>1
  <2> QED
    BY <2>1, <2>2
<1>3. \A q \in Server : \A r \in node'[q].pending :
          \E o \in node[q].pending : o.ctx = r.ctx /\ o.index = r.index
  BY <1>2 DEF Waits
<1>4. NoNewRead
  BY <1>1, <1>3 DEF NoNewRead
<1>5. \A c : InUse(c) => asked[c] # None
  BY DEF IInv, AnswersOK, InUse
<1>6. LeadersOK' /\ CurrentOK'
  BY <1>1, DoLeaders
<1>7. \A r \in n.pending : r.index <= chosen
  <2>1. node'[s] = n
    BY <1>1
  <2> QED
    BY <1>3, <2>1 DEF IInv, Bounded
<1>8. Bounded' /\ QueuesOK'
  BY <1>1, <1>7, DoQueues
<1>9. AskedStays
  BY <1>1 DEF AskedStays
<1>10. FreshOK'
  BY <1>1, <1>4, <1>9, FreshKept DEF IInv
<1>11. AcksInTerm
  BY <1>1 DEF AcksInTerm
<1>12. LateOK'
  BY <1>1, <1>2, <1>9, <1>11, LateKept DEF IInv
<1>13. AnswersOK'
  <2>1. repeats' = repeats /\ option' = option
    BY <1>1, GrowTerms DEF IInv
  <2>2. \A q \in Server : \A r \in node'[q].pending : asked'[r.ctx] # None
    BY <1>1, <1>3 DEF IInv, AnswersOK
  <2>3. \A m \in msgs' : asked'[m.ctx] # None
    BY <1>1, <1>5 DEF IInv, AnswersOK
  <2>4. \A a \in answers' : asked'[a[1]] # None
    BY <1>1, <1>5 DEF IInv, AnswersOK
  <2>5. option' = "Safe" /\ ~repeats' =>
            \A m \in msgs' : m.type = "ReadIndexResp" => m.index >= asked'[m.ctx]
    BY <1>1, <2>1 DEF IInv, AnswersOK
  <2>6. ReadsAreCurrent'
    BY <1>1, <2>1 DEF IInv, AnswersOK, ReadsAreCurrent, AnswersAreCurrent
  <2> QED
    BY <2>2, <2>3, <2>4, <2>5, <2>6 DEF AnswersOK
<1> QED
  BY <1>1, <1>6, <1>8, <1>10, <1>12, <1>13 DEF IInv

-----------------------------------------------------------------------------
\* Heartbeats and answers

\* Reads wait on while their leader's term and queue stay.
LEMMA SameWaits ==
    ASSUME TypeOK, NEW s \in Server, node'[s].term = node[s].term,
           node'[s].queue = node[s].queue, node'[s].pending = node[s].pending
    PROVE  Waits(s)
<1>1. Len(node[s].queue) \in Nat
  BY NodeFields DEF TypeOK
<1>2. /\ Len(node'[s].queue) = Len(node[s].queue) - 0
      /\ \A i \in 1..Len(node'[s].queue) : node'[s].queue[i] = node[s].queue[i + 0]
  BY <1>1
<1> QED
  BY <1>1, <1>2 DEF Waits

\* The invariant says this of a node.
LEMMA NodeOK ==
    ASSUME IInv, NEW s \in Server
    PROVE  /\ node[s] \in Nodes /\ QueueOf(node[s]) /\ node[s].committed <= chosen
           /\ chosen \in Nat /\ node[s].term \in Nat
           /\ \A r \in node[s].pending : r.index <= chosen /\ asked[r.ctx] # None
<1>1. node[s] \in Nodes /\ chosen \in Nat
  BY DEF IInv, TypeOK
<1> QED
  BY <1>1, NodeFields DEF IInv, QueuesOK, QueueIsPending, QueueOf, Bounded, AnswersOK

\* What a node is after it has seen the term of a message.
LEMMA AtTermFields ==
    ASSUME IInv, NEW s \in Server, NEW t \in Nat, NEW l \in Server \cup {None},
           node[s].term <= t, NEW n, n = AtTerm(node[s], t, l)
    PROVE  /\ n \in Nodes /\ QueueOf(n) /\ GoesOn(s, n) /\ n.term = t
           /\ n.committed = node[s].committed
           /\ \/ n.pending = {}
              \/ n.pending = node[s].pending /\ n.queue = node[s].queue /\ n.term = node[s].term
<1>1. node[s] \in Nodes /\ node[s].term \in Nat /\ QueueOf(node[s])
  BY NodeOK
<1>2. CASE t > node[s].term
  <2>1. n = BecomeFollower(node[s], t, l)
    BY <1>2 DEF AtTerm
  <2>2. /\ n \in Nodes /\ n.term = t /\ n.state = "Follower" /\ n.committed = node[s].committed
        /\ n.queue = <<>> /\ n.pending = {}
    BY <1>1, <2>1, FollowerFields
  <2> QED
    BY <2>2, EmptyQueue DEF GoesOn
<1>3. CASE t = node[s].term
  <2>1. n = node[s]
    BY <1>1, <1>3 DEF AtTerm
  <2> QED
    BY <1>1, <1>3, <2>1 DEF GoesOn
<1> QED
  BY <1>1, <1>2, <1>3

\* A leader steps down.
LEMMA StepDownStep ==
    ASSUME IInv, NEW s \in Server, StepDown(s)
    PROVE  IInv'
<1>1. node[s] \in Nodes /\ node[s].term \in Nat /\ node[s].committed <= chosen
  BY NodeOK
<1>2. PICK n : n = BecomeFollower(node[s], node[s].term, None)
  OBVIOUS
<1>3. /\ n \in Nodes /\ n.term = node[s].term /\ n.state = "Follower"
      /\ n.committed = node[s].committed /\ n.queue = <<>> /\ n.pending = {}
  BY <1>1, <1>2, FollowerFields
<1>4. Do(s, n, {}, {}, {}) /\ UNCHANGED asked
  BY <1>2 DEF StepDown, Do
<1>5. QueueOf(n) /\ GoesOn(s, n)
  BY <1>3, EmptyQueue DEF GoesOn
<1>6. node[s].term <= n.term
  BY <1>1, <1>3
<1> QED
  BY <1>1, <1>3, <1>4, <1>5, <1>6, DoStep

\* A leader asks for acknowledgements of the last read that waits.
LEMMA BeatStep ==
    ASSUME IInv, NEW s \in Server, Beat(s)
    PROVE  IInv'
<1> DEFINE n == node[s]
           c == Last(n.queue)
           out == Heartbeats(s, c)
<1>1. n \in Nodes /\ QueueOf(n) /\ n.term \in Nat /\ n.committed <= chosen /\ TypeOK
  BY NodeOK DEF IInv
<1>2. Len(n.queue) \in Nat /\ DOMAIN n.queue = 1..Len(n.queue) /\ n.queue \in Seq(Read)
  BY <1>1, NodeFields
<1>3. Len(n.queue) \in DOMAIN n.queue
  BY <1>2, EmptySeq DEF Beat
<1>4. c \in Read /\ InUse(c)
  <2>1. c = n.queue[Len(n.queue)] /\ c \in ToSet(n.queue)
    BY <1>3 DEF Last, ToSet
  <2>2. c \in Read
    BY <1>1, <1>3, <2>1, NodeFields
  <2>3. \E r \in n.pending : r.ctx = c
    BY <1>1, <2>1 DEF QueueOf
  <2> QED
    BY <2>2, <2>3 DEF InUse
<1>5. out \in SUBSET Messages
  BY <1>1, <1>4 DEF Heartbeats, Messages, Beats
<1>6. Do(s, n, {}, out, {}) /\ UNCHANGED asked
  BY DEF Beat
<1>7. \A m \in out : m.type = "Heartbeat" /\ m.ctx = c
  BY DEF Heartbeats
<1>8. GoesOn(s, n) /\ node[s].term <= n.term
  BY <1>1 DEF GoesOn
<1>9. node'[s] = n => Waits(s)
  BY <1>1, SameWaits
<1> HIDE DEF n, c, out
<1>10. \A m \in out :
          /\ m.type # "ReadIndex" /\ InUse(m.ctx)
          /\ m.type = "HeartbeatResp" => m.term >= node[m.from].term
          /\ m.type = "ReadIndexResp" =>
                /\ m.index <= chosen
                /\ option = "Safe" /\ ~repeats => m.index >= asked[m.ctx]
  BY <1>4, <1>7
<1> QED
  BY <1>1, <1>5, <1>6, <1>8, <1>9, <1>10, DoStep

\* A follower acknowledges.
LEMMA HeartbeatStep ==
    ASSUME IInv, NEW m \in msgs, ReceiveHeartbeat(m)
    PROVE  IInv'
<1> DEFINE s == m.to
<1>1. PICK a : a = AtTerm(node[s], m.term, m.from)
  OBVIOUS
<1>2. PICK n : n = [a EXCEPT !.leader_id = m.from]
  OBVIOUS
<1>3. PICK r : r = [type |-> "HeartbeatResp", from |-> s, to |-> m.from, term |-> a.term,
                    ctx |-> m.ctx]
  OBVIOUS
<1>4. /\ TypeOK /\ m \in Messages /\ s \in Server /\ m.from \in Server /\ m.term \in Nat
      /\ m.ctx \in Read /\ m.type = "Heartbeat" /\ m.term >= node[s].term
  BY MessageFields DEF IInv, TypeOK, ReceiveHeartbeat
<1>5. node[s] \in Nodes /\ node[s].term \in Nat /\ node[s].committed <= chosen
  BY <1>4, NodeOK
<1>6. Do(s, n, {}, {r}, {}) /\ UNCHANGED asked
  BY <1>1, <1>2, <1>3 DEF ReceiveHeartbeat
<1> HIDE DEF s
<1>7. /\ a \in Nodes /\ QueueOf(a) /\ GoesOn(s, a) /\ a.term = m.term
      /\ a.committed = node[s].committed
      /\ \/ a.pending = {}
         \/ a.pending = node[s].pending /\ a.queue = node[s].queue /\ a.term = node[s].term
  BY <1>1, <1>4, <1>5, AtTermFields
<1>8. /\ n \in Nodes /\ n.term = a.term /\ n.queue = a.queue /\ n.pending = a.pending
      /\ n.state = a.state /\ n.committed = a.committed /\ n.current = a.current
  BY <1>2, <1>4, <1>7 DEF Nodes
<1>9. QueueOf(n) /\ GoesOn(s, n)
  BY <1>7, <1>8 DEF QueueOf, GoesOn
<1>10. n.pending = {} \/ (node'[s] = n => Waits(s))
  BY <1>4, <1>7, <1>8, SameWaits
<1>11. r \in Messages /\ InUse(r.ctx) /\ r.type = "HeartbeatResp" /\ r.term >= node[r.from].term
  BY <1>3, <1>4, <1>7 DEF Messages, Beats, InUse
<1> QED
  BY <1>4, <1>5, <1>6, <1>7, <1>8, <1>9, <1>10, <1>11, DoStep

\* A follower gets the answer to a read.
LEMMA ReadIndexRespStep ==
    ASSUME IInv, NEW m \in msgs, ReceiveReadIndexResp(m)
    PROVE  IInv'
<1> DEFINE s == m.to
<1>1. PICK a : a = AtTerm(node[s], m.term, None)
  OBVIOUS
<1>2. PICK c \in {a.committed, m.index} :
         Do(s, [a EXCEPT !.committed = c], {}, {}, {<<m.ctx, m.index>>})
  BY <1>1 DEF ReceiveReadIndexResp
<1>3. PICK n : n = [a EXCEPT !.committed = c]
  OBVIOUS
<1>4. /\ TypeOK /\ m \in Messages /\ s \in Server /\ m.term \in Nat /\ m.index \in Nat
      /\ m.ctx \in Read /\ m.type = "ReadIndexResp" /\ m.term >= node[s].term
      /\ a.state = "Follower" /\ UNCHANGED asked
  BY <1>1, MessageFields DEF IInv, TypeOK, ReceiveReadIndexResp
<1>5. node[s] \in Nodes /\ node[s].term \in Nat /\ node[s].committed <= chosen
  BY <1>4, NodeOK
<1>6. m.index <= chosen /\ (option = "Safe" /\ ~repeats => m.index >= asked[m.ctx]) /\ InUse(m.ctx)
  BY <1>4 DEF IInv, Bounded, AnswersOK, InUse
<1> HIDE DEF s
<1>7. /\ a \in Nodes /\ QueueOf(a) /\ a.term = m.term /\ a.committed = node[s].committed
      /\ \/ a.pending = {}
         \/ a.pending = node[s].pending /\ a.queue = node[s].queue /\ a.term = node[s].term
  BY <1>1, <1>4, <1>5, AtTermFields
<1>8. /\ n \in Nodes /\ n.term = a.term /\ n.queue = a.queue /\ n.pending = a.pending
      /\ n.state = "Follower" /\ n.committed = c /\ c \in Nat /\ c <= chosen
  BY <1>2, <1>3, <1>4, <1>5, <1>6, <1>7 DEF Nodes
<1>9. QueueOf(n) /\ GoesOn(s, n)
  BY <1>4, <1>7, <1>8 DEF QueueOf, GoesOn
<1>10. n.pending = {} \/ (node'[s] = n => Waits(s))
  BY <1>4, <1>7, <1>8, SameWaits
<1>11. Do(s, n, {}, {}, {<<m.ctx, m.index>>}) /\ <<m.ctx, m.index>> \in Read \X Nat
  BY <1>2, <1>3, <1>4
<1>12. node[s].term <= n.term
  BY <1>4, <1>7, <1>8
<1> QED
  BY <1>4, <1>6, <1>8, <1>9, <1>10, <1>11, <1>12, DoStep

-----------------------------------------------------------------------------
\* Acknowledgements

\* An acknowledgement is noted with the read that it is for, and changes nothing else.
LEMMA RecvAckFields ==
    ASSUME NEW n \in Nodes, QueueOf(n), NEW p \in Server, NEW c, NEW a, a = RecvAck(n, p, c)
    PROVE  /\ a \in Nodes /\ QueueOf(a) /\ a.queue = n.queue /\ a.term = n.term
           /\ a.state = n.state /\ a.committed = n.committed /\ a.current = n.current
           /\ \A r \in a.pending : \E o \in n.pending :
                 /\ o.ctx = r.ctx /\ o.index = r.index /\ o.from = r.from
                 /\ \A q \in r.acks : q \in o.acks \/ (q = p /\ r.ctx = c)
<1> DEFINE Noted(o) == IF o.ctx = c THEN [o EXCEPT !.acks = @ \cup {p}] ELSE o
           ps == {Noted(o) : o \in n.pending}
<1>1. n.pending \in SUBSET Pending
  BY NodeFields
<1>2. ASSUME NEW o \in n.pending
      PROVE  /\ Noted(o) \in Pending
             /\ Noted(o).ctx = o.ctx /\ Noted(o).index = o.index /\ Noted(o).from = o.from
             /\ \A q \in Noted(o).acks : q \in o.acks \/ (q = p /\ o.ctx = c)
  BY <1>1 DEF Pending
<1> HIDE DEF Noted
<1>3. ps \in SUBSET Pending
  BY <1>2
<1>4. a = [n EXCEPT !.pending = ps]
  BY DEF RecvAck, Noted
<1>5. {r.ctx : r \in ps} = {r.ctx : r \in n.pending}
  BY <1>2
<1>6. \A r \in ps : \E o \in n.pending :
          /\ o.ctx = r.ctx /\ o.index = r.index /\ o.from = r.from
          /\ \A q \in r.acks : q \in o.acks \/ (q = p /\ r.ctx = c)
  BY <1>2
<1>7. n.pending = {} => ps = {}
  OBVIOUS
<1> HIDE DEF ps
<1>8. /\ a \in Nodes /\ a.queue = n.queue /\ a.term = n.term /\ a.state = n.state
      /\ a.committed = n.committed /\ a.current = n.current /\ a.pending = ps
  BY <1>3, <1>4 DEF Nodes
<1>9. QueueOf(a)
  BY <1>5, <1>7, <1>8 DEF QueueOf
<1> QED
  BY <1>6, <1>8, <1>9

\* The place of a read in the queue.
LEMMA PlaceOf ==
    ASSUME NEW n \in Nodes, NEW c \in ToSet(n.queue)
    PROVE  /\ Place(n, c) \in 1..Len(n.queue) /\ Place(n, c) \in Nat
           /\ n.queue[Place(n, c)] = c
<1>1. DOMAIN n.queue = 1..Len(n.queue) /\ Len(n.queue) \in Nat
  BY NodeFields
<1>2. \E k \in DOMAIN n.queue : n.queue[k] = c
  BY DEF ToSet
<1>3. Place(n, c) \in DOMAIN n.queue /\ n.queue[Place(n, c)] = c
  BY <1>2 DEF Place
<1> QED
  BY <1>1, <1>3

\* advance takes the reads up to c from the front of the queue and from those pending.
LEMMA AdvanceFields ==
    ASSUME NEW n \in Nodes, QueueOf(n), NEW c \in ToSet(n.queue), NEW a, a = Advance(n, c),
           NEW k, k = Place(n, c)
    PROVE  /\ a \in Nodes /\ QueueOf(a) /\ a.term = n.term
           /\ a.state = n.state /\ a.committed = n.committed /\ a.current = n.current
           /\ k \in Nat /\ k <= Len(n.queue) /\ Len(a.queue) = Len(n.queue) - k
           /\ \A i \in 1..Len(a.queue) : a.queue[i] = n.queue[i + k]
           /\ a.pending \subseteq n.pending
<1> DEFINE q == n.queue
           d == SubSeq(q, k + 1, Len(q))
           ps == {r \in n.pending : r.ctx \notin Ready(n, c)}
<1>1. /\ q \in Seq(Read) /\ DOMAIN q = 1..Len(q) /\ Len(q) \in Nat
      /\ \A i \in DOMAIN q : q[i] \in Read
      /\ n.pending \in SUBSET Pending
  BY NodeFields
<1>2. k \in Nat /\ 1 <= k /\ k <= Len(q)
  BY <1>1, PlaceOf
<1>3. /\ d \in Seq(Read) /\ Len(d) = Len(q) - k
      /\ \A i \in 1..Len(d) : d[i] = q[i + k]
      /\ DOMAIN d = 1..Len(d)
  <2>1. \A i \in (k + 1)..Len(q) : q[i] \in Read
    BY <1>1, <1>2
  <2>2. /\ d \in Seq(Read)
        /\ Len(d) = (IF k + 1 <= Len(q) THEN Len(q) - (k + 1) + 1 ELSE 0)
        /\ \A i \in 1..(Len(q) - (k + 1) + 1) : d[i] = q[(k + 1) + i - 1]
    <3>1. k + 1 \in Int /\ Len(q) \in Int
      BY <1>1, <1>2
    <3> QED
      BY <2>1, <3>1, SubSeqProperties
  <2>3. Len(d) = Len(q) - k
    BY <1>1, <1>2, <2>2
  <2>4. \A i \in 1..Len(d) : d[i] = q[i + k]
    <3> HIDE DEF d
    <3> TAKE i \in 1..Len(d)
    <3>1. i \in 1..(Len(q) - (k + 1) + 1) /\ (k + 1) + i - 1 = i + k
      BY <1>1, <1>2, <2>3
    <3> QED
      BY <2>2, <3>1
  <2> QED
    BY <2>2, <2>3, <2>4, LenProperties
<1> HIDE DEF d
<1>4. a = [n EXCEPT !.queue = d, !.pending = ps]
  BY DEF Advance, d
<1>5. ps \subseteq n.pending
  OBVIOUS
<1>6. ToSet(d) = {r.ctx : r \in ps}
  <2>1. ASSUME NEW x
        PROVE  x \in ToSet(d) <=> x \in ToSet(q) /\ x \notin Ready(n, c)
    <3>1. ASSUME x \in ToSet(d)
          PROVE  x \in ToSet(q) /\ x \notin Ready(n, c)
      <4>1. PICK i \in 1..Len(d) : x = d[i]
        BY <1>3, <3>1 DEF ToSet
      <4>2. i + k \in DOMAIN q /\ x = q[i + k] /\ i + k > k
        BY <1>1, <1>2, <1>3, <4>1
      <4>3. \A j \in 1..k : q[j] # x
        <5>1. \A j \in 1..k : j \in DOMAIN q /\ j # i + k
          BY <1>1, <1>2, <4>2
        <5>2. \A y, z \in DOMAIN q : q[y] = q[z] => y = z
          BY DEF QueueOf, IsInjective
        <5> QED
          BY <4>2, <5>1, <5>2
      <4> QED
        BY <4>2, <4>3 DEF ToSet, Ready
    <3>2. ASSUME x \in ToSet(q), x \notin Ready(n, c)
          PROVE  x \in ToSet(d)
      <4>1. PICK i \in DOMAIN q : x = q[i]
        BY <3>2 DEF ToSet
      <4>2. i \notin 1..k
        BY <3>2, <4>1 DEF Ready
      <4>3. i - k \in 1..Len(d) /\ d[i - k] = q[i]
        <5>1. i - k \in 1..Len(d)
          BY <1>1, <1>2, <1>3, <4>2
        <5>2. (i - k) + k = i
          BY <1>1, <1>2
        <5> QED
          BY <1>3, <5>1, <5>2
      <4> QED
        BY <1>3, <4>1, <4>3 DEF ToSet
    <3> QED
      BY <3>1, <3>2
  <2>2. ToSet(q) = {r.ctx : r \in n.pending}
    BY DEF QueueOf
  <2> QED
    BY <2>1, <2>2
<1>7. IsInjective(d)
  <2>1. ASSUME NEW i \in 1..Len(d), NEW j \in 1..Len(d), d[i] = d[j]
        PROVE  i = j
    <3>1. i + k \in DOMAIN q /\ j + k \in DOMAIN q /\ q[i + k] = q[j + k]
      BY <1>1, <1>2, <1>3, <2>1
    <3>2. i + k = j + k
      BY <3>1 DEF QueueOf, IsInjective
    <3> QED
      BY <1>2, <3>2
  <2> QED
    BY <1>3, <2>1 DEF IsInjective
<1>8. n.queue # <<>>
  BY <1>1, <1>2, EmptySeq
<1> HIDE DEF ps, q
<1>9. /\ a \in Nodes /\ a.term = n.term /\ a.queue = d /\ a.pending = ps
      /\ a.state = n.state /\ a.committed = n.committed /\ a.current = n.current
  <2>1. ps \in SUBSET Pending
    BY <1>1, <1>5
  <2> QED
    BY <1>3, <1>4, <2>1 DEF Nodes
<1>10. QueueOf(a)
  BY <1>6, <1>7, <1>8, <1>9 DEF QueueOf
<1> QED
  BY <1>2, <1>3, <1>5, <1>9, <1>10 DEF q

\* A read that waits is only answered in time: the quorum that a late one lost would
\* have to acknowledge.
LEMMA DoneInTime ==
    ASSUME IInv, ~repeats, NEW s \in Server, NEW m \in msgs, m.type = "HeartbeatResp", m.to = s,
           m.term = node[s].term, m.from \in Server,
           NEW n, n = RecvAck(node[s], m.from, m.ctx),
           IsQuorum(Acks(n, m.ctx)), m.ctx \in ToSet(n.queue),
           NEW r \in n.pending, r.ctx \in Ready(n, m.ctx)
    PROVE  r.index >= asked[r.ctx]
<1>1. node[s] \in Nodes /\ QueueOf(node[s]) /\ \A o \in node[s].pending : asked[o.ctx] # None
  BY NodeOK
<1>2. /\ n \in Nodes /\ n.queue = node[s].queue
      /\ \A x \in n.pending : \E o \in node[s].pending :
            /\ o.ctx = x.ctx /\ o.index = x.index
            /\ \A q \in x.acks : q \in o.acks \/ (q = m.from /\ x.ctx = m.ctx)
  BY <1>1, RecvAckFields
<1>3. PICK o \in node[s].pending : o.ctx = r.ctx /\ o.index = r.index
  BY <1>2
<1>4. asked[o.ctx] \in Nat /\ r.index \in Nat
  <2>1. o.ctx \in Read /\ r.index \in Nat
    BY <1>1, <1>2, <1>3, NodeFields
  <2> QED
    BY <1>1, <2>1 DEF IInv, TypeOK
<1> SUFFICES ASSUME o.index < asked[o.ctx]
             PROVE  FALSE
  BY <1>3, <1>4
<1>5. PICK k : k = Place(n, m.ctx)
  OBVIOUS
<1>6. k \in 1..Len(n.queue) /\ k \in Nat /\ n.queue[k] = m.ctx
  BY <1>2, <1>5, PlaceOf
<1>7. PICK i \in 1..k : n.queue[i] = r.ctx
  BY <1>5 DEF Ready
<1>8. i \in DOMAIN node[s].queue /\ k \in i..Len(node[s].queue)
  BY <1>1, <1>2, <1>6, <1>7, NodeFields
<1>9. PICK Q \in SUBSET Server :
         /\ Deposed(s, Q)
         /\ \A p \in Q : \A j \in i..Len(node[s].queue) : Silent(p, s, node[s].queue[j])
  BY SMTT(30), <1>2, <1>3, <1>7, <1>8 DEF IInv, LateOK
<1>10. \A p \in Q : Silent(p, s, m.ctx)
  BY <1>2, <1>6, <1>8, <1>9
<1>11. Acks(n, m.ctx) \in SUBSET Server
  BY <1>2, NodeFields DEF Acks
<1>12. PICK p \in Server : p \in Q /\ p \in Acks(n, m.ctx)
  BY <1>9, <1>11, QuorumsMeet DEF Deposed
<1>13. PICK x \in n.pending : x.ctx = m.ctx /\ p \in x.acks
  BY <1>12 DEF Acks
<1>14. p \in Acks(node[s], m.ctx) \/ p = m.from
  BY <1>2, <1>13 DEF Acks
<1> QED
  BY <1>10, <1>12, <1>14 DEF Silent

\* A leader hears of an acknowledgement, and answers what waits up to that read when a
\* quorum has acknowledged.
LEMMA HeartbeatRespStep ==
    ASSUME IInv, NEW m \in msgs, ReceiveHeartbeatResp(m)
    PROVE  IInv'
<1> DEFINE s == m.to
<1>1. PICK n : n = RecvAck(node[s], m.from, m.ctx)
  OBVIOUS
<1>2. /\ TypeOK /\ m \in Messages /\ s \in Server /\ m.from \in Server
      /\ m.type = "HeartbeatResp" /\ m.term = node[s].term /\ node[s].state = "Leader"
      /\ asked' = asked
  BY MessageFields DEF IInv, TypeOK, ReceiveHeartbeatResp
<1>3. /\ node[s] \in Nodes /\ node[s].term \in Nat /\ node[s].committed <= chosen
      /\ QueueOf(node[s])
      /\ \A r \in node[s].pending : r.index <= chosen
  BY <1>2, NodeOK
<1> DEFINE done == {r \in n.pending : r.ctx \in Ready(n, m.ctx)}
<1>4. \/ /\ IsQuorum(Acks(n, m.ctx)) /\ m.ctx \in ToSet(n.queue)
         /\ Do(s, Advance(n, m.ctx), {}, Replies(s, n, done), Answers(s, n, done))
      \/ Do(s, n, {}, {}, {})
  BY <1>1 DEF ReceiveHeartbeatResp
<1>5. m.to = s
  OBVIOUS
<1> HIDE DEF s
<1>6. /\ n \in Nodes /\ QueueOf(n) /\ n.queue = node[s].queue /\ n.term = node[s].term
      /\ n.state = node[s].state /\ n.committed = node[s].committed
      /\ n.current = node[s].current
      /\ \A r \in n.pending : \E o \in node[s].pending :
            /\ o.ctx = r.ctx /\ o.index = r.index /\ o.from = r.from
            /\ \A q \in r.acks : q \in o.acks \/ (q = m.from /\ r.ctx = m.ctx)
  BY <1>1, <1>2, <1>3, RecvAckFields
<1>7. Len(n.queue) \in Nat
  BY <1>6, NodeFields
<1>8. \A r \in n.pending : \E o \in node[s].pending :
          /\ o.ctx = r.ctx /\ o.index = r.index
          /\ \A p \in r.acks : \/ p \in o.acks
                               \/ \E x \in msgs : /\ x.type = "HeartbeatResp" /\ x.from = p
                                                  /\ x.to = s /\ x.term = node[s].term
                                                  /\ x.ctx = r.ctx
  BY <1>2, <1>5, <1>6
<1>9. CASE Do(s, n, {}, {}, {})
  <2>1. ASSUME node'[s] = n
        PROVE  Waits(s)
    <3>1. /\ Len(node'[s].queue) = Len(node[s].queue) - 0
          /\ \A i \in 1..Len(node'[s].queue) : node'[s].queue[i] = node[s].queue[i + 0]
      BY <1>6, <1>7, <2>1
    <3> QED
      BY <1>6, <1>7, <1>8, <2>1, <3>1 DEF Waits
  <2>2. GoesOn(s, n) /\ node[s].term <= n.term
    BY <1>3, <1>6 DEF GoesOn
  <2> QED
    BY <1>2, <1>3, <1>6, <1>9, <2>1, <2>2, DoStep
<1>10. CASE /\ IsQuorum(Acks(n, m.ctx)) /\ m.ctx \in ToSet(n.queue)
            /\ Do(s, Advance(n, m.ctx), {}, Replies(s, n, done), Answers(s, n, done))
  <2> DEFINE out == Replies(s, n, done)
             answered == Answers(s, n, done)
  <2>1. PICK a : a = Advance(n, m.ctx)
    OBVIOUS
  <2>2. PICK k : k = Place(n, m.ctx)
    OBVIOUS
  <2>3. /\ a \in Nodes /\ QueueOf(a) /\ a.term = n.term
        /\ a.state = n.state /\ a.committed = n.committed /\ a.current = n.current
        /\ k \in Nat /\ k <= Len(n.queue) /\ Len(a.queue) = Len(n.queue) - k
        /\ \A i \in 1..Len(a.queue) : a.queue[i] = n.queue[i + k]
        /\ a.pending \subseteq n.pending
    BY <1>6, <1>10, <2>1, <2>2, AdvanceFields
  <2>4. ASSUME NEW r \in done
        PROVE  /\ r.ctx \in Read /\ r.from \in Server /\ r.index \in Nat /\ r.index <= chosen
               /\ InUse(r.ctx) /\ (~repeats => r.index >= asked[r.ctx])
    <3>1. r.ctx \in Read /\ r.from \in Server /\ r.index \in Nat
      BY <1>6, NodeFields
    <3>2. r.index <= chosen /\ InUse(r.ctx)
      BY <1>2, <1>3, <1>6 DEF InUse
    <3>3. ~repeats => r.index >= asked[r.ctx]
      BY <1>1, <1>2, <1>5, <1>10, DoneInTime
    <3> QED
      BY <3>1, <3>2, <3>3
  <2> HIDE DEF done
  <2>5. out \in SUBSET Messages
    BY <1>2, <1>3, <1>6, <2>4 DEF Replies, Messages, Responses
  <2>6. answered \in SUBSET (Read \X Nat)
    BY <2>4 DEF Answers
  <2>7. \A x \in out :
           /\ x.type # "ReadIndex" /\ InUse(x.ctx)
           /\ x.type = "HeartbeatResp" => x.term >= node[x.from].term
           /\ x.type = "ReadIndexResp" => /\ x.index <= chosen
                                          /\ ~repeats => x.index >= asked[x.ctx]
    BY <2>4 DEF Replies
  <2>8. \A x \in answered : InUse(x[1]) /\ (~repeats => x[2] >= asked[x[1]])
    BY <2>4 DEF Answers
  <2>9. ASSUME node'[s] = a
        PROVE  Waits(s)
    BY <1>6, <1>8, <2>3, <2>9 DEF Waits
  <2>10. GoesOn(s, a) /\ node[s].term <= a.term /\ a.committed <= chosen
    BY <1>3, <1>6, <2>3 DEF GoesOn
  <2>11. Do(s, a, {}, out, answered)
    BY <1>10, <2>1
  <2> HIDE DEF out, answered
  <2> QED
    BY <1>2, <2>3, <2>5, <2>6, <2>7, <2>8, <2>9, <2>10, <2>11, DoStep
<1> QED
  BY <1>4, <1>9, <1>10

-----------------------------------------------------------------------------
\* Elections and commits

\* When nothing is sent or asked, and who does not keep its reads drops them, only the
\* leaders remain to be looked at.
LEMMA SettledStep ==
    ASSUME IInv, TypeOK', Grow, UNCHANGED <<msgs, asked, answers>>, chosen <= chosen',
           \A q \in Server :
              /\ QueueOf(node'[q]) /\ node'[q].committed <= chosen'
              /\ \/ node'[q].pending = {}
                 \/ /\ node'[q].term = node[q].term
                    /\ node'[q].queue = node[q].queue /\ node'[q].pending = node[q].pending
    PROVE  Bounded' /\ QueuesOK' /\ FreshOK' /\ LateOK' /\ AnswersOK'
<1>1. /\ chosen \in Nat /\ chosen' \in Nat /\ TypeOK
      /\ \A c \in Read : asked[c] # None => asked[c] \in Nat
      /\ \A m \in msgs : m.type = "ReadIndexResp" => m.index \in Nat
  BY MessageFields DEF IInv, TypeOK
<1>2. \A q \in Server : \A r \in node'[q].pending : r \in node[q].pending /\ r.index \in Nat
  BY <1>1, NodeFields DEF TypeOK
<1>3. Bounded'
  <2>1. \A q \in Server : \A r \in node'[q].pending : r.index <= chosen'
    BY <1>1, <1>2 DEF IInv, Bounded
  <2>2. \A c \in Read : asked'[c] # None => asked'[c] <= chosen'
    BY <1>1 DEF IInv, Bounded
  <2>3. \A m \in msgs' : m.type = "ReadIndexResp" => m.index <= chosen'
    BY <1>1 DEF IInv, Bounded
  <2> QED
    BY <2>1, <2>2, <2>3 DEF Bounded
<1>4. QueuesOK'
  BY DEF QueuesOK, QueueIsPending, QueueOf
<1>5. AskedStays /\ NoNewRead /\ AcksInTerm
  BY <1>2 DEF AskedStays, NoNewRead, AcksInTerm
<1>6. FreshOK'
  BY <1>5, FreshKept DEF IInv
<1>7. \A q \in Server : node'[q].pending = {} \/ Waits(q)
  BY <1>1, SameWaits
<1>8. LateOK'
  BY <1>5, <1>7, LateKept DEF IInv
<1>9. AnswersOK'
  <2>1. repeats' = repeats /\ option' = option
    BY <1>1, GrowTerms
  <2> QED
    BY <1>2, <2>1 DEF IInv, AnswersOK, ReadsAreCurrent, AnswersAreCurrent
<1> QED
  BY <1>3, <1>4, <1>6, <1>8, <1>9

\* A quorum moves to a term that is new to it, so nobody leads that yet.
LEMMA ElectStep ==
    ASSUME IInv, NEW s \in Server, NEW t \in Nat, Elect(s, t)
    PROVE  IInv'
<1>1. PICK Q \in SUBSET Voting(s, t) :
         /\ s \in Q /\ IsQuorum(Q)
         /\ node' = [q \in Server |->
               IF q = s THEN [BecomeFollower(node[s], t, s) EXCEPT !.state = "Leader"]
               ELSE IF q \in Q THEN BecomeFollower(node[q], t, None)
               ELSE node[q]]
  BY DEF Elect
<1>2. /\ t > node[s].term /\ TypeOK
      /\ UNCHANGED <<scenario, msgs, chosen, asked, answers>>
  BY DEF Elect, IInv
<1>3. \A q \in Server : /\ node[q] \in Nodes /\ node[q].term \in Nat /\ QueueOf(node[q])
                        /\ node[q].committed <= chosen
  BY NodeOK
<1>4. Q \in SUBSET Server /\ \A q \in Q : node[q].term < t
  BY <1>1, <1>2 DEF Voting
<1>5. /\ node'[s] \in Nodes /\ node'[s].term = t /\ ~node'[s].current
      /\ node'[s].committed = node[s].committed
      /\ node'[s].queue = <<>> /\ node'[s].pending = {}
  <2>1. PICK f : f = BecomeFollower(node[s], t, s)
    OBVIOUS
  <2>2. node[s].term <= t
    BY <1>2, <1>3
  <2>3. /\ f \in Nodes /\ f.term = t /\ ~f.current /\ f.committed = node[s].committed
        /\ f.queue = <<>> /\ f.pending = {}
    BY <1>2, <1>3, <2>1, <2>2, FollowerFields
  <2>4. node'[s] = [f EXCEPT !.state = "Leader"]
    BY <1>1, <2>1
  <2> QED
    BY <2>3, <2>4 DEF Nodes
<1>6. ASSUME NEW q \in Q, q # s
      PROVE  /\ node'[q] \in Nodes /\ node'[q].term = t /\ node'[q].state = "Follower"
             /\ node'[q].committed = node[q].committed
             /\ node'[q].queue = <<>> /\ node'[q].pending = {}
  <2>1. node'[q] = BecomeFollower(node[q], t, None) /\ q \in Server
    BY <1>1, <1>4, <1>6
  <2>2. node[q].term <= t
    BY <1>3, <1>4
  <2>3. None \in Server \cup {None} /\ node[q] \in Nodes
    BY <1>3, <2>1
  <2> QED
    BY <2>1, <2>2, <2>3, FollowerFields
<1>7. \A q \in Server \ Q : node'[q] = node[q]
  BY <1>1
<1>8. /\ \A q \in Server : node'[q] \in Nodes
      /\ node' \in [Server -> Nodes]
  <2>1. \A q \in Server : node'[q] \in Nodes
    BY <1>3, <1>5, <1>6, <1>7
  <2> QED
    BY <1>1, <2>1
<1>9. TypeOK'
  BY <1>2, <1>8 DEF TypeOK
<1>10. Grow
  BY <1>2, <1>3, <1>4, <1>5, <1>6, <1>7, <1>8 DEF Grow
<1>11. \A q \in Server :
           /\ QueueOf(node'[q]) /\ node'[q].committed <= chosen'
           /\ \/ node'[q].pending = {}
              \/ /\ node'[q].term = node[q].term
                 /\ node'[q].queue = node[q].queue /\ node'[q].pending = node[q].pending
  BY <1>2, <1>3, <1>5, <1>6, <1>7, EmptyQueue
<1>12. chosen <= chosen'
  BY <1>2 DEF TypeOK
<1>13. Bounded' /\ QueuesOK' /\ FreshOK' /\ LateOK' /\ AnswersOK'
  BY <1>2, <1>9, <1>10, <1>11, <1>12, SettledStep
<1>14. LeadersOK'
  <2>1. \A q \in Server : q # s /\ node'[q].state = "Leader" =>
            node'[q] = node[q] /\ node[q].state = "Leader"
    BY <1>6, <1>7
  <2>2. \A p \in Q : node'[p].term = t
    BY <1>5, <1>6
  <2>3. ASSUME NEW q \in Server, node'[q].state = "Leader"
        PROVE  \E R \in SUBSET Server :
                   IsQuorum(R) /\ \A p \in R : node'[p].term >= node'[q].term
    <3>1. CASE q = s
      BY <1>1, <1>4, <1>5, <2>2, <3>1
    <3>2. CASE q # s
      <4>1. node'[q] = node[q] /\ node[q].state = "Leader"
        BY <2>1, <2>3, <3>2
      <4>2. PICK R \in SUBSET Server : IsQuorum(R) /\ \A p \in R : node[p].term >= node[q].term
        BY <4>1 DEF IInv, LeadersOK
      <4>3. \A p \in Server : node[p].term \in Nat /\ node'[p].term \in Nat
                              /\ node[p].term <= node'[p].term
        BY <1>2, <1>10, GrowTerms
      <4> QED
        BY <4>1, <4>2, <4>3
    <3> QED
      BY <3>1, <3>2
  <2>4. ASSUME NEW q \in Server, q # s, node'[q].state = "Leader"
        PROVE  node'[q].term # t
    <3>1. node'[q] = node[q] /\ node[q].state = "Leader"
      BY <2>1, <2>4
    <3>2. PICK R \in SUBSET Server : IsQuorum(R) /\ \A p \in R : node[p].term >= node[q].term
      BY <3>1 DEF IInv, LeadersOK
    <3>3. PICK p \in Server : p \in Q /\ p \in R
      BY <1>1, <1>4, <3>2, QuorumsMeet
    <3>4. node[p].term < t /\ node[p].term >= node[q].term
      BY <1>4, <3>2, <3>3
    <3> QED
      BY <1>3, <3>1, <3>3, <3>4
  <2>5. ASSUME NEW x \in Server, NEW q \in Server, node'[x].state = "Leader",
               node'[q].state = "Leader", x # q
        PROVE  node'[x].term # node'[q].term
    <3>1. CASE x = s
      BY <1>5, <2>4, <2>5, <3>1
    <3>2. CASE q = s
      BY <1>5, <2>4, <2>5, <3>2
    <3>3. CASE x # s /\ q # s
      BY <2>1, <2>5, <3>3 DEF IInv, LeadersOK
    <3> QED
      BY <3>1, <3>2, <3>3
  <2> QED
    BY <2>3, <2>5 DEF LeadersOK
<1>15. CurrentOK'
  <2>1. \A q \in Server : MayRead(node'[q]) =>
            /\ MayRead(node[q]) /\ node'[q].term = node[q].term
            /\ node'[q].committed = node[q].committed
    BY <1>5, <1>6, <1>7 DEF MayRead
  <2> QED
    BY <1>2, <1>10, <2>1, CurrentKept DEF IInv
<1> QED
  BY <1>9, <1>13, <1>14, <1>15 DEF IInv

\* What a leader commits leaves leaders of other terms behind, if they are of earlier
\* ones, and there are none of later ones.
LEMMA CommitStep ==
    ASSUME IInv, NEW s \in Server, Commit(s)
    PROVE  IInv'
<1> DEFINE n == node[s]
<1>1. PICK Q \in SUBSET {q \in Server : node[q].term <= n.term} :
         /\ s \in Q /\ IsQuorum(Q)
         /\ node' = [q \in Server |->
               IF q = s THEN [n EXCEPT !.committed = chosen + 1, !.current = TRUE]
               ELSE IF q \in Q /\ node[q].term < n.term THEN BecomeFollower(node[q], n.term, s)
               ELSE node[q]]
  BY DEF Commit
<1>2. /\ n.state = "Leader" /\ chosen' = chosen + 1 /\ TypeOK
      /\ UNCHANGED <<scenario, msgs, asked, answers>>
  BY DEF Commit, IInv
<1>3. \A q \in Server : /\ node[q] \in Nodes /\ node[q].term \in Nat /\ QueueOf(node[q])
                        /\ node[q].committed <= chosen /\ node[q].committed \in Nat
                        /\ chosen \in Nat
  BY NodeOK, NodeFields
<1>4. Q \in SUBSET Server /\ \A q \in Q : node[q].term <= n.term
  BY <1>1
<1>5. /\ node'[s] \in Nodes /\ node'[s].term = n.term /\ node'[s].state = "Leader"
      /\ node'[s].committed = chosen + 1
      /\ node'[s].queue = n.queue /\ node'[s].pending = n.pending
  <2>1. node'[s] = [n EXCEPT !.committed = chosen + 1, !.current = TRUE]
    BY <1>1
  <2>2. n \in Nodes /\ chosen + 1 \in Nat
    BY <1>3
  <2> HIDE DEF n
  <2> QED
    BY <1>2, <2>1, <2>2 DEF Nodes
<1>6. ASSUME NEW q \in Q, q # s, node[q].term < n.term
      PROVE  /\ node'[q] \in Nodes /\ node'[q].term = n.term /\ node'[q].state = "Follower"
             /\ node'[q].committed = node[q].committed
             /\ node'[q].queue = <<>> /\ node'[q].pending = {}
  <2>1. node'[q] = BecomeFollower(node[q], n.term, s) /\ q \in Server
    BY <1>1, <1>4, <1>6
  <2>2. node[q].term <= n.term /\ n.term \in Nat /\ node[q] \in Nodes
    BY <1>3, <1>4, <2>1
  <2> QED
    BY <2>1, <2>2, FollowerFields
<1>7. \A q \in Server : q # s /\ ~(q \in Q /\ node[q].term < n.term) => node'[q] = node[q]
  BY <1>1
<1> HIDE DEF n
<1>8. n = node[s] /\ n.term \in Nat /\ QueueOf(n)
  BY <1>3 DEF n
<1>9. /\ \A q \in Server : node'[q] \in Nodes
      /\ node' \in [Server -> Nodes]
  <2>1. \A q \in Server : node'[q] \in Nodes
    BY <1>3, <1>5, <1>6, <1>7
  <2> QED
    BY <1>1, <2>1
<1>10. TypeOK'
  <2>1. chosen' \in Nat
    BY <1>2, <1>3
  <2> QED
    BY <1>2, <1>9, <2>1 DEF TypeOK
<1>11. Grow
  BY <1>2, <1>3, <1>4, <1>5, <1>6, <1>7, <1>8, <1>9 DEF Grow
<1>12. \A q \in Server :
           /\ QueueOf(node'[q]) /\ node'[q].committed <= chosen'
           /\ \/ node'[q].pending = {}
              \/ /\ node'[q].term = node[q].term
                 /\ node'[q].queue = node[q].queue /\ node'[q].pending = node[q].pending
  <2>1. QueueOf(node'[s])
    BY <1>2, <1>5, <1>8 DEF QueueOf
  <2> QED
    BY <1>2, <1>3, <1>5, <1>6, <1>7, <1>8, <2>1, EmptyQueue
<1>13. chosen <= chosen'
  BY <1>2, <1>3
<1>14. Bounded' /\ QueuesOK' /\ FreshOK' /\ LateOK' /\ AnswersOK'
  BY <1>2, <1>10, <1>11, <1>12, <1>13, SettledStep
<1>15. \A q \in Server : node'[q].state = "Leader" =>
           /\ node[q].state = "Leader" /\ node'[q].term = node[q].term
           /\ q # s => node'[q] = node[q]
  BY <1>2, <1>5, <1>6, <1>7, <1>8
<1>16. LeadersOK'
  BY <1>2, <1>11, <1>15, LeadersKept DEF IInv, NoElection
<1>17. CurrentOK'
  <2> SUFFICES ASSUME NEW x \in Server, MayRead(node'[x]), node'[x].committed < chosen'
               PROVE  \E R \in SUBSET Server : Deposed(x, R)'
    BY DEF CurrentOK
  <2>1. x # s /\ node'[x] = node[x] /\ node[x].state = "Leader"
    BY <1>2, <1>3, <1>5, <1>15 DEF MayRead
  <2>2. node[x].term # n.term
    BY <1>2, <1>8, <2>1 DEF IInv, LeadersOK
  <2>3. \A p \in Q : node'[p].term = n.term
    BY <1>3, <1>4, <1>5, <1>6, <1>7, <1>8
  <2>4. ~ node[x].term > n.term
    <3>1. SUFFICES ASSUME node[x].term > n.term
                   PROVE  FALSE
      OBVIOUS
    <3>2. PICK R \in SUBSET Server : IsQuorum(R) /\ \A p \in R : node[p].term >= node[x].term
      BY <2>1 DEF IInv, LeadersOK
    <3>3. PICK p \in Server : p \in Q /\ p \in R
      BY <1>1, <1>4, <3>2, QuorumsMeet
    <3>4. node[p].term <= n.term /\ node[p].term >= node[x].term
      BY <1>4, <3>2, <3>3
    <3> QED
      BY <1>3, <1>8, <3>1, <3>4
  <2>5. node'[x].term < n.term
    BY <1>3, <1>8, <2>1, <2>2, <2>4
  <2>6. Deposed(x, Q)'
    BY <1>1, <1>8, <2>3, <2>5 DEF Deposed
  <2> QED
    BY <1>4, <2>6
<1> QED
  BY <1>10, <1>14, <1>16, <1>17 DEF IInv

-----------------------------------------------------------------------------
\* New reads

\* What is given of a step that takes or forwards the read ctx: it is asked for by now,
\* and nobody works on it but for requests that are gone with the step.
Taken(ctx, gone) ==
    /\ asked' = [asked EXCEPT ![ctx] = IF @ = None THEN chosen ELSE @]
    /\ \A m \in gone : m.type = "ReadIndex"
    /\ ~repeats => Unused(ctx, gone)

\* What was asked for by now.
LEMMA TakenFields ==
    ASSUME IInv, NEW ctx \in Read, NEW gone, Taken(ctx, gone)
    PROVE  /\ asked' \in [Read -> Nat \cup {None}] /\ AskedStays
           /\ asked'[ctx] \in Nat /\ asked'[ctx] <= chosen /\ asked'[ctx] # None
           /\ \A c \in Read : c # ctx => asked'[c] = asked[c]
           /\ \A c \in Read : asked'[c] # None => asked'[c] = asked[c] \/ asked'[c] = chosen
<1>1. /\ asked \in [Read -> Nat \cup {None}] /\ chosen \in Nat
      /\ asked' = [asked EXCEPT ![ctx] = IF @ = None THEN chosen ELSE @]
  BY DEF IInv, TypeOK, Taken
<1>2. asked[ctx] # None => asked[ctx] \in Nat /\ asked[ctx] <= chosen
  BY <1>1 DEF IInv, Bounded
<1>3. \A c \in Read : asked'[c] = IF c = ctx /\ asked[c] = None THEN chosen ELSE asked[c]
  BY <1>1
<1>4. asked' \in [Read -> Nat \cup {None}]
  BY <1>1
<1>5. asked'[ctx] \in Nat /\ asked'[ctx] <= chosen /\ asked'[ctx] # None
  <2>1. CASE asked[ctx] = None
    BY <1>1, <1>3, <2>1, ReadAssumption
  <2>2. CASE asked[ctx] # None
    BY <1>2, <1>3, <2>2
  <2> QED
    BY <2>1, <2>2
<1> QED
  BY <1>1, <1>3, <1>4, <1>5 DEF AskedStays

\* A new read that is with nobody else yet: no other place has it.
LEMMA FreshTaken ==
    ASSUME IInv, TypeOK', Grow, NEW ctx \in Read, NEW gone, Taken(ctx, gone),
           \A q \in Server : \A r \in node'[q].pending :
              r.ctx = ctx \/ \E o \in node[q].pending : o.ctx = r.ctx,
           \A m \in msgs' : \/ m \in msgs /\ m \notin gone
                            \/ m.ctx = ctx /\ m.type # "ReadIndex"
    PROVE  FreshOK'
<1> SUFFICES ASSUME ~repeats
             PROVE  /\ \A c \in Read : asked'[c] = None => Unused(c, {})'
                    /\ \A m \in msgs' : m.type = "ReadIndex" => Unused(m.ctx, {m})'
  BY GrowTerms DEF FreshOK, IInv
<1>1. ASSUME NEW c \in Read, asked'[c] = None
      PROVE  Unused(c, {})'
  <2>1. c # ctx /\ asked[c] = None
    BY <1>1, TakenFields
  <2>2. Unused(c, {})
    BY <2>1 DEF IInv, FreshOK
  <2> QED
    BY <2>1, <2>2 DEF Unused
<1>2. ASSUME NEW m \in msgs', m.type = "ReadIndex"
      PROVE  Unused(m.ctx, {m})'
  <2>1. m \in msgs /\ m \notin gone
    BY <1>2
  <2>2. m.ctx # ctx
    BY <2>1 DEF Taken, Unused
  <2>3. Unused(m.ctx, {m})
    BY <1>2, <2>1 DEF IInv, FreshOK
  <2> QED
    BY <2>2, <2>3 DEF Unused
<1> QED
  BY <1>1, <1>2

\* A request that is forwarded is the only trace of its read.
LEMMA FreshForwarded ==
    ASSUME IInv, TypeOK', Grow, NEW ctx \in Read, NEW gone, Taken(ctx, gone),
           \A q \in Server : node'[q] = node[q],
           NEW f, f.ctx = ctx, \A m \in msgs' : (m \in msgs /\ m \notin gone) \/ m = f
    PROVE  FreshOK'
<1> SUFFICES ASSUME ~repeats
             PROVE  /\ \A c \in Read : asked'[c] = None => Unused(c, {})'
                    /\ \A m \in msgs' : m.type = "ReadIndex" => Unused(m.ctx, {m})'
  BY GrowTerms DEF FreshOK, IInv
<1>1. ASSUME NEW c \in Read, asked'[c] = None
      PROVE  Unused(c, {})'
  <2>1. c # ctx /\ asked[c] = None
    BY <1>1, TakenFields
  <2>2. Unused(c, {})
    BY <2>1 DEF IInv, FreshOK
  <2> QED
    BY <2>1, <2>2 DEF Unused
<1>2. ASSUME NEW m \in msgs', m.type = "ReadIndex"
      PROVE  Unused(m.ctx, {m})'
  <2>1. CASE m = f
    BY <2>1 DEF Taken, Unused
  <2>2. CASE m \in msgs /\ m \notin gone
    <3>1. m.ctx # ctx
      BY <2>2 DEF Taken, Unused
    <3>2. Unused(m.ctx, {m})
      BY <1>2, <2>2 DEF IInv, FreshOK
    <3> QED
      BY <3>1, <3>2 DEF Unused
  <2> QED
    BY <2>1, <2>2
<1> QED
  BY <1>1, <1>2

\* Who is alone has all that was committed: it is every quorum.
LEMMA AnswersAtOnce ==
    ASSUME IInv, NEW s \in Server, MayRead(node[s]), Cardinality(Server) = 1
    PROVE  node[s].committed = chosen
<1>1. /\ node[s] \in Nodes /\ node[s].committed <= chosen /\ chosen \in Nat
      /\ node[s].committed \in Nat /\ node[s].term \in Nat
  BY NodeOK, NodeFields
<1> SUFFICES ASSUME node[s].committed < chosen
             PROVE  FALSE
  BY <1>1
<1>2. PICK Q \in SUBSET Server : Deposed(s, Q)
  BY DEF IInv, CurrentOK
<1>3. PICK p \in Server : p \in Q
  BY <1>2, QuorumHasOne DEF Deposed
<1>4. PICK x : Server = {x}
  BY FS_Singleton, ReadAssumption
<1>5. p = s
  BY <1>4
<1> QED
  BY <1>1, <1>2, <1>3, <1>5 DEF Deposed

\* Nodes that stay keep all that is said of the leaders, queues and reads that wait.
LEMMA NobodyMoves ==
    ASSUME IInv, TypeOK', Grow, chosen' = chosen, NEW s \in Server,
           \A q \in Server : node'[q] = node[q],
           NEW ctx \in Read, NEW gone, Taken(ctx, gone),
           \A m \in msgs' : \/ m \in msgs
                            \/ m.type = "ReadIndex"
                            \/ m.type = "ReadIndexResp" /\ m.index <= chosen
    PROVE  LeadersOK' /\ CurrentOK' /\ Bounded' /\ QueuesOK' /\ LateOK'
<1>1. /\ node[s] \in Nodes /\ QueueOf(node[s]) /\ node[s].committed <= chosen
      /\ \A r \in node[s].pending : r.index <= chosen
      /\ \A q \in Server : node'[q] = IF q = s THEN node[s] ELSE node[q]
  BY NodeOK
<1>2. GoesOn(s, node[s])
  BY DEF GoesOn
<1>3. LeadersOK' /\ CurrentOK'
  BY <1>1, <1>2, DoLeaders
<1>4. /\ \A c \in Read : asked'[c] # None => asked'[c] = asked[c] \/ asked'[c] = chosen
      /\ AskedStays
  BY TakenFields
<1>5. Bounded' /\ QueuesOK'
  BY <1>1, <1>4, DoQueues
<1>6. AcksInTerm
  BY DEF AcksInTerm
<1>7. \A q \in Server : Waits(q)
  BY SameWaits DEF IInv
<1>8. LateOK'
  BY <1>4, <1>6, <1>7, LateKept DEF IInv
<1> QED
  BY <1>3, <1>5, <1>8

\* What was answered and asked for stays right when ctx is asked for and, if quorums
\* confirm the reads, answered by no less than what was committed.
LEMMA AnswersKept ==
    ASSUME IInv, TypeOK', Grow, NEW ctx \in Read, NEW gone, Taken(ctx, gone),
           \A q \in Server : \A r \in node'[q].pending :
              r.ctx = ctx \/ \E o \in node[q].pending : o.ctx = r.ctx,
           \A m \in msgs' : \/ m \in msgs
                            \/ /\ m.ctx = ctx
                               /\ option = "Safe" /\ m.type = "ReadIndexResp" =>
                                     m.index >= chosen,
           \A a \in answers' : \/ a \in answers
                               \/ a[1] = ctx /\ (option = "Safe" => a[2] >= chosen)
    PROVE  AnswersOK'
<1>1. repeats' = repeats /\ option' = option
  BY GrowTerms DEF IInv
<1>2. /\ AskedStays /\ asked'[ctx] \in Nat /\ asked'[ctx] <= chosen /\ asked'[ctx] # None
      /\ chosen \in Nat
  BY TakenFields DEF IInv, TypeOK
<1>3. /\ \A q \in Server : \A r \in node[q].pending : r.ctx \in Read
      /\ \A m \in msgs : m.ctx \in Read
      /\ \A m \in msgs' : m.type = "ReadIndexResp" => m.index \in Nat
      /\ \A a \in answers : a[1] \in Read
      /\ \A a \in answers' : a[2] \in Nat
  BY NodeFields, MessageFields DEF IInv, TypeOK
<1>4. \A q \in Server : \A r \in node'[q].pending : asked'[r.ctx] # None
  BY <1>2, <1>3 DEF IInv, AnswersOK, AskedStays
<1>5. \A m \in msgs' : asked'[m.ctx] # None
  BY <1>2, <1>3 DEF IInv, AnswersOK, AskedStays
<1>6. \A a \in answers' : asked'[a[1]] # None
  BY <1>2, <1>3 DEF IInv, AnswersOK, AskedStays
<1>7. option = "Safe" /\ ~repeats =>
          \A m \in msgs' : m.type = "ReadIndexResp" => m.index >= asked'[m.ctx]
  BY <1>2, <1>3 DEF IInv, AnswersOK, AskedStays
<1>8. option = "Safe" /\ ~repeats => \A a \in answers' : a[2] >= asked'[a[1]]
  BY <1>2, <1>3 DEF IInv, AnswersOK, ReadsAreCurrent, AnswersAreCurrent, AskedStays
<1> QED
  BY <1>1, <1>4, <1>5, <1>6, <1>7, <1>8 DEF AnswersOK, ReadsAreCurrent, AnswersAreCurrent

\* A read that waits is not taken again.
LEMMA AddRequestFields ==
    ASSUME NEW n \in Nodes, QueueOf(n), n.state = "Leader", NEW s \in Server,
           NEW from \in Server, NEW c \in Read, NEW a, a = AddRequest(n, s, c, from)
    PROVE  /\ a \in Nodes /\ QueueOf(a) /\ a.term = n.term /\ a.state = n.state
           /\ a.committed = n.committed /\ a.current = n.current
           /\ \A r \in a.pending : \/ r \in n.pending
                                   \/ r.ctx = c /\ r.index = n.committed /\ r.acks = {s}
           /\ \A i \in DOMAIN a.queue : \/ i \in DOMAIN n.queue /\ a.queue[i] = n.queue[i]
                                        \/ i = Len(a.queue) /\ a.queue[i] = c
<1> DEFINE new == [ctx |-> c, from |-> from, index |-> n.committed, acks |-> {s}]
           q == Append(n.queue, c)
           ps == n.pending \cup {new}
<1>1. CASE \E r \in n.pending : r.ctx = c
  BY <1>1 DEF AddRequest
<1>2. CASE ~ \E r \in n.pending : r.ctx = c
  <2>1. /\ n.queue \in Seq(Read) /\ Len(n.queue) \in Nat /\ DOMAIN n.queue = 1..Len(n.queue)
        /\ n.pending \in SUBSET Pending /\ n.committed \in Nat
    BY NodeFields
  <2>2. /\ q \in Seq(Read) /\ Len(q) = Len(n.queue) + 1 /\ DOMAIN q = 1..(Len(n.queue) + 1)
        /\ \A i \in 1..Len(n.queue) : q[i] = n.queue[i]
        /\ q[Len(n.queue) + 1] = c
    BY <2>1, AppendProperties, LenProperties
  <2>3. a = [n EXCEPT !.pending = ps, !.queue = q]
    BY <1>2 DEF AddRequest
  <2>4. new \in Pending
    BY <2>1 DEF Pending
  <2>5. ToSet(n.queue) = {r.ctx : r \in n.pending} /\ IsInjective(n.queue)
    BY DEF QueueOf
  <2>6. ToSet(q) = ToSet(n.queue) \cup {c}
    <3> HIDE DEF q
    <3> QED
      BY SMTT(30), <2>1, <2>2 DEF ToSet
  <2>7. c \notin ToSet(n.queue)
    BY <1>2, <2>5
  <2>8. IsInjective(q)
    <3> HIDE DEF q
    <3>1. \A i \in 1..Len(n.queue) : n.queue[i] # c
      BY <2>1, <2>7 DEF ToSet
    <3>2. ASSUME NEW i \in DOMAIN q, NEW j \in DOMAIN q, q[i] = q[j]
          PROVE  i = j
      BY <2>1, <2>2, <2>5, <3>1, <3>2, SMTT(20) DEF IsInjective
    <3> QED
      BY <3>2 DEF IsInjective
  <2>9. {r.ctx : r \in ps} = ToSet(q)
    <3> HIDE DEF q
    <3>1. \A x : x \in {r.ctx : r \in ps} <=> x \in {r.ctx : r \in n.pending} \/ x = c
      BY <2>4
    <3> QED
      BY <2>5, <2>6, <3>1
  <2> HIDE DEF q
  <2>10. /\ a \in Nodes /\ a.term = n.term /\ a.state = n.state /\ a.committed = n.committed
         /\ a.current = n.current /\ a.queue = q /\ a.pending = ps
    <3>1. ps \in SUBSET Pending
      BY <2>1, <2>4
    <3> HIDE DEF ps, new
    <3> QED
      BY <2>2, <2>3, <3>1 DEF Nodes
  <2>11. QueueOf(a)
    <3> HIDE DEF ps
    <3> QED
      BY <2>8, <2>9, <2>10 DEF QueueOf
  <2>12. \A r \in a.pending : \/ r \in n.pending
                              \/ r.ctx = c /\ r.index = n.committed /\ r.acks = {s}
    BY <2>10
  <2>13. \A i \in DOMAIN a.queue : \/ i \in DOMAIN n.queue /\ a.queue[i] = n.queue[i]
                                   \/ i = Len(a.queue) /\ a.queue[i] = c
    BY <2>1, <2>2, <2>10
  <2> QED
    BY <2>10, <2>11, <2>12, <2>13
<1> QED
  BY <1>1, <1>2

\* A late read joins the queue: the quorum that its leader lost is silent about it, and
\* about those before it as before.
LEMMA LateAdded ==
    ASSUME IInv, TypeOK', Grow, NEW s \in Server, NEW ctx \in Read, NEW gone,
           Taken(ctx, gone), MayRead(node[s]), NEW from \in Server,
           NEW a, a = AddRequest(node[s], s, ctx, from),
           \A q \in Server : node'[q] = IF q = s THEN a ELSE node[q],
           \A m \in msgs' : m \in msgs \/ m.type = "Heartbeat"
    PROVE  LateOK'
<1>1. /\ node[s] \in Nodes /\ QueueOf(node[s]) /\ node[s].term \in Nat /\ chosen \in Nat
      /\ node[s].committed \in Nat /\ node[s].state = "Leader" /\ TypeOK
  BY NodeOK, NodeFields DEF IInv, MayRead
<1>2. /\ a \in Nodes /\ QueueOf(a) /\ a.term = node[s].term
      /\ \A r \in a.pending : \/ r \in node[s].pending
                              \/ r.ctx = ctx /\ r.index = node[s].committed /\ r.acks = {s}
      /\ \A i \in DOMAIN a.queue : \/ i \in DOMAIN node[s].queue /\ a.queue[i] = node[s].queue[i]
                                   \/ i = Len(a.queue) /\ a.queue[i] = ctx
  BY <1>1, AddRequestFields
<1>3. node'[s] = a
  OBVIOUS
<1> SUFFICES ASSUME ~repeats, NEW x \in Server, NEW r \in node'[x].pending,
                    NEW i \in DOMAIN node'[x].queue, node'[x].queue[i] = r.ctx,
                    r.index < asked'[r.ctx]
             PROVE  \E Q \in SUBSET Server :
                        /\ Deposed(x, Q)'
                        /\ \A p \in Q : \A j \in i..Len(node'[x].queue) :
                              Silent(p, x, node[x].queue[j])'
  BY GrowTerms DEF LateOK, IInv
<1>4. /\ asked'[ctx] \in Nat /\ asked'[ctx] <= chosen
      /\ \A c \in Read : c # ctx => asked'[c] = asked[c]
  BY TakenFields
<1>5. /\ \A q \in Server : \A o \in node[q].pending : o.ctx # ctx
      /\ \A m \in msgs : m.type = "HeartbeatResp" => m.ctx # ctx
  BY DEF Taken, Unused
<1>6. ASSUME NEW Q \in SUBSET Server, Deposed(x, Q)
      PROVE  Deposed(x, Q)'
  <2>1. node'[x].term = node[x].term
    BY <1>2
  <2> QED
    BY <1>1, <1>6, <2>1, DeposedKept
<1>7. CASE x # s
  <2>1. node'[x] = node[x] /\ node[x] \in Nodes /\ r.ctx \in Read
    BY <1>7, NodeOK, NodeFields
  <2>2. r.ctx # ctx /\ asked'[r.ctx] = asked[r.ctx]
    BY <1>4, <1>5, <2>1
  <2>3. PICK Q \in SUBSET Server :
           /\ Deposed(x, Q)
           /\ \A p \in Q : \A j \in i..Len(node[x].queue) : Silent(p, x, node[x].queue[j])
    BY <2>1, <2>2 DEF IInv, LateOK
  <2>4. ASSUME NEW p \in Q, NEW j \in i..Len(node'[x].queue)
        PROVE  Silent(p, x, node[x].queue[j])'
    <3>1. Silent(p, x, node[x].queue[j])
      BY <2>1, <2>3
    <3> QED
      BY <2>1, <3>1 DEF Silent, Acks
  <2> QED
    BY <1>6, <2>3, <2>4
<1>8. CASE x = s
  <2>1. \A p \in Server : p \in Acks(a, ctx) => p = s
    BY <1>2, <1>5 DEF Acks
  <2>2. \A p \in Server : \A c : c # ctx /\ p \in Acks(a, c) => p \in Acks(node[s], c)
    BY <1>2 DEF Acks
  <2>3. ASSUME NEW p \in Server, p # s
        PROVE  /\ p \notin Acks(node'[s], ctx)
               /\ \A m \in msgs' : ~ /\ m.type = "HeartbeatResp" /\ m.from = p /\ m.to = s
                                     /\ m.term = node'[s].term /\ m.ctx = ctx
    BY <1>3, <1>5, <2>1, <2>3
  <2>4. ASSUME NEW p \in Server, NEW c, c # ctx, Silent(p, s, c)
        PROVE  /\ p \notin Acks(node'[s], c)
               /\ \A m \in msgs' : ~ /\ m.type = "HeartbeatResp" /\ m.from = p /\ m.to = s
                                     /\ m.term = node'[s].term /\ m.ctx = c
    BY <1>2, <1>3, <2>2, <2>4 DEF Silent
  <2>5. ASSUME NEW Q \in SUBSET Server, Deposed(s, Q), NEW p \in Q
        PROVE  p # s
    BY <1>1, <2>5 DEF Deposed
  <2>6. CASE r.ctx = ctx
    <3>1. r.index = node[s].committed
      BY <1>2, <1>3, <1>5, <1>8, <2>6
    <3>2. node[s].committed < chosen
      BY <1>1, <1>4, <2>6, <3>1
    <3>3. PICK Q \in SUBSET Server : Deposed(s, Q)
      BY <3>2 DEF IInv, CurrentOK
    <3>4. i = Len(a.queue) /\ a.queue[i] = ctx /\ Len(a.queue) \in Nat
      <4>1. \A j \in DOMAIN node[s].queue : node[s].queue[j] # ctx
        BY <1>1, <1>5 DEF QueueOf, ToSet
      <4> QED
        BY <1>2, <1>3, <1>8, <2>6, <4>1, NodeFields
    <3>5. ASSUME NEW p \in Q, NEW j \in i..Len(node'[s].queue)
          PROVE  Silent(p, s, node[s].queue[j])'
      <4>1. node'[s].queue[j] = ctx /\ p # s /\ p \in Server
        BY <1>3, <2>5, <3>3, <3>4
      <4> QED
        BY <2>3, <4>1 DEF Silent
    <3> QED
      BY <1>6, <1>8, <3>3, <3>5
  <2>7. CASE r.ctx # ctx
    <3>1. r \in node[s].pending /\ r.ctx \in Read
      BY <1>1, <1>2, <1>3, <1>8, <2>7, NodeFields
    <3>2. i \in DOMAIN node[s].queue /\ node[s].queue[i] = r.ctx
      BY <1>2, <1>3, <1>8, <2>7
    <3>3. r.index < asked[r.ctx]
      BY <1>4, <2>7, <3>1
    <3>4. PICK Q \in SUBSET Server :
             /\ Deposed(s, Q)
             /\ \A p \in Q : \A j \in i..Len(node[s].queue) : Silent(p, s, node[s].queue[j])
      BY <3>1, <3>2, <3>3 DEF IInv, LateOK
    <3>5. ASSUME NEW p \in Q, NEW j \in i..Len(node'[s].queue)
          PROVE  Silent(p, s, node[s].queue[j])'
      <4>1. p \in Server /\ p # s
        BY <2>5, <3>4
      <4>2. CASE node'[s].queue[j] = ctx
        BY <2>3, <4>1, <4>2 DEF Silent
      <4>3. CASE node'[s].queue[j] # ctx
        <5>1. i \in Nat /\ DOMAIN a.queue = 1..Len(a.queue) /\ Len(a.queue) \in Nat
              /\ DOMAIN node[s].queue = 1..Len(node[s].queue) /\ Len(node[s].queue) \in Nat
          BY <1>1, <1>2, <3>2, NodeFields
        <5>2. j \in i..Len(node[s].queue) /\ node'[s].queue[j] = node[s].queue[j]
          BY <1>2, <1>3, <3>2, <4>3, <5>1
        <5>3. Silent(p, s, node[s].queue[j])
          BY <3>4, <5>2
        <5> QED
          BY <2>4, <4>1, <4>3, <5>2, <5>3 DEF Silent
      <4> QED
        BY <4>2, <4>3
    <3> QED
      BY <1>6, <1>8, <3>4, <3>5
  <2> QED
    BY <2>6, <2>7
<1> QED
  BY <1>7, <1>8

\* A read comes to a server: it is answered at once, joins the queue or is forwarded.
LEMMA ReadIndexStep ==
    ASSUME IInv, NEW s \in Server, NEW from \in Server, NEW ctx \in Read, NEW gone,
           Taken(ctx, gone), ReadIndex(s, ctx, from, gone)
    PROVE  IInv'
<1> DEFINE n == node[s]
           now == {[ctx |-> ctx, from |-> from, index |-> n.committed]}
<1>1. /\ n \in Nodes /\ QueueOf(n) /\ n.term \in Nat /\ n.committed \in Nat
      /\ n.committed <= chosen /\ chosen \in Nat /\ TypeOK
      /\ \A r \in n.pending : r.index <= chosen
  BY NodeOK, NodeFields DEF IInv
<1>2. asked' \in [Read -> Nat \cup {None}]
  BY TakenFields
<1>3. node[s].term <= n.term /\ {} \in SUBSET (Read \X Nat)
  BY <1>1
<1>4. CASE /\ MayRead(n) /\ (Cardinality(Server) = 1 \/ option = "LeaseBased")
           /\ Do(s, n, gone, Replies(s, n, now), Answers(s, n, now))
  <2> DEFINE out == Replies(s, n, now)
             answered == Answers(s, n, now)
  <2>1. option = "Safe" => n.committed = chosen
    BY <1>4, AnswersAtOnce
  <2>2. out \in SUBSET Messages /\ answered \in SUBSET (Read \X Nat)
    BY <1>1 DEF Replies, Answers, Messages, Responses
  <2>3. \A m \in out : m.type = "ReadIndexResp" /\ m.ctx = ctx /\ m.index = n.committed
    BY DEF Replies
  <2>4. \A a \in answered : a[1] = ctx /\ a[2] = n.committed
    BY DEF Answers
  <2>5. Do(s, n, gone, out, answered)
    BY <1>4
  <2> HIDE DEF out, answered
  <2>6. /\ TypeOK' /\ Grow /\ chosen' = chosen
        /\ \A q \in Server : node'[q] = IF q = s THEN n ELSE node[q]
        /\ \A m \in msgs' : m \in msgs \/ m \in out
        /\ \A a \in answers' : a \in answers \/ a \in answered
    BY <1>1, <1>2, <1>3, <2>2, <2>5, DoFields
  <2>7. \A q \in Server : node'[q] = node[q]
    BY <2>6
  <2>8. \A m \in msgs' : (m \in msgs /\ m \notin gone) \/ (m.ctx = ctx /\ m.type # "ReadIndex")
    BY <2>3, <2>5 DEF Do
  <2>9. LeadersOK' /\ CurrentOK' /\ Bounded' /\ QueuesOK' /\ LateOK'
    BY <1>1, <2>3, <2>6, <2>7, NobodyMoves
  <2>10. FreshOK'
    BY <2>6, <2>7, <2>8, FreshTaken
  <2>11. AnswersOK'
    BY <1>1, <2>1, <2>3, <2>4, <2>6, <2>7, AnswersKept
  <2> QED
    BY <2>6, <2>9, <2>10, <2>11 DEF IInv
<1>5. CASE MayRead(n) /\ Do(s, AddRequest(n, s, ctx, from), gone, Heartbeats(s, ctx), {})
  <2> DEFINE out == Heartbeats(s, ctx)
  <2>1. PICK a : a = AddRequest(n, s, ctx, from)
    OBVIOUS
  <2>2. n.state = "Leader"
    BY <1>5 DEF MayRead
  <2>3. /\ a \in Nodes /\ QueueOf(a) /\ a.term = n.term /\ a.state = n.state
        /\ a.committed = n.committed /\ a.current = n.current
        /\ \A r \in a.pending : \/ r \in n.pending
                                \/ r.ctx = ctx /\ r.index = n.committed /\ r.acks = {s}
    BY <1>1, <2>1, <2>2, AddRequestFields
  <2>4. out \in SUBSET Messages
    BY <1>1 DEF Heartbeats, Messages, Beats
  <2>5. \A m \in out : m.type = "Heartbeat" /\ m.ctx = ctx
    BY DEF Heartbeats
  <2>6. PICK none \in SUBSET (Read \X Nat) : none = {} /\ Do(s, a, gone, out, none)
    BY <1>3, <1>5, <2>1
  <2> HIDE DEF out
  <2>7. node[s].term <= a.term
    BY <1>3, <2>3
  <2>8. /\ TypeOK' /\ Grow /\ chosen' = chosen
        /\ \A q \in Server : node'[q] = IF q = s THEN a ELSE node[q]
        /\ \A m \in msgs' : m \in msgs \/ m \in out
        /\ \A x \in answers' : x \in answers \/ x \in none
    BY <1>1, <1>2, <2>3, <2>4, <2>6, <2>7, DoFields
  <2>9. GoesOn(s, a)
    BY <2>2, <2>3 DEF GoesOn
  <2>10. LeadersOK' /\ CurrentOK'
    BY <2>3, <2>8, <2>9, DoLeaders
  <2>11. /\ \A r \in a.pending : r.index <= chosen
         /\ a.committed <= chosen
         /\ \A m \in msgs' : m.type = "ReadIndexResp" => m \in msgs \/ m.index <= chosen
         /\ \A c \in Read : asked'[c] # None => asked'[c] = asked[c] \/ asked'[c] = chosen
    BY <1>1, <2>3, <2>5, <2>8, TakenFields
  <2>12. Bounded' /\ QueuesOK'
    BY <2>3, <2>8, <2>11, DoQueues
  <2>13. \A q \in Server : \A r \in node'[q].pending :
             r.ctx = ctx \/ \E o \in node[q].pending : o.ctx = r.ctx
    BY <2>3, <2>8
  <2>14. \A m \in msgs' : (m \in msgs /\ m \notin gone) \/ (m.ctx = ctx /\ m.type # "ReadIndex")
    BY <2>5, <2>6 DEF Do
  <2>15. FreshOK'
    BY <2>8, <2>13, <2>14, FreshTaken
  <2>16. \A m \in msgs' : m \in msgs \/ m.type = "Heartbeat"
    BY <2>5, <2>8
  <2>17. LateOK'
    BY <1>5, <2>1, <2>8, <2>16, LateAdded
  <2>18. \A m \in msgs' : m \in msgs \/ (m.ctx = ctx /\ (m.type = "ReadIndexResp" => m.index >= chosen))
    BY <2>5, <2>8
  <2>19. AnswersOK'
    BY <2>6, <2>8, <2>13, <2>18, AnswersKept
  <2> QED
    BY <2>8, <2>10, <2>12, <2>15, <2>17, <2>19 DEF IInv
<1>6. CASE /\ n.leader_id # None
           /\ Do(s, n, gone, {[type |-> "ReadIndex", from |-> from, to |-> n.leader_id,
                               ctx |-> ctx, term |-> 0]}, {})
  <2>1. PICK f : f = [type |-> "ReadIndex", from |-> from, to |-> n.leader_id,
                      ctx |-> ctx, term |-> 0]
    OBVIOUS
  <2>2. n.leader_id \in Server
    BY <1>1, <1>6, NodeFields
  <2>3. {f} \in SUBSET Messages /\ f.type = "ReadIndex" /\ f.ctx = ctx
    BY <2>1, <2>2 DEF Messages, Requests
  <2>4. PICK none \in SUBSET (Read \X Nat) : none = {} /\ Do(s, n, gone, {f}, none)
    BY <1>3, <1>6, <2>1
  <2>5. /\ TypeOK' /\ Grow /\ chosen' = chosen
        /\ \A q \in Server : node'[q] = IF q = s THEN n ELSE node[q]
        /\ \A m \in msgs' : m \in msgs \/ m \in {f}
        /\ \A x \in answers' : x \in answers \/ x \in none
    BY <1>1, <1>2, <1>3, <2>3, <2>4, DoFields
  <2>6. \A q \in Server : node'[q] = node[q]
    BY <2>5
  <2>7. \A m \in msgs' : (m \in msgs /\ m \notin gone) \/ m = f
    BY <2>4 DEF Do
  <2>8. LeadersOK' /\ CurrentOK' /\ Bounded' /\ QueuesOK' /\ LateOK'
    BY <2>3, <2>5, <2>6, NobodyMoves
  <2>9. FreshOK'
    BY <2>3, <2>5, <2>6, <2>7, FreshForwarded
  <2>10. AnswersOK'
    BY <2>3, <2>4, <2>5, <2>6, AnswersKept
  <2> QED
    BY <2>5, <2>8, <2>9, <2>10 DEF IInv
<1> QED
  BY <1>4, <1>5, <1>6 DEF ReadIndex

\* A read is asked for.
LEMMA AskStep ==
    ASSUME IInv, NEW s \in Server, NEW c \in Read, Ask(s, c)
    PROVE  IInv'
<1>1. ~repeats => Unused(c, {})
  BY DEF Ask, IInv, FreshOK
<1>2. Taken(c, {}) /\ ReadIndex(s, c, s, {})
  BY <1>1 DEF Ask, Taken
<1> QED
  BY <1>2, ReadIndexStep

\* A read that was forwarded comes to a server.
LEMMA ReceiveReadIndexStep ==
    ASSUME IInv, NEW m \in msgs, ReceiveReadIndex(m)
    PROVE  IInv'
<1>1. /\ m.to \in Server /\ m.from \in Server /\ m.ctx \in Read /\ m.type = "ReadIndex"
      /\ asked' = asked
  BY MessageFields DEF ReceiveReadIndex, IInv, TypeOK
<1>2. PICK gone : gone = IF repeats THEN {} ELSE {m}
  OBVIOUS
<1>3. ReadIndex(m.to, m.ctx, m.from, gone)
  BY <1>2 DEF ReceiveReadIndex
<1>4. ~repeats => Unused(m.ctx, gone)
  BY <1>1, <1>2 DEF IInv, FreshOK
<1>5. asked[m.ctx] # None /\ asked \in [Read -> Nat \cup {None}]
  BY DEF IInv, AnswersOK, TypeOK
<1>6. asked' = [asked EXCEPT ![m.ctx] = IF @ = None THEN chosen ELSE @]
  BY <1>1, <1>5
<1>7. Taken(m.ctx, gone)
  BY <1>1, <1>2, <1>4, <1>6 DEF Taken
<1> QED
  BY <1>1, <1>3, <1>7, ReadIndexStep

-----------------------------------------------------------------------------
\* The invariant

\* It holds in the beginning.
LEMMA InitInv ==
    ASSUME Init
    PROVE  IInv
<1>1. <<>> \in Seq(Read)
  BY EmptySeq
<1>2. \A s \in Server : /\ node[s] = NewNode /\ node[s].term = 0 /\ node[s].state = "Follower"
                        /\ node[s].committed = 0 /\ ~node[s].current
                        /\ node[s].queue = <<>> /\ node[s].pending = {}
  BY DEF Init, NewNode
<1>3. NewNode \in Nodes
  BY <1>1 DEF NewNode, Nodes
<1>4. TypeOK
  BY <1>3 DEF Init, TypeOK
<1>5. \A s \in Server : QueueOf(node[s])
  BY <1>2, EmptyQueue
<1>6. QueuesOK
  BY <1>5 DEF QueuesOK, QueueIsPending, QueueOf
<1>7. Bounded
  BY <1>2 DEF Bounded, Init
<1>8. LeadersOK /\ CurrentOK
  BY <1>2 DEF LeadersOK, CurrentOK, MayRead
<1>9. FreshOK /\ LateOK
  BY <1>2 DEF FreshOK, LateOK, Unused, Init
<1>10. AnswersOK
  BY <1>2 DEF AnswersOK, ReadsAreCurrent, AnswersAreCurrent, Init
<1> QED
  BY <1>4, <1>6, <1>7, <1>8, <1>9, <1>10 DEF IInv

\* Nothing of it changes when nothing moves.
LEMMA StutterInv ==
    ASSUME IInv, UNCHANGED vars
    PROVE  IInv'
<1>1. /\ scenario' = scenario /\ node' = node /\ chosen' = chosen
      /\ UNCHANGED <<msgs, asked, answers>>
  BY DEF vars
<1>2. TypeOK'
  BY <1>1 DEF IInv, TypeOK
<1>3. \A q \in Server : /\ node[q] \in Nodes /\ node[q].term \in Nat /\ QueueOf(node[q])
                        /\ node[q].committed <= chosen /\ chosen \in Nat
  BY NodeOK
<1>4. Grow
  BY <1>1, <1>2, <1>3 DEF Grow, TypeOK
<1>5. \A q \in Server :
          /\ QueueOf(node'[q]) /\ node'[q].committed <= chosen'
          /\ node'[q].term = node[q].term
          /\ node'[q].queue = node[q].queue /\ node'[q].pending = node[q].pending
  BY <1>1, <1>3
<1>6. chosen <= chosen'
  BY <1>1 DEF IInv, TypeOK
<1>7. Bounded' /\ QueuesOK' /\ FreshOK' /\ LateOK' /\ AnswersOK'
  BY <1>1, <1>2, <1>4, <1>5, <1>6, SettledStep
<1>8. LeadersOK' /\ CurrentOK'
  BY <1>1, <1>4, LeadersKept, CurrentKept DEF IInv, NoElection
<1> QED
  BY <1>2, <1>7, <1>8 DEF IInv

\* Every step keeps it.
LEMMA NextInv ==
    ASSUME IInv, [Next]_vars
    PROVE  IInv'
<1>1. CASE UNCHANGED vars
  BY <1>1, StutterInv
<1>2. ASSUME NEW s \in Server,
             \/ StepDown(s) \/ Commit(s) \/ Beat(s)
             \/ \E t \in 1..scenario.max_term : Elect(s, t)
             \/ \E c \in Read : Ask(s, c)
      PROVE  IInv'
  <2>1. \A t \in 1..scenario.max_term : t \in Nat
    BY ReadAssumption DEF IInv, TypeOK, Scenario
  <2> QED
    BY <1>2, <2>1, StepDownStep, CommitStep, BeatStep, ElectStep, AskStep
<1>3. ASSUME NEW m \in msgs,
             \/ ReceiveReadIndex(m) \/ ReceiveHeartbeat(m) \/ ReceiveHeartbeatResp(m)
             \/ ReceiveReadIndexResp(m)
      PROVE  IInv'
  BY <1>3, ReceiveReadIndexStep, HeartbeatStep, HeartbeatRespStep, ReadIndexRespStep
<1> QED
  BY <1>1, <1>2, <1>3 DEF Next

\* For any number of servers, reads, terms and commits: the invariant holds in every
\* state.
THEOREM InductiveInvariant == Spec => []IInv
<1>1. Init => IInv
  BY InitInv
<1>2. IInv /\ [Next]_vars => IInv'
  BY NextInv
<1> QED
  BY <1>1, <1>2, PTL DEF Spec

\* A read that a quorum confirms sees what was committed when it was asked for, whoever
\* leads or thinks so (read_only.rs, handle_heartbeat_response).
THEOREM ReadsAreCurrentHolds == Spec => []ReadsAreCurrent
<1>1. IInv => ReadsAreCurrent
  BY DEF IInv, AnswersOK
<1> QED
  BY <1>1, InductiveInvariant, PTL

\* The queue and the map of reads that wait never part, so advance does not die
\* (ReadOnly::advance).
THEOREM QueueIsPendingHolds == Spec => []QueueIsPending
<1>1. IInv => QueueIsPending
  BY DEF IInv, QueuesOK
<1> QED
  BY <1>1, InductiveInvariant, PTL
=============================================================================
