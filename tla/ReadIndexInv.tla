---------------------------- MODULE ReadIndexInv ----------------------------
(***************************************************************************)
(* The inductive invariant of module ReadIndex.  A leader that does not    *)
(* have all that was committed has lost a quorum to later terms; a read    *)
(* that it takes then, and all reads behind it in the queue, are never     *)
(* acknowledged by that quorum, so they are never answered.                *)
(***************************************************************************)
EXTENDS ReadIndex

Pending == [ctx : Read, from : Server, index : Nat, acks : SUBSET Server]

Nodes == [term : Nat, state : {"Follower", "Leader"}, leader_id : Server \cup {None},
          committed : Nat, current : BOOLEAN, queue : Seq(Read), pending : SUBSET Pending]

Beats == [type : {"Heartbeat", "HeartbeatResp"}, from : Server, to : Server, term : Nat,
          ctx : Read]
Requests == [type : {"ReadIndex"}, from : Server, to : Server, ctx : Read, term : Nat]
Responses == [type : {"ReadIndexResp"}, from : Server, to : Server, term : Nat, ctx : Read,
              index : Nat]

Messages == Beats \cup Requests \cup Responses

TypeOK ==
    /\ scenario \in Scenarios
    /\ node \in [Server -> Nodes]
    /\ msgs \subseteq Messages
    /\ chosen \in Nat
    /\ asked \in [Read -> Nat \cup {None}]
    /\ answers \subseteq Read \X Nat

\* What is read is at most what was committed.
Bounded ==
    /\ \A s \in Server : /\ node[s].committed <= chosen
                         /\ \A r \in node[s].pending : r.index <= chosen
    /\ \A c \in Read : asked[c] # None => asked[c] <= chosen
    /\ \A m \in msgs : m.type = "ReadIndexResp" => m.index <= chosen

\* Only leaders have reads that wait.
QueuesOK ==
    /\ QueueIsPending
    /\ \A s \in Server : node[s].state # "Leader" =>
          node[s].queue = <<>> /\ node[s].pending = {}

-----------------------------------------------------------------------------

\* A leader had a quorum in its term, so it is alone there.
LeadersOK ==
    /\ \A s \in Server : node[s].state = "Leader" =>
          \E Q \in SUBSET Server : IsQuorum(Q) /\ \A p \in Q : node[p].term >= node[s].term
    /\ \A s, q \in Server :
          node[s].state = "Leader" /\ node[q].state = "Leader" /\ s # q =>
              node[s].term # node[q].term

\* Whoever committed in its term, and has not all that was committed since, lost a
\* quorum to later terms.
Deposed(s, Q) == IsQuorum(Q) /\ \A p \in Q : node[p].term > node[s].term

CurrentOK ==
    \A s \in Server : MayRead(node[s]) /\ node[s].committed < chosen =>
        \E Q \in SUBSET Server : Deposed(s, Q)

-----------------------------------------------------------------------------
\* If no request comes twice

\* Nobody works on the read c, but for the messages in S.
Unused(c, S) ==
    /\ \A s \in Server : \A r \in node[s].pending : r.ctx # c
    /\ \A m \in msgs \ S : m.ctx # c

\* A read is in one place until somebody leads.
FreshOK ==
    ~repeats =>
        /\ \A c \in Read : asked[c] = None => Unused(c, {})
        /\ \A m \in msgs : m.type = "ReadIndex" => Unused(m.ctx, {m})

\* p did not acknowledge the read c to s.
Silent(p, s, c) ==
    /\ p \notin Acks(node[s], c)
    /\ \A m \in msgs : ~ /\ m.type = "HeartbeatResp" /\ m.from = p /\ m.to = s
                         /\ m.term = node[s].term /\ m.ctx = c

\* A read that came too late for its index is not acknowledged, and no later one.
LateOK ==
    ~repeats =>
        \A s \in Server : \A r \in node[s].pending : \A i \in DOMAIN node[s].queue :
            node[s].queue[i] = r.ctx /\ r.index < asked[r.ctx] =>
                \E Q \in SUBSET Server :
                    /\ Deposed(s, Q)
                    /\ \A p \in Q : \A j \in i..Len(node[s].queue) : Silent(p, s, node[s].queue[j])

\* What is answered is current, and so is what is on the way.
AnswersOK ==
    /\ \A s \in Server : \A r \in node[s].pending : asked[r.ctx] # None
    /\ \A m \in msgs : asked[m.ctx] # None
    /\ \A a \in answers : asked[a[1]] # None
    /\ option = "Safe" /\ ~repeats => \A m \in msgs : m.type = "ReadIndexResp" => m.index >= asked[m.ctx]
    /\ ReadsAreCurrent

IInv ==
    /\ TypeOK /\ Bounded /\ QueuesOK /\ LeadersOK /\ CurrentOK
    /\ FreshOK /\ LateOK /\ AnswersOK
=============================================================================
