----------------------------- MODULE ReadIndex -----------------------------
(***************************************************************************)
(* Linearizable reads: a leader's queue (read_only.rs), the heartbeats     *)
(* that carry the context of a read, their acknowledgements, reads that    *)
(* followers forward, and the answers (raft.rs), while leaders change, a   *)
(* deposed one may not know it, and the network loses, reorders and        *)
(* duplicates.                                                             *)
(*                                                                         *)
(* Elections and commits are one step each and keep what module Election   *)
(* checks: a quorum is of the leader's term when it is elected and when it *)
(* commits, and a leader has what was committed before.  Followers learn a *)
(* commit index only from answers to reads; appends and heartbeats, which  *)
(* tell them more, are in other modules, and so are changes of the         *)
(* configuration.  Messages are taken to get through RaftCore::send.       *)
(***************************************************************************)
EXTENDS Majorities, Sequences, SequencesExt

CONSTANTS
    Server,
    None,
    Read,           \* request contexts, unique as ReadState asks for
    Scenarios       \* see Scenario

\* The read_only_option; may a request come twice, from its caller or the
\* network?; and two bounds: terms and committed entries.
Scenario == [option : {"Safe", "LeaseBased"}, repeats : BOOLEAN,
             max_term : Nat, max_commits : Nat]

ASSUME ReadAssumption ==
    /\ IsFiniteSet(Server) /\ Server # {} /\ None \notin Server \cup Nat
    /\ \A x \in Scenarios : x \in Scenario

VARIABLES
    scenario,   \* never changes
    node,       \* server -> its part of Raft
    msgs,       \* messages sent: they may come late, twice or never
    chosen,     \* the highest index committed by a leader
    asked,      \* history: Read -> chosen when it was first asked for, or None
    answers     \* history: <<read, index>> of the ReadStates handed out

vars == <<scenario, node, msgs, chosen, asked, answers>>

option == scenario.option
repeats == scenario.repeats

NewNode == [term |-> 0, state |-> "Follower", leader_id |-> None, committed |-> 0,
            current |-> FALSE,      \* commit_to_current_term
            queue |-> <<>>,         \* read_index_queue: contexts
            pending |-> {}]         \* pending_read_index: [ctx, from, index, acks]

IsQuorum(Q) == HasQuorum(Server, {}, Q)

\* become_follower; reset makes the queue of reads anew.
BecomeFollower(n, t, leader) ==
    [n EXCEPT !.term = t, !.state = "Follower", !.leader_id = leader,
              !.current = (@ /\ n.term = t), !.queue = <<>>, !.pending = {}]

\* Raft::step: a message of a later term; it is of a leader if from is not None.
AtTerm(n, t, from) == IF t > n.term THEN BecomeFollower(n, t, from) ELSE n

-----------------------------------------------------------------------------
\* Elections and commits

Voting(s, t) == {q \in Server : node[q].term < t} \cup {s}

\* A quorum moves to term t and s leads it, whoever still leads: a transfer passes over
\* leases, and the leader that began it goes on answering reads.
Elect(s, t) ==
    /\ t > node[s].term
    /\ \E Q \in SUBSET Voting(s, t) :
          /\ s \in Q /\ IsQuorum(Q)
          /\ node' = [q \in Server |->
                IF q = s THEN [BecomeFollower(node[s], t, s) EXCEPT !.state = "Leader"]
                ELSE IF q \in Q THEN BecomeFollower(node[q], t, None)
                ELSE node[q]]
    /\ UNCHANGED <<scenario, msgs, chosen, asked, answers>>

\* A leader that hears of no quorum steps down (check_quorum).
StepDown(s) ==
    /\ node[s].state = "Leader"
    /\ node' = [node EXCEPT ![s] = BecomeFollower(@, @.term, None)]
    /\ UNCHANGED <<scenario, msgs, chosen, asked, answers>>

\* maybe_commit, when a quorum has an entry of the leader's term.
Commit(s) ==
    LET n == node[s]
    IN  /\ n.state = "Leader" /\ chosen < scenario.max_commits
        /\ \E Q \in SUBSET {q \in Server : node[q].term <= n.term} :
              /\ s \in Q /\ IsQuorum(Q)
              /\ node' = [q \in Server |->
                    IF q = s THEN [n EXCEPT !.committed = chosen + 1, !.current = TRUE]
                    ELSE IF q \in Q /\ node[q].term < n.term THEN BecomeFollower(node[q], n.term, s)
                    ELSE node[q]]
        /\ chosen' = chosen + 1
        /\ UNCHANGED <<scenario, msgs, asked, answers>>

-----------------------------------------------------------------------------
\* ReadOnly

\* Mutant: a context that waits is taken again.
AddRequestTwice(n, s, ctx, from) ==
    [n EXCEPT !.pending = {r \in @ : r.ctx # ctx}
                          \cup {[ctx |-> ctx, from |-> from, index |-> n.committed, acks |-> {s}]},
              !.queue = Append(@, ctx)]

AddRequest(n, s, ctx, from) ==
    IF \E r \in n.pending : r.ctx = ctx THEN n
    ELSE [n EXCEPT
            !.pending = @ \cup {[ctx |-> ctx, from |-> from, index |-> n.committed, acks |-> {s}]},
            !.queue = Append(@, ctx)]

RecvAck(n, from, ctx) ==
    [n EXCEPT !.pending = {IF r.ctx = ctx THEN [r EXCEPT !.acks = @ \cup {from}] ELSE r : r \in @}]

Acks(n, ctx) == UNION {r.acks : r \in {p \in n.pending : p.ctx = ctx}}

\* Mutant: also the reads that came after ctx.
EndOfQueue(n, ctx) == Len(n.queue)

Place(n, ctx) == CHOOSE k \in DOMAIN n.queue : n.queue[k] = ctx

\* The contexts up to ctx in the queue: advance answers all of them.
Ready(n, ctx) == {n.queue[k] : k \in 1..Place(n, ctx)}

Advance(n, ctx) ==
    [n EXCEPT !.queue = SubSeq(@, Place(n, ctx) + 1, Len(@)),
              !.pending = {r \in @ : r.ctx \notin Ready(n, ctx)}]

-----------------------------------------------------------------------------
\* Steps. Server s becomes n, sends out and answers reads of its own.

Do(s, n, gone, out, answered) ==
    /\ node' = [node EXCEPT ![s] = n]
    /\ msgs' = (msgs \ gone) \cup out
    /\ answers' = answers \cup answered
    /\ UNCHANGED <<scenario, chosen>>

Heartbeats(s, ctx) ==
    {[type |-> "Heartbeat", from |-> s, to |-> p, term |-> node[s].term, ctx |-> ctx] :
        p \in Server \ {s}}

\* handle_ready_read_index of the requests rs
Answers(s, n, rs) == {<<r.ctx, r.index>> : r \in {q \in rs : q.from = s}}
Replies(s, n, rs) ==
    {[type |-> "ReadIndexResp", from |-> s, to |-> r.from, term |-> n.term, ctx |-> r.ctx,
      index |-> r.index] : r \in {q \in rs : q.from # s}}

MayRead(n) == n.state = "Leader" /\ n.current

\* MsgReadIndex at s, asked for by from: step_leader and step_follower.
ReadIndex(s, ctx, from, gone) ==
    LET n   == node[s]
        now == {[ctx |-> ctx, from |-> from, index |-> n.committed]}
        add == AddRequest(n, s, ctx, from)
    IN  \/ /\ MayRead(n)
           /\ IF Cardinality(Server) = 1 \/ option = "LeaseBased"
              THEN Do(s, n, gone, Replies(s, n, now), Answers(s, n, now))
              ELSE Do(s, add, gone, Heartbeats(s, ctx), {})
        \/ /\ n.state = "Follower" /\ n.leader_id # None
           /\ Do(s, n, gone, {[type |-> "ReadIndex", from |-> from, to |-> n.leader_id, ctx |-> ctx,
                               term |-> 0]}, {})

\* RawNode::read_index: asked for, or asked for again.
Ask(s, ctx) ==
    /\ asked[ctx] # None => repeats
    /\ asked' = [asked EXCEPT ![ctx] = IF @ = None THEN chosen ELSE @]
    /\ ReadIndex(s, ctx, s, {})

ReceiveReadIndex(m) ==
    /\ m.type = "ReadIndex"
    /\ ReadIndex(m.to, m.ctx, m.from, IF repeats THEN {} ELSE {m})
    /\ UNCHANGED asked

\* bcast_heartbeat: with the context of the last read that waits.
Beat(s) ==
    /\ node[s].state = "Leader" /\ node[s].queue # <<>>
    /\ Do(s, node[s], {}, Heartbeats(s, Last(node[s].queue)), {})
    /\ UNCHANGED asked

ReceiveHeartbeat(m) ==
    LET n == AtTerm(node[m.to], m.term, m.from)
    IN  /\ m.type = "Heartbeat" /\ m.term >= node[m.to].term
        /\ Do(m.to, [n EXCEPT !.leader_id = m.from], {},
              {[type |-> "HeartbeatResp", from |-> m.to, to |-> m.from, term |-> n.term,
                ctx |-> m.ctx]}, {})
        /\ UNCHANGED asked

\* handle_heartbeat_response, once the peer's progress is looked at.
ReceiveHeartbeatResp(m) ==
    LET s == m.to
        n == RecvAck(node[s], m.from, m.ctx)
        done == {r \in n.pending : r.ctx \in Ready(n, m.ctx)}
    IN  /\ m.type = "HeartbeatResp" /\ m.term = node[s].term /\ node[s].state = "Leader"
        /\ IF option = "Safe" /\ IsQuorum(Acks(n, m.ctx)) /\ m.ctx \in ToSet(n.queue)
           THEN Do(s, Advance(n, m.ctx), {}, Replies(s, n, done), Answers(s, n, done))
           ELSE Do(s, n, {}, {}, {})
        /\ UNCHANGED asked

\* MsgReadIndexResp at a follower. Its commit index moves too, if it has the entry.
ReceiveReadIndexResp(m) ==
    LET n == AtTerm(node[m.to], m.term, None)
    IN  /\ m.type = "ReadIndexResp" /\ m.term >= node[m.to].term /\ n.state = "Follower"
        /\ \E c \in {n.committed, m.index} :
              /\ c >= n.committed
              /\ Do(m.to, [n EXCEPT !.committed = c], {}, {}, {<<m.ctx, m.index>>})
        /\ UNCHANGED asked

Init ==
    /\ scenario \in Scenarios
    /\ node = [s \in Server |-> NewNode]
    /\ msgs = {}
    /\ chosen = 0
    /\ asked = [c \in Read |-> None]
    /\ answers = {}

Next ==
    \/ \E s \in Server :
          \/ StepDown(s) \/ Commit(s) \/ Beat(s)
          \/ \E t \in 1..scenario.max_term : Elect(s, t)
          \/ \E c \in Read : Ask(s, c)
    \/ \E m \in msgs :
          \/ ReceiveReadIndex(m) \/ ReceiveHeartbeat(m) \/ ReceiveHeartbeatResp(m)
          \/ ReceiveReadIndexResp(m)

Spec == Init /\ [][Next]_vars

-----------------------------------------------------------------------------

AnswersAreCurrent == \A a \in answers : a[2] >= asked[a[1]]

\* A read that a quorum confirms sees what was committed when it was asked for: whoever
\* leads by then, whoever thinks so ("the read index ... any linearizable read requests
\* issued before", RawNode::read_index). Contexts must be unique, also on the network:
\* an acknowledgement of an earlier round would answer the second request, and those
\* before it in the queue.
ReadsAreCurrent == option = "Safe" /\ ~repeats => AnswersAreCurrent

\* "LeaseBased ensures linearizability of the read only request by relying on the
\* leader lease" (ReadOnlyOption). It does not: not all elections wait for a lease.
LeaseReadsAreCurrent == option = "LeaseBased" /\ ~repeats => AnswersAreCurrent

\* The queue and the map of pending reads are about the same reads, each there
\* once, also when requests come twice: advance dies where they are not ("cannot
\* find correspond read state from pending map").
QueueIsPending ==
    \A s \in Server :
        /\ ToSet(node[s].queue) = {r.ctx : r \in node[s].pending}
        /\ IsInjective(node[s].queue)
=============================================================================
