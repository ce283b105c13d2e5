------------------------------ MODULE Election ------------------------------
(***************************************************************************)
(* Raft with several voters: terms, votes, pre-votes, leases, transfers of *)
(* leadership, check-quorum and what a leader commits (step, hup,          *)
(* campaign, become_*, step_candicate, step_follower, step_leader and tick *)
(* of raft.rs), over a network that loses, delays, reorders and duplicates *)
(* messages, with crashes and restarts.                                    *)
(*                                                                         *)
(* All voters have the same priority, and there are no learners: the       *)
(* configuration is in ConfChange, unapplied changes of it are in RawNode. *)
(*                                                                         *)
(* A handler, the write of its Ready and the sending of its messages are   *)
(* one step: a crash in between loses the messages, which the network may  *)
(* do anyway.  Only a leader sends before it writes, so only its last      *)
(* entries may be lost (saved).  A leader appends nothing but its empty    *)
(* entry, and an append brings its log up to any index: how a leader finds *)
(* where the logs part is in FollowerLog and PeerProgress.                 *)
(*                                                                         *)
(* As it is written, the code does not survive its first message:          *)
(* new_message unwraps a from that is None, and send takes a missing term  *)
(* for one that must not be there.  `repaired' names the defects that are  *)
(* taken for mended, so that what lies behind them can be checked.         *)
(***************************************************************************)
EXTENDS Majorities, Sequences

CONSTANTS
    Server,
    None,           \* no server: INVALID_ID
    Scenarios       \* see Scenario

Defects == {"new_message", "send_term", "pre_vote", "in_lease", "find_conflict"}

\* The defects taken for mended ({}: the code as it is), the settings of all
\* servers, and four bounds: the terms in which somebody campaigns, how often a
\* timer runs out, a server crashes or a transfer is asked for, whether transfers
\* are asked for at all, and whether the network forgets messages that are of little
\* use (Spent, Overtaken).
Scenario == [repaired : SUBSET Defects, config : SUBSET {"pre_vote", "check_quorum"},
             max_term : Nat, max_disruptions : Nat, transfers : BOOLEAN,
             forgets : BOOLEAN]

ASSUME ElectionAssumption ==
    /\ IsFiniteSet(Server) /\ Cardinality(Server) >= 2
    /\ None \notin Server
    /\ \A x \in Scenarios : x \in Scenario

VARIABLES
    scenario,       \* never changes
    node,           \* server -> its Raft, or the state "Dead"
    msgs,           \* messages sent: they may come late, twice or never
    disruptions,    \* timers that ran out, crashes and transfers so far
    panics,         \* assertions that failed
    elected,        \* history: <<term, server>> of the leaders there were
    chosen          \* history: [term, log] of what leaders committed

vars == <<scenario, node, msgs, disruptions, panics, elected, chosen>>

repaired == scenario.repaired
config == scenario.config
MaxTerm == scenario.max_term
MaxDisruptions == scenario.max_disruptions

-----------------------------------------------------------------------------
\* A node: its log is the terms of its entries.

NoVotes == [s \in Server |-> "none"]
NoneMatched == [s \in Server |-> 0]

NewNode == [state |-> "Follower", term |-> 0, vote |-> None, leader_id |-> None,
            recent |-> TRUE,      \* election_elapsed < election_timeout
            votes |-> NoVotes, log |-> <<>>, saved |-> 0, committed |-> 0,
            matched |-> NoneMatched, active |-> {}, lead_transferee |-> None]

LastIndex(n) == Len(n.log)
TermOf(n, i) == IF i \in DOMAIN n.log THEN n.log[i] ELSE 0
LastTerm(n) == TermOf(n, LastIndex(n))

Reset(n, t) ==
    [n EXCEPT !.term = t, !.vote = IF n.term = t THEN @ ELSE None,
              !.leader_id = None, !.recent = TRUE, !.lead_transferee = None,
              !.votes = NoVotes, !.matched = NoneMatched, !.active = {}]

BecomeFollower(n, t, leader) ==
    [Reset(n, t) EXCEPT !.leader_id = leader, !.state = "Follower"]

BecomeCandidate(s, n) ==
    [Reset(n, n.term + 1) EXCEPT !.vote = s, !.state = "Candidate"]

BecomePreCandidate(n) ==
    [n EXCEPT !.state = "PreCandidate", !.votes = NoVotes, !.leader_id = None]

\* Its own entries count as matched when they are on disk; those of earlier
\* leaders are.
BecomeLeader(s, n) ==
    [Reset(n, n.term) EXCEPT !.leader_id = s, !.state = "Leader",
                             !.log = Append(@, n.term),
                             !.matched = [@ EXCEPT ![s] = n.saved]]

\* record_vote: the first vote of a peer counts.
Poll(n, from, vote) ==
    [n EXCEPT !.votes[from] = IF @ # "none" THEN @ ELSE IF vote THEN "yes" ELSE "no"]

Result(n) == JointVoteResult(Server, {}, {s \in Server : n.votes[s] = "yes"},
                                         {s \in Server : n.votes[s] = "none"})

\* maybe_commit of a leader: what a quorum has, if its last entry is of this term.
LeaderCommit(n) ==
    LET most == {i \in 1..LastIndex(n) : HasQuorum(Server, {}, {s \in Server : n.matched[s] >= i})}
    IN  IF most = {} THEN n.committed
        ELSE LET mci == CHOOSE i \in most : \A j \in most : j <= i
             IN  IF mci > n.committed /\ TermOf(n, mci) = n.term THEN mci ELSE n.committed

MaybeCommit(n) == [n EXCEPT !.committed = LeaderCommit(n)]

-----------------------------------------------------------------------------
\* Messages

VoteTypes == {"Vote", "PreVote", "VoteResp", "PreVoteResp"}

Check(name, ok) == IF ok THEN {} ELSE {name}

\* What building and sending the messages asserts: `made' come from new_message
\* without a from, and only votes have a term before send gives them one.
Died(made, out) ==
    Check("new_message", made = {} \/ "new_message" \in repaired)
    \cup Check("send", (\A m \in out : m.type \in VoteTypes) \/ "send_term" \in repaired)

VoteRequest(s, n, type, t, transfer) ==
    {[type |-> type, from |-> s, to |-> p, term |-> t, index |-> LastIndex(n),
      log_term |-> LastTerm(n), commit |-> n.committed,
      commit_term |-> TermOf(n, n.committed), transfer |-> transfer] :
        p \in Server \ {s}}

VoteReply(s, n, m, t, reject) ==
    [type |-> IF m.type = "Vote" THEN "VoteResp" ELSE "PreVoteResp",
     from |-> s, to |-> m.from, term |-> t, reject |-> reject,
     commit |-> IF reject THEN n.committed ELSE 0,
     commit_term |-> IF reject THEN TermOf(n, n.committed) ELSE 0]

AppendTo(s, n, p) ==
    [type |-> "App", from |-> s, to |-> p, term |-> n.term, log |-> n.log,
     commit |-> n.committed]

BcastAppend(s, n) == {AppendTo(s, n, p) : p \in Server \ {s}}

\* Mutant: a heartbeat tells the commit index to a peer that does not have the log.
BcastHeartbeatUncapped(s, n) ==
    {[type |-> "Heartbeat", from |-> s, to |-> p, term |-> n.term,
      commit |-> n.committed] : p \in Server \ {s}}

BcastHeartbeat(s, n) ==
    {[type |-> "Heartbeat", from |-> s, to |-> p, term |-> n.term,
      commit |-> Smaller(n.matched[p], n.committed)] : p \in Server \ {s}}

AppendReply(s, n, p, index) ==
    [type |-> "AppResp", from |-> s, to |-> p, term |-> n.term, index |-> index]

TimeoutNow(s, n, p) == [type |-> "TimeoutNow", from |-> s, to |-> p, term |-> n.term]

-----------------------------------------------------------------------------
\* Steps

\* A follower or candidate writes its log with the Ready.
Saved(n) == IF n.state = "Leader" THEN n ELSE [n EXCEPT !.saved = LastIndex(n)]

\* recent_active of the peers: only check_quorum reads it.
Heard(n, p) == IF "check_quorum" \in config THEN n.active \cup {p} ELSE {}
Known(m, n) == n.active = Heard(n, m.from)

\* Is message m of no more use to its receiver n?
Spent(m, n) ==
    \/ /\ m.term < n.term
       /\ \/ config = {} \/ m.type \notin {"App", "Heartbeat", "PreVote"}
          \/ node'[m.from].term >= n.term
    \/ /\ m.type = "PreVote" /\ node'[m.from].state \notin {"PreCandidate", "Candidate"}
       /\ m.commit <= n.committed
    \/ m.type = "PreVoteResp" /\ n.state # "PreCandidate" /\ (m.reject => m.term <= n.term)
    \/ /\ m.term = n.term
       /\ CASE m.type = "VoteResp" -> n.state # "Candidate" \/ n.votes[m.from] # "none"
            [] m.type = "TimeoutNow" -> n.state # "Follower"
            [] m.type = "AppResp" ->
                  \/ n.state # "Leader"
                  \/ m.index <= n.matched[m.from] /\ Known(m, n)
            [] m.type = "HeartbeatResp" -> n.state # "Leader" \/ Known(m, n)
            [] m.type = "App" ->
                  /\ n.leader_id = m.from /\ n.recent /\ m.commit <= n.committed
                  /\ n.log = m.log /\ "find_conflict" \in repaired
            [] m.type = "Heartbeat" ->
                  n.leader_id = m.from /\ n.recent /\ m.commit <= n.committed
            [] OTHER -> FALSE

\* A newer heartbeat takes the place of an older one and of its answer.
Overtaken(m, out) ==
    m.type \in {"Heartbeat", "HeartbeatResp"}
    /\ \E h \in out : h.type = "Heartbeat" /\ {h.from, h.to} = {m.from, m.to}

\* The network when out is sent.
Sent(out) ==
    IF scenario.forgets
    THEN {m \in {x \in msgs : ~Overtaken(x, out)} \cup out : ~Spent(m, node'[m.to])}
    ELSE msgs \cup out

\* Server s becomes n and sends out; or it dies of a failed assertion.
Do(s, n, made, out, failed) ==
    LET died == failed \cup Died(made, made \cup out)
    IN  /\ panics' = panics \cup died
        /\ IF died = {}
           THEN /\ node' = [node EXCEPT ![s] = Saved(n)]
                /\ msgs' = Sent(made \cup out)
                /\ elected' = IF n.state = "Leader" THEN elected \cup {<<n.term, s>>}
                              ELSE elected
                /\ chosen' = IF n.state = "Leader" /\ n.committed > node[s].committed
                             THEN chosen \cup {[term |-> n.term,
                                                log |-> SubSeq(n.log, 1, n.committed)]}
                             ELSE chosen
           ELSE /\ node' = [node EXCEPT ![s].state = "Dead"]
                /\ UNCHANGED <<msgs, elected, chosen>>
        /\ UNCHANGED scenario

Disrupt == disruptions < MaxDisruptions /\ disruptions' = disruptions + 1

Alive(s) == node[s].state # "Dead"

\* campaign: with pre-vote as with any other kind the node becomes a candidate.
\* One's own vote is not enough.
Campaign(s, n, kind) ==
    LET pre == kind = "pre_election"
        c   == IF pre /\ "pre_vote" \in repaired THEN BecomePreCandidate(n)
               ELSE BecomeCandidate(s, n)
    IN  [node |-> Poll(c, s, TRUE),
         made |-> VoteRequest(s, c, IF pre THEN "PreVote" ELSE "Vote",
                              IF pre THEN c.term + 1 ELSE c.term, kind = "transfer")]

\* hup of a node that is no leader. Whether unapplied configuration changes
\* forbid it is in module RawNode.
Hup(s, n, kind) ==
    LET c == Campaign(s, n, kind)
    IN  n.term < MaxTerm /\ Do(s, c.node, c.made, {}, {})

\* tick_election: the time of a lease runs out, and after it the randomized
\* timeout.
LeaseExpires(s) ==
    /\ "check_quorum" \in config
    /\ Alive(s) /\ node[s].state # "Leader" /\ node[s].recent
    /\ Disrupt
    /\ Do(s, [node[s] EXCEPT !.recent = FALSE], {}, {}, {})

ElectionTimeout(s) ==
    /\ Alive(s) /\ node[s].state # "Leader"
    /\ "check_quorum" \in config => ~node[s].recent
    /\ Disrupt
    /\ Hup(s, [node[s] EXCEPT !.recent = TRUE],
           IF "pre_vote" \in config THEN "pre_election" ELSE "election")

\* tick_heartbeat
Beat(s) ==
    /\ node[s].state = "Leader"
    /\ Do(s, node[s], {}, BcastHeartbeat(s, node[s]), {})

QuorumRecentlyActive(s, n) == HasQuorum(Server, {}, n.active \cup {s})

\* tick_heartbeat after an election timeout: quorum_recently_active takes and
\* forgets who was heard of, and a transfer is given up.
CheckQuorum(s) ==
    LET n == node[s]
    IN  /\ n.state = "Leader"
        /\ "check_quorum" \in config \/ n.lead_transferee # None
        /\ Disrupt
        /\ Do(s, IF "check_quorum" \in config /\ ~QuorumRecentlyActive(s, n)
                 THEN BecomeFollower(n, n.term, None)
                 ELSE [n EXCEPT !.active = IF "check_quorum" \in config THEN {} ELSE @,
                                !.lead_transferee = None], {}, {}, {})

\* on_persist_entries of a leader.
PersistEntries(s) ==
    LET n == node[s]
        p == MaybeCommit([n EXCEPT !.saved = LastIndex(n), !.matched[s] = LastIndex(n)])
    IN  /\ n.state = "Leader" /\ n.saved < LastIndex(n)
        /\ Do(s, p, {}, IF p.committed > n.committed THEN BcastAppend(s, p) ELSE {}, {})

\* handle_transfer_leader: a transfer to the leader itself ends another one.
TransferLeader(s, p) ==
    LET n == [node[s] EXCEPT !.lead_transferee = IF p = s THEN None ELSE p]
        done == n.matched[p] = LastIndex(n)
    IN  /\ scenario.transfers /\ node[s].state = "Leader" /\ node[s].term < MaxTerm
        /\ n.lead_transferee # node[s].lead_transferee
        /\ Disrupt
        /\ IF p = s THEN Do(s, n, {}, {}, {})
           ELSE Do(s, n, IF done THEN {TimeoutNow(s, n, p)} ELSE {},
                         IF done THEN {} ELSE {AppendTo(s, n, p)}, {})

-----------------------------------------------------------------------------
\* Raft::step: the term of a message

\* Mutant: the lease begins when the timeout has passed.
InLeaseAfterTimeout(n) == "check_quorum" \in config /\ ~n.recent /\ n.leader_id # None

\* The lease of a leader: as it is written, of a node that has none.
InLease(n) ==
    /\ "check_quorum" \in config /\ n.recent
    /\ IF "in_lease" \in repaired THEN n.leader_id # None ELSE n.leader_id = None

IgnoredInLease(n, m) ==
    m.term > n.term /\ m.type \in {"Vote", "PreVote"} /\ ~m.transfer /\ InLease(n)

\* The node when a message of a higher term has been looked at.
AtTerm(n, m) ==
    IF \/ m.term <= n.term
       \/ m.type = "PreVote"
       \/ m.type = "PreVoteResp" /\ ~m.reject
    THEN n
    ELSE BecomeFollower(n, m.term,
                        IF m.type \in {"App", "Heartbeat"} THEN m.from ELSE None)

\* A message of type in types, for s, that is not of an old term; n is the node
\* that handles it.
Receives(s, m, types) ==
    Alive(s) /\ m.to = s /\ m.type \in types /\ m.term >= node[s].term

\* Answers to messages of an old term.
OldTerm(s, m) ==
    LET n == node[s]
    IN  /\ Alive(s) /\ m.to = s /\ m.term < n.term
        /\ \/ /\ config # {}
              /\ m.type \in {"App", "Heartbeat"}
              /\ Do(s, n, {AppendReply(s, n, m.from, 0)}, {}, {})
           \/ /\ m.type = "PreVote"
              /\ Do(s, n, {VoteReply(s, [n EXCEPT !.committed = 0], m, n.term, TRUE)}, {}, {})

-----------------------------------------------------------------------------
\* Votes

\* Mutant: a node votes for whoever has the longer log.
LongerLog(n, m) == m.index >= LastIndex(n)

IsUpToDate(n, m) ==
    \/ m.log_term > LastTerm(n)
    \/ m.log_term = LastTerm(n) /\ m.index >= LastIndex(n)

\* Mutant: who has no leader votes again.
CanVoteAgain(n, m) ==
    \/ n.vote = m.from
    \/ n.leader_id = None
    \/ m.type = "PreVote" /\ m.term > n.term

CanVote(n, m) ==
    \/ n.vote = m.from
    \/ n.vote = None /\ n.leader_id = None
    \/ m.type = "PreVote" /\ m.term > n.term

\* Mutant: the term of the entry is not compared.
CommittedByVoteUnchecked(n, m) ==
    /\ m.commit # 0 /\ m.commit_term # 0
    /\ m.commit > n.committed /\ n.state # "Leader"
    /\ m.commit <= LastIndex(n)

\* Does maybe_commit_by_vote move the commit index?
CommittedByVote(n, m) ==
    /\ m.commit # 0 /\ m.commit_term # 0
    /\ m.commit > n.committed /\ n.state # "Leader"
    /\ TermOf(n, m.commit) = m.commit_term

\* What it leaves: a candidate steps down if one of the entries changes the
\* configuration, which the model leaves open.
MaybeCommitByVote(n, m) ==
    LET c == [n EXCEPT !.committed = m.commit]
    IN  IF ~CommittedByVote(n, m) THEN {n}
        ELSE {c} \cup IF n.state \in {"Candidate", "PreCandidate"}
                      THEN {BecomeFollower(c, c.term, None)} ELSE {}

ReceiveVote(s, m) ==
    LET n == AtTerm(node[s], m)
    IN  /\ Receives(s, m, {"Vote", "PreVote"})
        /\ ~IgnoredInLease(node[s], m)
        /\ IF CanVote(n, m) /\ IsUpToDate(n, m)
           THEN Do(s, IF m.type = "Vote" THEN [n EXCEPT !.recent = TRUE, !.vote = m.from]
                      ELSE n,
                   {VoteReply(s, n, m, m.term, FALSE)}, {}, {})
           ELSE \E c \in MaybeCommitByVote(n, m) :
                   Do(s, c, {VoteReply(s, n, m, n.term, TRUE)}, {}, {})

\* The node after a vote: a pre-candidate that won campaigns, a candidate leads.
ReceiveVoteResp(s, m) ==
    LET n == AtTerm(node[s], m)
        p == Poll(n, m.from, ~m.reject)
    IN  /\ Receives(s, m, {"VoteResp", "PreVoteResp"})
        /\ IF <<n.state, m.type>> \notin {<<"PreCandidate", "PreVoteResp">>,
                                          <<"Candidate", "VoteResp">>}
           THEN n # node[s] /\ Do(s, n, {}, {}, {})
           ELSE \/ /\ Result(p) = "won" /\ n.state = "PreCandidate"
                   /\ Hup(s, p, "election")
                \/ /\ Result(p) = "won" /\ n.state = "Candidate"
                   /\ LET l == BecomeLeader(s, p)
                      IN  Do(s, l, {}, BcastAppend(s, l),
                             Check("become_leader: persisted", p.saved = LastIndex(p)))
                \/ /\ Result(p) # "won"
                   /\ \E c \in MaybeCommitByVote(IF Result(p) = "lost"
                                                 THEN BecomeFollower(p, p.term, None)
                                                 ELSE p, m) :
                         Do(s, c, {}, {}, {})

ReceiveTimeoutNow(s, m) ==
    LET n == AtTerm(node[s], m)
    IN  /\ Receives(s, m, {"TimeoutNow"})
        /\ IF n.state = "Follower" THEN Hup(s, n, "transfer")
           ELSE n # node[s] /\ Do(s, n, {}, {}, {})

-----------------------------------------------------------------------------
\* Appends and heartbeats

\* A candidate becomes a follower of the leader, a follower starts its lease.
Follow(n, m) ==
    IF n.state = "Follower" THEN [n EXCEPT !.recent = TRUE, !.leader_id = m.from]
    ELSE BecomeFollower(n, m.term, m.from)

Larger(a, b) == IF a < b THEN b ELSE a

IsPrefixOf(a, b) == Len(a) <= Len(b) /\ SubSeq(b, 1, Len(a)) = a

\* Does log have what n committed?
HasCommitted(log, n) ==
    n.committed <= Len(log) /\ SubSeq(n.log, 1, n.committed) = SubSeq(log, 1, n.committed)

\* What the log of n may become with a leader's entries up to some index: it stays when
\* it has them. As find_conflict is written, it may be cut off after them instead.
Taken(n, entries) ==
    IF IsPrefixOf(entries, n.log)
    THEN {n.log} \cup {l \in {entries} : "find_conflict" \notin repaired
                                         /\ Len(l) > n.committed}
    ELSE {entries}

\* handle_append_entries of an append that brings the log up to index k. One that
\* begins below the commit index is answered with that index, whatever its entries are.
ReceiveAppend(s, m) ==
    LET n == Follow(AtTerm(node[s], m), m)
    IN  /\ Receives(s, m, {"App"})
        /\ AtTerm(node[s], m).state # "Leader"
        /\ \E k \in DOMAIN m.log :
              LET entries == SubSeq(m.log, 1, k)
                  commit  == Larger(n.committed, Smaller(m.commit, k))
              IN  IF HasCommitted(entries, n)
                  THEN \E l \in Taken(n, entries) :
                          Do(s, [n EXCEPT !.log = l, !.committed = commit], {},
                             {AppendReply(s, n, m.from, k)}, {})
                  ELSE Do(s, n, {}, {AppendReply(s, n, m.from, n.committed)}, {})

ReceiveHeartbeat(s, m) ==
    LET n == Follow(AtTerm(node[s], m), m)
    IN  /\ Receives(s, m, {"Heartbeat"})
        /\ AtTerm(node[s], m).state # "Leader"
        /\ Do(s, [n EXCEPT !.committed = IF m.commit > @ THEN m.commit ELSE @], {},
              {[type |-> "HeartbeatResp", from |-> s, to |-> m.from, term |-> n.term]},
              Check("commit_to", m.commit <= LastIndex(n)))

\* handle_append_response: a transfer goes on when the peer has everything.
ReceiveAppendResp(s, m) ==
    LET n == AtTerm(node[s], m)
        u == MaybeCommit([n EXCEPT !.active = Heard(n, m.from),
                                   !.matched[m.from] = IF m.index > @ THEN m.index ELSE @])
        go == m.index > n.matched[m.from] /\ n.lead_transferee = m.from
              /\ u.matched[m.from] = LastIndex(u)
    IN  /\ Receives(s, m, {"AppResp"})
        /\ IF n.state = "Leader"
           THEN Do(s, u, IF go THEN {TimeoutNow(s, u, m.from)} ELSE {},
                   IF u.committed > n.committed THEN BcastAppend(s, u) ELSE {}, {})
           ELSE n # node[s] /\ Do(s, n, {}, {}, {})

ReceiveHeartbeatResp(s, m) ==
    LET n == AtTerm(node[s], m)
    IN  /\ Receives(s, m, {"HeartbeatResp"})
        /\ IF n.state = "Leader"
           THEN Do(s, [n EXCEPT !.active = Heard(n, m.from)], {},
                   IF n.matched[m.from] < LastIndex(n) THEN {AppendTo(s, n, m.from)} ELSE {}, {})
           ELSE n # node[s] /\ Do(s, n, {}, {}, {})

-----------------------------------------------------------------------------

\* A crash, or the end of a node that died, and Raft::new on what is on disk.
Restart(s) ==
    /\ Disrupt
    /\ node' = [node EXCEPT ![s] =
          [NewNode EXCEPT !.term = node[s].term, !.vote = node[s].vote,
                          !.log = SubSeq(node[s].log, 1, node[s].saved),
                          !.saved = node[s].saved,
                          !.committed = Smaller(node[s].committed, node[s].saved)]]
    /\ UNCHANGED <<scenario, msgs, panics, elected, chosen>>

Init ==
    /\ scenario \in Scenarios
    /\ node = [s \in Server |-> NewNode]
    /\ msgs = {}
    /\ disruptions = 0
    /\ panics = {}
    /\ elected = {}
    /\ chosen = {}

Steady ==
    \/ \E s \in Server : Beat(s) \/ PersistEntries(s)
    \/ \E m \in msgs :
          \/ OldTerm(m.to, m)
          \/ ReceiveVote(m.to, m) \/ ReceiveVoteResp(m.to, m) \/ ReceiveTimeoutNow(m.to, m)
          \/ ReceiveAppend(m.to, m) \/ ReceiveAppendResp(m.to, m)
          \/ ReceiveHeartbeat(m.to, m) \/ ReceiveHeartbeatResp(m.to, m)

Next ==
    \/ Steady /\ UNCHANGED disruptions
    \/ \E s \in Server :
          \/ LeaseExpires(s) \/ ElectionTimeout(s) \/ CheckQuorum(s) \/ Restart(s)
          \/ \E p \in Server : TransferLeader(s, p)

Spec == Init /\ [][Next]_vars

-----------------------------------------------------------------------------

\* No assertion of a node fails, and every message it builds can be sent.
NodesSurvive == panics = {}

\* At most one leader in a term, over crashes, restarts, transfers and votes that
\* come late or twice (Raft::step, poll, become_leader).
ElectionSafety ==
    \A a, b \in elected : a[1] = b[1] => a[2] = b[2]

\* A leader has everything that leaders of earlier terms committed: what the
\* comparison of logs in a vote and the commit rule of the own term are for.
LeaderCompleteness ==
    \A s \in Server : \A c \in chosen :
        node[s].state = "Leader" /\ node[s].term > c.term => IsPrefixOf(c.log, node[s].log)

\* A node that heard from its leader within the election timeout takes part in no
\* vote of a later term, unless leadership is being transferred ("it does not
\* update its term or grant its vote", Raft::step).
LeaseStandsFirm ==
    [][\A s \in Server :
          /\ "check_quorum" \in config
          /\ node[s].state = "Follower" /\ node[s].leader_id # None /\ node[s].recent
          /\ node'[s].term > node[s].term /\ node'[s].vote # None
          => \E m \in msgs \cup msgs' :
                m.type = "TimeoutNow" \/ (m.type = "Vote" /\ m.transfer)]_vars

\* What a node takes for committed was committed by a leader, whoever told it:
\* append, heartbeat or a vote (maybe_commit_by_vote).
CommittedWasChosen ==
    \A s \in Server :
        node[s].committed > 0 =>
            \E c \in chosen : /\ Len(c.log) >= node[s].committed
                              /\ SubSeq(c.log, 1, node[s].committed)
                                 = SubSeq(node[s].log, 1, node[s].committed)
=============================================================================
