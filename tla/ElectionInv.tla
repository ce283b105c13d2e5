---------------------------- MODULE ElectionInv -----------------------------
(***************************************************************************)
(* The inductive invariant of module Election.  Who grants a vote stands   *)
(* by it, so a term has one leader; its log is all that a log with an      *)
(* entry of that term has up to it; and who acknowledged that log only     *)
(* votes for candidates that are not behind it, so it is in the logs of    *)
(* later leaders when a quorum acknowledged it.  The last holds only where *)
(* find_conflict is mended: what was acknowledged is kept.                 *)
(***************************************************************************)
EXTENDS Election

States == {"Follower", "PreCandidate", "Candidate", "Leader", "Dead"}
Peer == Server \cup {None}
Votes == {"none", "yes", "no"}

Nodes == [state : States, term : Nat, vote : Peer, leader_id : Peer, recent : BOOLEAN,
          votes : [Server -> Votes], log : Seq(Nat), saved : Nat, committed : Nat,
          matched : [Server -> Nat], active : SUBSET Server, lead_transferee : Peer]

VoteRequests == [type : {"Vote", "PreVote"}, from : Server, to : Server, term : Nat,
                 index : Nat, log_term : Nat, commit : Nat, commit_term : Nat,
                 transfer : BOOLEAN]
VoteReplies == [type : {"VoteResp", "PreVoteResp"}, from : Server, to : Server, term : Nat,
                reject : BOOLEAN, commit : Nat, commit_term : Nat]
Appends == [type : {"App"}, from : Server, to : Server, term : Nat, log : Seq(Nat),
            commit : Nat]
Heartbeats == [type : {"Heartbeat"}, from : Server, to : Server, term : Nat, commit : Nat]
AppendReplies == [type : {"AppResp"}, from : Server, to : Server, term : Nat, index : Nat]
Signals == [type : {"HeartbeatResp", "TimeoutNow"}, from : Server, to : Server, term : Nat]

\* No server sends to itself.
Messages == {m \in VoteRequests \cup VoteReplies \cup Appends \cup Heartbeats
                  \cup AppendReplies \cup Signals : m.from # m.to}

TypeOK ==
    /\ scenario \in Scenarios
    /\ node \in [Server -> Nodes]
    /\ msgs \subseteq Messages
    /\ elected \subseteq Nat \X Server
    /\ chosen \subseteq [term : Nat, log : Seq(Nat)]

-----------------------------------------------------------------------------
\* One server by itself

LastOf(l) == IF l = <<>> THEN 0 ELSE l[Len(l)]

\* The log has no entry of a later term, and only a leader has one of its own
\* that it did not write yet.
Shape(s, n) ==
    /\ n.saved <= Len(n.log) /\ Len(n.log) <= n.saved + 1
    /\ n.state \notin {"Leader", "Dead"} => n.saved = Len(n.log)
    /\ n.committed <= Len(n.log)
    /\ \A i \in DOMAIN n.log : n.log[i] <= n.term
    /\ n.state \in {"Candidate", "Leader"} => n.term > 0
    /\ n.state = "Candidate" => /\ n.vote = s
                                /\ \A i \in DOMAIN n.log : n.log[i] < n.term
    /\ n.state = "Leader" => /\ n.log # <<>> /\ LastOf(n.log) = n.term
                             /\ n.vote = s
                             /\ n.matched[s] <= n.saved

ShapesOK == \A s \in Server : Shape(s, node[s])

-----------------------------------------------------------------------------
\* Votes

IsQuorum(Q) == HasQuorum(Server, {}, Q)

\* Does s have, or may it still get, the vote of p in term t?
Granted(s, p, t) ==
    \/ node[s].state = "Candidate" /\ node[s].term = t /\ node[s].votes[p] = "yes"
    \/ \E m \in msgs : /\ m.type = "VoteResp" /\ ~m.reject
                       /\ m.from = p /\ m.to = s /\ m.term = t

\* p voted for s in term t, or will never vote in it.
Stands(p, s, t) == node[p].term > t \/ (node[p].term = t /\ node[p].vote = s)

VotesOK ==
    \A s, p \in Server : \A t \in Nat :
        Granted(s, p, t) => /\ Stands(p, s, t)
                            /\ node[s].term >= t
                            /\ \A q \in Server : Granted(q, p, t) => q = s

\* A leader has a quorum that neither voted nor will vote for anybody else.
ElectedOK ==
    /\ \A e \in elected :
          \E Q \in SUBSET Server :
              /\ IsQuorum(Q)
              /\ \A p \in Q : /\ Stands(p, e[2], e[1])
                              /\ \A q \in Server : Granted(q, p, e[1]) => q = e[2]
    /\ \A e \in elected : /\ node[e[2]].term >= e[1]
                          /\ node[e[2]].term = e[1] => node[e[2]].state # "Candidate"
    /\ \A s \in Server :
          node[s].state = "Leader" \/ node[s].saved < Len(node[s].log)
              => <<node[s].term, s>> \in elected

\* A request for votes tells the log of the candidate it is of.
RequestsOK ==
    \A m \in msgs : m.type = "Vote" =>
        /\ node[m.from].term >= m.term
        /\ node[m.from].state = "Candidate" /\ node[m.from].term = m.term
              => m.log_term = LastOf(node[m.from].log)

-----------------------------------------------------------------------------
\* Logs

Logs == {node[s].log : s \in Server} \cup {m.log : m \in {x \in msgs : x.type = "App"}}
        \cup {c.log : c \in chosen}

\* b has all of a before or at its index i.
Holds(a, b, i) == Len(a) <= i /\ \A k \in DOMAIN a : a[k] = b[k]

\* Logs that have an entry of the same term have it in the same place, and the
\* same before it.
LogsMatch ==
    \A a, b \in Logs : \A i \in DOMAIN a, j \in DOMAIN b :
        a[i] = b[j] => i = j /\ \A k \in 1..i : a[k] = b[k]

LogsOK ==
    /\ \A a \in Logs : \A i \in DOMAIN a : \E s \in Server : <<a[i], s>> \in elected
    /\ LogsMatch
    /\ \A a \in Logs : \A i, j \in DOMAIN a : i < j => a[i] < a[j]
    /\ \A m \in msgs : m.type = "App" => /\ m.log # <<>> /\ LastOf(m.log) = m.term
                                         /\ \A i \in DOMAIN m.log : m.log[i] <= m.term
                                         /\ <<m.term, m.from>> \in elected

-----------------------------------------------------------------------------
\* Acknowledgements

\* Has p acknowledged the log of the leader s?
Acked(s, p) ==
    /\ node[s].state = "Leader"
    /\ \/ node[s].matched[p] >= Len(node[s].log)
       \/ \E m \in msgs : /\ m.type = "AppResp" /\ m.index >= Len(node[s].log)
                          /\ m.from = p /\ m.to = s /\ m.term = node[s].term

\* A quorum has left the term of leader s without its log: s cannot commit it.
Beaten(s) ==
    \E Q \in SUBSET Server :
        IsQuorum(Q) /\ \A p \in Q : ~Acked(s, p) /\ node[p].term > node[s].term

\* p has an entry of term t or a later one on disk, and votes for no candidate of a
\* later term that has not.
KeepsUp(p, t) ==
    LET n == node[p]
    IN  /\ n.term >= t
        /\ LastOf(n.log) >= t
        /\ n.saved > 0 /\ n.log[n.saved] >= t
        /\ \A s \in Server :
              node[s].state = "Candidate" /\ node[s].term > t /\ Granted(s, p, node[s].term)
                  => LastOf(node[s].log) >= t

\* Two logs have the same entries up to k.
Agree(a, b, k) == k <= Len(a) /\ k <= Len(b) /\ \A i \in 1..k : a[i] = b[i]

\* p, while it is in the term of leader q, has the log of q up to k, or had committed up
\* to k when an append did not agree with it: it acknowledges that too.
Reached(p, q, k) ==
    /\ node[p].term >= node[q].term
    /\ node[p].term = node[q].term =>
          k <= node[p].committed \/ Agree(node[p].log, node[q].log, k)

AcksOK ==
    /\ \A s, p \in Server : Acked(s, p) => KeepsUp(p, node[s].term) \/ Beaten(s)
    /\ \A s, p \in Server : node[s].state = "Leader" /\ s # p /\ node[s].matched[p] > 0
          => Reached(p, s, node[s].matched[p])
    /\ \A m \in msgs : m.type = "AppResp" /\ m.index > 0 =>
          /\ <<m.term, m.to>> \in elected
          /\ node[m.to].state = "Leader" /\ node[m.to].term = m.term =>
                Reached(m.from, m.to, m.index)

\* A log with an entry of a later term has the log of leader s, unless s can never
\* commit it.
SafeOK ==
    \A s \in Server : \A a \in Logs : \A i \in DOMAIN a :
        node[s].state = "Leader" /\ a[i] > node[s].term =>
            Holds(node[s].log, a, i) \/ Beaten(s)

ChosenOK ==
    \A c \in chosen :
        /\ c.log # <<>> /\ LastOf(c.log) = c.term /\ c.term > 0
        /\ \E Q \in SUBSET Server : IsQuorum(Q) /\ \A p \in Q : KeepsUp(p, c.term)
        /\ \A a \in Logs : \A i \in DOMAIN a : a[i] >= c.term => Holds(c.log, a, i)

-----------------------------------------------------------------------------
\* Commit indexes

\* Is what log has up to k committed?
Committed(log, k) ==
    k > 0 => \E c \in chosen : /\ k <= Len(c.log) /\ k <= Len(log)
                               /\ \A i \in 1..k : c.log[i] = log[i]

CommitsOK ==
    /\ \A s \in Server : Committed(node[s].log, node[s].committed)
    /\ \A m \in msgs :
          /\ m.type = "App" => Committed(m.log, m.commit)
          /\ m.type = "Heartbeat" /\ m.commit > 0 =>
                /\ <<m.term, m.from>> \in elected
                /\ node[m.to].term >= m.term
                /\ node[m.to].term = m.term => Committed(node[m.to].log, m.commit)
                /\ \A a \in Logs : \A i \in DOMAIN a :
                      a[i] = m.term => m.commit <= i /\ Committed(a, m.commit)
          /\ m.type \in VoteTypes /\ m.commit # 0 /\ m.commit_term # 0 =>
                \E c \in chosen : /\ m.commit \in DOMAIN c.log
                                  /\ c.log[m.commit] = m.commit_term

\* Is what is acknowledged kept?
Kept == "find_conflict" \in repaired

IInv ==
    /\ TypeOK /\ ShapesOK
    /\ VotesOK /\ ElectedOK /\ RequestsOK /\ ElectionSafety
    /\ LogsOK
    /\ Kept => AcksOK /\ SafeOK /\ ChosenOK /\ CommitsOK
=============================================================================
