-------------------------- MODULE PeerProgressInv --------------------------
(***************************************************************************)
(* Inductive invariants of PeerProgress: what keeps the log of the peer,   *)
(* the progress the leader keeps of it and the messages between them       *)
(* together, and the window in order.                                      *)
(***************************************************************************)
EXTENDS PeerProgress

\* Logs a and b hold the same first n entries.
Agree(n, a, b) ==
    /\ n \in Nat
    /\ n <= Len(a) /\ n <= Len(b)
    /\ \A i \in 1..n : a[i] = b[i]

\* Entries of one index and term are the same in logs a and l, with all before
\* them, and a has nothing of the last term of l that l has not.
Matching(a, l) ==
    /\ \A i \in 1..Len(a) : i <= Len(l) /\ a[i] = l[i] => Agree(i, a, l)
    /\ \A i \in 1..Len(a) : i > Len(l) => a[i] # l[Len(l)]

LeaderOK ==
    /\ repaired \in Repairs /\ batch_append \in BOOLEAN
    /\ log \in Seq(Nat \ {0}) /\ Len(log) >= 1
    /\ committed \in Nat /\ committed <= Len(log)
    /\ compacted \in Nat /\ compacted <= committed

\* A peer that asks for a snapshot takes no entries, so that it still has the log it
\* asked with.
PeerOK(p, l) ==
    /\ p \in [log : Seq(Nat \ {0}), committed : Nat, request : Nat]
    /\ Agree(p.committed, p.log, l)
    /\ p.request # 0 => p.request = Len(p.log)
    /\ Matching(p.log, l)

-----------------------------------------------------------------------------
\* Progress and messages, where the peer's log is a and the leader's is l,
\* committed up to c.

Progresses ==
    [matched : Nat, next_idx : Nat, state : {"Probe", "Replicate", "Snapshot"},
     paused : BOOLEAN, pending_snapshot : Nat, request : Nat,
     recent_active : BOOLEAN, ins : Seq(Nat)]

ProgressOK(p, a, l) ==
    /\ p \in Progresses
    /\ Agree(p.matched, a, l)
    /\ p.next_idx >= 1 /\ p.next_idx <= Len(l) + 1
    /\ p.pending_snapshot <= Len(l)

Appends == [type : {"App"}, index : Nat, ents : Seq(Nat), commit : Nat]

\* An append is a segment of the leader's log.
AppendOK(m, l) ==
    /\ m \in Appends
    /\ \A k \in DOMAIN m.ents : m.ents[k] = m.index + k
    /\ m.index + Len(m.ents) <= Len(l)

MessageOK(m, a, l, c) ==
    \/ AppendOK(m, l)
    \/ m.type = "Snap" /\ m.index \in Nat /\ m.index <= c
    \/ m.type = "Heartbeat" /\ Agree(m.commit, a, l)
    \/ m.type = "HeartbeatResp"
    \/ /\ m.type = "AppResp"
       /\ {m.index, m.hint, m.log_term, m.request} \subseteq Nat
       /\ m.reject \in BOOLEAN
       /\ ~m.reject => Agree(m.index, a, l)

OutOK(o, l) ==
    /\ o \in Seq(Appends)
    /\ \A k \in DOMAIN o : AppendOK(o[k], l)

NetOK(ms, a, l, c) == \A m \in ms : MessageOK(m, a, l, c)

\* What leader and peer know of each other's logs.
LogsOK ==
    /\ LeaderOK
    /\ PeerOK(peer, log)
    /\ ProgressOK(pr, peer.log, log)
    /\ OutOK(out, log)
    /\ NetOK(net, peer.log, log, committed)

\* The window is in order while the leader replicates, and empty otherwise.
WindowOK(p) ==
    /\ Len(p.ins) <= Window
    /\ p.state = "Replicate" =>
          /\ p.matched < p.next_idx
          /\ \A k \in DOMAIN p.ins : p.matched < p.ins[k] /\ p.ins[k] < p.next_idx
          /\ \A k \in 2..Len(p.ins) : p.ins[k - 1] < p.ins[k]
    /\ p.state # "Replicate" => p.ins = <<>>

\* Both, with the assertions, which they keep from failing.
PeerInv ==
    /\ LogsOK
    /\ WindowOK(pr)
    /\ BothSurvive
=============================================================================
