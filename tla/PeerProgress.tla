---------------------------- MODULE PeerProgress ----------------------------
(***************************************************************************)
(* How a leader brings its log to one peer: Progress (progres.rs) with its *)
(* states and its window, maybe_send_append and what it calls, and the     *)
(* handlers of the answers (raft.rs); composed with that peer's handlers   *)
(* and a network between the two that loses, duplicates and reorders.      *)
(*                                                                         *)
(* The leader's log only grows, so a message names entries by their        *)
(* indexes.  There are three voters: the leader, the peer and one that the *)
(* model leaves open; the leader has all its entries on disk.  Snapshots   *)
(* are of the commit index, as those of MemStorage are.                    *)
(*                                                                         *)
(* Messages are taken to get through RaftCore::send (module Election); the *)
(* other defects of the code on this way are in `repaired' when they are   *)
(* taken for mended.                                                       *)
(***************************************************************************)
EXTENDS Integers, Sequences, FiniteSets, Functions

CONSTANTS
    Repairs,        \* sets of defects taken for mended
    Batches,        \* values of batch_append
    OldLog,         \* the terms of the leader's entries when it is elected
    PeerLogs,       \* logs the peer may have then
    Window,         \* max_inflight_msgs
    Batch,          \* entries in a message: max_size_per_msg
    MaxIndex,       \* bound: the length of the leader's log
    MaxOut,         \* bound: appends that wait for a Ready, with batch_append
    MaxNet,         \* bound: messages under way; more are lost
    MaxFaults       \* bound: messages lost or duplicated, peers out of reach,
                    \* snapshots asked for

Defects == {"update_state", "find_conflict", "is_continuous", "restore"}

\* The logs of a leader that was just elected and of a peer match: an entry of one
\* index and term is the same in both, with all before it, and the leader's term
\* is new (module Election).
LogsMatch(l, old) ==
    \A i \in DOMAIN l :
       /\ l[i] # old[Len(old)] + 1
       /\ i <= Len(old) /\ l[i] = old[i] => \A j \in 1..i : l[j] = old[j]

ASSUME PeerAssumption ==
    /\ Repairs \subseteq SUBSET Defects
    /\ Batches \subseteq BOOLEAN
    /\ OldLog \in Seq(Nat \ {0}) /\ OldLog # <<>>
    /\ PeerLogs \subseteq Seq(Nat \ {0})
    /\ \A l \in PeerLogs : LogsMatch(l, OldLog)
    /\ {Window, Batch} \subseteq Nat \ {0}
    /\ {MaxIndex, MaxOut, MaxNet, MaxFaults} \subseteq Nat

VARIABLES
    repaired, batch_append,
    log, committed, compacted,  \* of the leader: terms; entries up to compacted are gone
    pr,                         \* the Progress of the peer
    peer,                       \* its log, commit index and pending_request_snapshot
    out,                        \* appends that wait for the next Ready
    net,                        \* messages under way
    faults,
    panics

leaderVars == <<log, committed, compacted>>
vars == <<repaired, batch_append, leaderVars, pr, peer, out, net, faults, panics>>

Last(s) == s[Len(s)]
Larger(a, b) == IF a >= b THEN a ELSE b
Smaller(a, b) == IF a <= b THEN a ELSE b

Check(name, ok) == IF ok THEN {} ELSE {name}

\* RaftLog::term: 0 out of range.
TermOf(l, i) == IF i \in DOMAIN l THEN l[i] ELSE 0

\* find_conflict_by_term(index, t): down to an entry whose term is at most t.
FindConflictByTerm(l, index, t) ==
    CHOOSE i \in 0..index : /\ TermOf(l, i) <= t
                            /\ \A j \in (i + 1)..index : TermOf(l, j) > t

-----------------------------------------------------------------------------
\* Progress

NewProgress(next) ==
    [matched |-> 0, next_idx |-> next, state |-> "Probe", paused |-> FALSE,
     pending_snapshot |-> 0, request |-> 0, recent_active |-> FALSE, ins |-> <<>>]

ResetState(p, state) ==
    [p EXCEPT !.paused = FALSE, !.pending_snapshot = 0, !.state = state, !.ins = <<>>]

BecomeProbe(p) ==
    [ResetState(p, "Probe") EXCEPT
        !.next_idx = IF p.state = "Snapshot" THEN Larger(p.matched, p.pending_snapshot) + 1
                     ELSE p.matched + 1]

BecomeReplicate(p) == [ResetState(p, "Replicate") EXCEPT !.next_idx = p.matched + 1]

BecomeSnapshot(p, i) == [ResetState(p, "Snapshot") EXCEPT !.pending_snapshot = i]

\* maybe_update: what it leaves; it says whether matched grew.
MaybeUpdate(p, n) ==
    [p EXCEPT !.matched = Larger(@, n), !.next_idx = Larger(@, n + 1),
              !.paused = IF p.matched < n THEN FALSE ELSE @]

\* Does maybe_decr_to take a rejection for one that came late?
IsStale(p, rejected, request) ==
    IF p.state = "Replicate"
    THEN rejected < p.matched \/ (rejected = p.matched /\ request = 0)
    ELSE p.next_idx - 1 # rejected /\ request = 0

\* maybe_decr_to of a rejection that did not.
DecrTo(p, rejected, hint, request) ==
    IF p.state = "Replicate"
    THEN IF request = 0 THEN [p EXCEPT !.next_idx = p.matched + 1]
         ELSE [p EXCEPT !.request = request]
    ELSE IF request = 0
         THEN [p EXCEPT !.next_idx = Larger(1, Smaller(rejected, hint + 1)), !.paused = FALSE]
         ELSE [p EXCEPT !.request = IF @ = 0 THEN request ELSE @, !.paused = FALSE]

\* Mutant: a full window is no reason to wait.
WindowIgnored(p) == p.state = "Snapshot" \/ (p.state = "Probe" /\ p.paused)

IsPaused(p) ==
    \/ p.state = "Probe" /\ p.paused
    \/ p.state = "Replicate" /\ Len(p.ins) = Window
    \/ p.state = "Snapshot"

\* update_state: as it is written, a probe advances and fills the window, and
\* replication pauses.
UpdateState(p, last) ==
    IF (p.state = "Replicate") <=> ("update_state" \in repaired)
    THEN [p EXCEPT !.next_idx = last + 1, !.ins = Append(@, last)]
    ELSE [p EXCEPT !.paused = TRUE]

\* free_to: from the first, up to one that is larger.
Freed(ins, to) ==
    CHOOSE n \in 0..Len(ins) : /\ \A k \in 1..n : ins[k] <= to
                               /\ n < Len(ins) => to < ins[n + 1]

FreeTo(p, to) == [p EXCEPT !.ins = SubSeq(@, Freed(@, to) + 1, Len(@))]

-----------------------------------------------------------------------------
\* Sending. A step works on s = [pr, out, snaps, sent, failed]: the progress, the
\* appends that wait, the snapshots sent, whether the last call of
\* maybe_send_append sent a message, and assertions that failed.

Working(p) == [pr |-> p, out |-> out, snaps |-> {}, sent |-> FALSE, failed |-> {}]

Unsent(s) == [s EXCEPT !.sent = FALSE]

Update(s, last) ==
    [s EXCEPT !.pr = UpdateState(@, last),
              !.failed = @ \cup Check("Inflights_add", Len(UpdateState(s.pr, last).ins) <= Window)]

\* prepare_send_snapshot
SendSnapshot(s, c) ==
    IF ~s.pr.recent_active \/ c < s.pr.request THEN Unsent(s)
    ELSE [s EXCEPT !.pr = BecomeSnapshot(@, c), !.sent = TRUE,
                   !.snaps = @ \cup {[type |-> "Snap", index |-> c]}]

\* prepare_send_entries
SendEntries(s, ents, c) ==
    LET m == [type |-> "App", index |-> s.pr.next_idx - 1, ents |-> ents, commit |-> c]
        t == [s EXCEPT !.out = Append(@, m), !.sent = TRUE]
    IN  IF ents = <<>> THEN t ELSE Update(t, Last(ents))

\* Mutant: the entries need not continue the message.
CanBatchAny(s, ents) == batch_append /\ s.out # <<>>

\* The test of try_batching: as it is written, entries go into a message that
\* they do not continue; mended, into one that they do, with entries or not.
CanBatch(s, ents) ==
    /\ batch_append /\ s.out # <<>>
    /\ \/ ents = <<>>
       \/ IF "is_continuous" \in repaired
          THEN s.out[1].index + Len(s.out[1].ents) + 1 = ents[1]
          ELSE s.out[1].ents # <<>> /\ Last(s.out[1].ents) + 1 # ents[1]

\* try_batching: the entries go into the first append that waits.
Batched(s, ents, c) ==
    LET t == [s EXCEPT !.out[1].ents = @ \o ents, !.out[1].commit = c, !.sent = FALSE]
    IN  IF ents = <<>> THEN t ELSE Update(t, Last(ents))

\* maybe_send_append; the log is l, committed up to c.
MaybeSendAppend(s, allow_empty, l, c) ==
    LET next == s.pr.next_idx
        ents == [k \in 1..Smaller(Batch, Len(l) + 1 - next) |-> next + k - 1]
        gone == next <= compacted
    IN  IF IsPaused(s.pr) THEN Unsent(s)
        ELSE IF s.pr.request # 0 THEN SendSnapshot(s, c)
        ELSE IF ~allow_empty /\ (gone \/ next > Len(l)) THEN Unsent(s)
        ELSE IF gone THEN SendSnapshot(s, c)
        ELSE IF CanBatch(s, ents) THEN Batched(s, ents, c)
        ELSE SendEntries(s, ents, c)

SendAppend(s, l, c) == MaybeSendAppend(s, TRUE, l, c)

\* send_append_aggressively: until nothing is sent. More rounds than there are
\* entries are a loop that does not end, a failure as well.
SendMore(s, l, c) ==
    IF s.sent /\ s.failed = {} THEN MaybeSendAppend(s, FALSE, l, c) ELSE s

SendAppendAggressively(s, l, c) ==
    LET last == FoldFunction(LAMBDA i, t : SendMore(t, l, c), MaybeSendAppend(s, FALSE, l, c), l)
    IN  [last EXCEPT !.failed = @ \cup Check("send_append_aggressively", ~last.sent)]

\* The network takes messages while it has room.
Carry(under_way, ms) ==
    IF Cardinality(under_way \cup ms) <= MaxNet THEN under_way \cup ms ELSE under_way

InNet(appends) == {appends[i] : i \in DOMAIN appends}

-----------------------------------------------------------------------------
\* Steps of the leader

Alive == panics = {}

\* What the leader's step leaves, in progress and messages; gone is what it
\* took from the network.
Do(s, gone) ==
    /\ pr' = s.pr
    /\ panics' = s.failed
    /\ batch_append => Len(s.out) <= MaxOut
    /\ out' = IF batch_append THEN s.out ELSE <<>>
    /\ net' = Carry(net \ gone, s.snaps \cup IF batch_append THEN {} ELSE InNet(s.out))
    /\ UNCHANGED <<repaired, batch_append, compacted>>

\* RawNode::ready takes the messages.
Ready ==
    /\ Alive /\ out # <<>>
    /\ out' = <<>>
    /\ net' = Carry(net, InNet(out))
    /\ UNCHANGED <<repaired, batch_append, leaderVars, pr, peer, faults, panics>>

\* MsgProp: append_entry and bcast_append.
Propose ==
    /\ Alive /\ Len(log) < MaxIndex
    /\ log' = Append(log, Last(log))
    /\ Do(SendAppend(Working(pr), log', committed), {})
    /\ UNCHANGED <<committed, peer, faults>>

\* Another voter acknowledged: maybe_commit and bcast_append.
OtherCommits ==
    /\ Alive
    /\ \E c \in (committed + 1)..Len(log) :
          /\ log[c] = Last(log)
          /\ committed' = c
          /\ Do(SendAppend(Working(pr), log, c), {})
    /\ UNCHANGED <<log, peer, faults>>

\* The storage drops what is applied.
Compact ==
    /\ Alive /\ compacted < committed
    /\ compacted' = committed
    /\ UNCHANGED <<repaired, batch_append, log, committed, pr, peer, out, net, faults, panics>>

\* bcast_heartbeat
Beat ==
    /\ Alive
    /\ net' = Carry(net, {[type |-> "Heartbeat", commit |-> Smaller(pr.matched, committed)]})
    /\ UNCHANGED <<repaired, batch_append, leaderVars, pr, peer, out, faults, panics>>

\* handle_heartbeat_response; reads are in module ReadIndex.
HandleHeartbeatResponse(m, gone) ==
    LET p == [pr EXCEPT !.recent_active = TRUE, !.paused = FALSE,
                        !.ins = IF pr.state = "Replicate" /\ Len(@) = Window THEN Tail(@) ELSE @]
    IN  /\ m.type = "HeartbeatResp"
        /\ Do(IF p.matched < Len(log) \/ p.request # 0
              THEN SendAppend(Working(p), log, committed) ELSE Working(p), gone)
        /\ UNCHANGED <<log, committed, peer>>

\* handle_append_response of a rejection
HandleRejection(m, gone) ==
    LET hint == IF m.log_term > 0 /\ m.hint <= Len(log)
                THEN FindConflictByTerm(log, m.hint, m.log_term) ELSE m.hint
        p    == [pr EXCEPT !.recent_active = TRUE]
        d    == DecrTo(p, m.index, hint, m.request)
    IN  /\ m.type = "AppResp" /\ m.reject
        /\ Do(IF IsStale(p, m.index, m.request) THEN Working(p)
              ELSE SendAppend(Working(IF d.state = "Replicate" THEN BecomeProbe(d) ELSE d),
                              log, committed), gone)
        /\ UNCHANGED <<log, committed, peer>>

\* handle_append_response of an acknowledgement: the leader and the peer are two
\* of three voters.
HandleAcknowledgement(m, gone) ==
    LET p == MaybeUpdate([pr EXCEPT !.recent_active = TRUE], m.index)
        u == CASE p.state = "Probe" -> BecomeReplicate(p)
               [] p.state = "Snapshot" -> IF p.matched >= p.pending_snapshot
                                          THEN BecomeProbe(p) ELSE p
               [] p.state = "Replicate" -> FreeTo(p, m.index)
        c == IF p.matched > committed /\ TermOf(log, p.matched) = Last(log)
             THEN p.matched ELSE committed
        s == IF c > committed \/ IsPaused(pr) THEN SendAppend(Working(u), log, c)
             ELSE Working(u)
    IN  /\ m.type = "AppResp" /\ ~m.reject
        /\ IF m.index > pr.matched
           THEN /\ Do(SendAppendAggressively(s, log, c), gone)
                /\ committed' = c
           ELSE /\ Do(Working(p), gone)
                /\ UNCHANGED committed
        /\ UNCHANGED <<log, peer>>

\* check_quorum_active forgets who was heard of.
CheckQuorum ==
    /\ Alive /\ pr.recent_active
    /\ pr' = [pr EXCEPT !.recent_active = FALSE]
    /\ UNCHANGED <<repaired, batch_append, leaderVars, peer, out, net, faults, panics>>

\* handle_snapshot_status: the application reports how sending a snapshot went.
HandleSnapshotStatus(reject) ==
    LET p == IF reject THEN [pr EXCEPT !.pending_snapshot = 0] ELSE pr
    IN  /\ Alive /\ pr.state = "Snapshot"
        /\ pr' = [BecomeProbe(p) EXCEPT !.paused = TRUE, !.request = 0]
        /\ UNCHANGED <<repaired, batch_append, leaderVars, peer, out, net, faults, panics>>

Fault == faults < MaxFaults /\ faults' = faults + 1

HandleUnreachable ==
    /\ Alive /\ pr.state = "Replicate"
    /\ Fault
    /\ pr' = BecomeProbe(pr)
    /\ UNCHANGED <<repaired, batch_append, leaderVars, peer, out, net, panics>>

-----------------------------------------------------------------------------
\* Steps of the peer

\* It becomes p and answers.
Answer(gone, p, answer, failed) ==
    /\ peer' = p
    /\ net' = Carry(net \ gone, {answer})
    /\ panics' = failed
    /\ UNCHANGED <<repaired, batch_append, leaderVars, pr, out>>

Acknowledge(i) ==
    [type |-> "AppResp", index |-> i, reject |-> FALSE, hint |-> 0, log_term |-> 0, request |-> 0]

\* send_request_snapshot
RequestAnswer(p) ==
    [type |-> "AppResp", index |-> p.committed, reject |-> TRUE, hint |-> Len(p.log),
     log_term |-> 0, request |-> p.request]

\* find_conflict of entries es of the leader's log: as it is written, the first
\* of them.
FindConflict(es) ==
    LET bad == {k \in DOMAIN es : TermOf(peer.log, es[k]) # log[es[k]]}
    IN  IF "find_conflict" \notin repaired THEN IF es = <<>> THEN 0 ELSE es[1]
        ELSE IF bad = {} THEN 0 ELSE es[CHOOSE k \in bad : \A j \in bad : k <= j]

\* Mutant: any entry will do at the index before those of an append.
HasIndex(index) == index <= Len(peer.log)

\* match_term of an entry of the leader's log
MatchTerm(index) == TermOf(peer.log, index) = TermOf(log, index)

\* handle_append_entries
HandleAppendEntries(m, gone) ==
    LET conflict == FindConflict(m.ents)
        last     == m.index + Len(m.ents)
        new      == IF conflict = 0 THEN peer.log
                    ELSE SubSeq(peer.log, 1, conflict - 1) \o SubSeq(log, conflict, last)
        c        == Larger(peer.committed, Smaller(m.commit, last))
        hint     == FindConflictByTerm(peer.log, Smaller(m.index, Len(peer.log)),
                                       TermOf(log, m.index))
    IN  /\ m.type = "App"
        /\ IF peer.request # 0 THEN Answer(gone, peer, RequestAnswer(peer), {})
           ELSE IF m.index < peer.committed
           THEN Answer(gone, peer, Acknowledge(peer.committed), {})
           ELSE IF MatchTerm(m.index)
           THEN Answer(gone, [peer EXCEPT !.log = new, !.committed = c],
                       Acknowledge(last),
                       Check("maybe_append", conflict = 0 \/ conflict > peer.committed)
                       \cup Check("commit_to", c <= Len(new)))
           ELSE Answer(gone, peer,
                       [type |-> "AppResp", index |-> m.index, reject |-> TRUE, hint |-> hint,
                        log_term |-> TermOf(peer.log, hint), request |-> 0], {})

HandleHeartbeat(m, gone) ==
    LET p == [peer EXCEPT !.committed = Larger(@, m.commit)]
    IN  /\ m.type = "Heartbeat"
        /\ Answer(gone, p, IF peer.request # 0 THEN RequestAnswer(p) ELSE [type |-> "HeartbeatResp"],
                  Check("commit_to", m.commit <= Len(peer.log)))

\* handle_snapshot and restore. A peer that asked for a snapshot takes any that
\* comes; mended, one as new as it asked for.
HandleSnapshot(m, gone) ==
    LET old   == \/ m.index < peer.committed
                 \/ "restore" \in repaired /\ m.index < peer.request
        known == peer.request = 0 /\ MatchTerm(m.index)
    IN  /\ m.type = "Snap"
        /\ IF old THEN Answer(gone, peer, Acknowledge(peer.committed), {})
           ELSE IF known
           THEN Answer(gone, [peer EXCEPT !.committed = m.index], Acknowledge(m.index), {})
           ELSE Answer(gone, [log |-> SubSeq(log, 1, m.index), committed |-> m.index, request |-> 0],
                       Acknowledge(m.index), {})

\* request_snapshot. An index below the end of the log would make restore throw
\* away entries that are acknowledged: taken for the application's to avoid.
RequestSnapshot ==
    /\ Alive /\ peer.request = 0 /\ peer.log # <<>>
    /\ Fault
    /\ peer' = [peer EXCEPT !.request = Len(peer.log)]
    /\ net' = Carry(net, {RequestAnswer(peer')})
    /\ UNCHANGED <<repaired, batch_append, leaderVars, pr, out, panics>>

-----------------------------------------------------------------------------
\* The network

Lose(m) ==
    /\ Alive /\ Fault
    /\ net' = net \ {m}
    /\ UNCHANGED <<repaired, batch_append, leaderVars, pr, peer, out, panics>>

\* Message m is handled; it may be delivered once more.
Receive(m) ==
    /\ Alive
    /\ \E gone \in {{m}, {}} :
          /\ IF gone = {} THEN Fault ELSE UNCHANGED faults
          /\ \/ HandleAppendEntries(m, gone) \/ HandleHeartbeat(m, gone) \/ HandleSnapshot(m, gone)
             \/ HandleHeartbeatResponse(m, gone) \/ HandleRejection(m, gone)
             \/ HandleAcknowledgement(m, gone)

\* become_leader of the leader and bcast_append.
Init ==
    /\ repaired \in Repairs /\ batch_append \in Batches
    /\ log = Append(OldLog, Last(OldLog) + 1)
    /\ committed = 1 /\ compacted = 0
    /\ pr = NewProgress(Len(OldLog) + 1)
    /\ \E l \in PeerLogs : peer = [log |-> l, committed |-> 0, request |-> 0]
    /\ out = <<>> /\ net = {}
    /\ faults = 0
    /\ panics = {}

Next ==
    \/ Ready \/ Propose \/ OtherCommits \/ Compact \/ Beat \/ CheckQuorum
    \/ \E reject \in BOOLEAN : HandleSnapshotStatus(reject)
    \/ HandleUnreachable \/ RequestSnapshot
    \/ \E m \in net : Receive(m) \/ Lose(m)

Spec == Init /\ [][Next]_vars

-----------------------------------------------------------------------------

\* No assertion fails on either side: the window takes what is sent, heartbeats
\* and appends commit what the peer has, appends do not contradict what it
\* committed; and send_append_aggressively ends.
BothSurvive == panics = {}

\* What the leader counts as replicated is in the peer's log: through messages
\* that come late or twice, snapshots that are asked for, and logs that differ
\* ("How much state is matched", progres.rs).
MatchedIsReplicated ==
    /\ pr.matched <= Len(peer.log)
    /\ SubSeq(peer.log, 1, pr.matched) = SubSeq(log, 1, pr.matched)

\* The entries of an append follow its index without a gap: also those that were
\* batched into it later (try_batching, is_continuous_ents).
AppendsAreSegments ==
    \A m \in net \cup InNet(out) :
        m.type = "App" => \A k \in DOMAIN m.ents : m.ents[k] = m.index + k

\* The window of a replicating peer is in order, each of it sent and none of it
\* acknowledged.
WindowInOrder ==
    pr.state = "Replicate" =>
        /\ \A k \in DOMAIN pr.ins : pr.matched < pr.ins[k] /\ pr.ins[k] < pr.next_idx
        /\ \A k \in 2..Len(pr.ins) : pr.ins[k - 1] < pr.ins[k]

\* What is sent and remembered as under way follows the log ("The index MUST be
\* added into inflights in order", progres.rs), whatever is acknowledged, refused or
\* reported in between.
SentInOrder == AppendsAreSegments /\ WindowInOrder
=============================================================================
