------------------------- MODULE PeerProgressProofs -------------------------
(***************************************************************************)
(* Proofs about PeerProgress: LogsOK of module PeerProgressInv is          *)
(* inductive when find_conflict, is_continuous_ents and restore are        *)
(* mended, PeerInv when update_state is as well, and what follows from     *)
(* them, for every value of the constants.                                 *)
(***************************************************************************)
EXTENDS PeerProgressInv, SequenceTheorems, FiniteSetTheorems, WellFoundedInduction, TLAPS

-----------------------------------------------------------------------------
\* Least and greatest indexes

\* A set of numbers up to a bound that is not empty has a greatest one.
LEMMA GreatestExists ==
    ASSUME NEW k \in Nat, NEW S \in SUBSET (0..k), S # {}
    PROVE  \E i \in S : \A j \in S : j <= i
<1> DEFINE T == {i..k : i \in S}
           R == StrictSubsetOrdering(Nat)
<1>1. IsWellFoundedOn(R, FiniteSubsetsOf(Nat))
  BY FS_StrictSubsetOrderingWellFounded
<1>2. T \subseteq FiniteSubsetsOf(Nat) /\ T # {}
  <2>1. ASSUME NEW i \in S PROVE i..k \in FiniteSubsetsOf(Nat)
    <3>1. i \in Int /\ i..k \in SUBSET Nat
      OBVIOUS
    <3> QED
      BY <3>1, FS_Interval DEF FiniteSubsetsOf
  <2> QED
    BY <2>1
<1> HIDE DEF R
<1>3. PICK x \in T : \A y \in T : ~ (<<y, x>> \in R)
  <2> HIDE DEF T
  <2> QED
    BY <1>1, <1>2, WFMin
<1>4. PICK i \in S : x = i..k
  BY <1>3
<1>5. ASSUME NEW j \in S PROVE j <= i
  <2>1. SUFFICES ASSUME j > i PROVE FALSE
    OBVIOUS
  <2>2. /\ j..k \in SUBSET Nat /\ i..k \in SUBSET Nat
        /\ j..k \subseteq i..k /\ i \in i..k /\ i \notin j..k
    BY <2>1
  <2>3. <<j..k, i..k>> \in R
    BY <2>2 DEF R, StrictSubsetOrdering
  <2> QED
    BY <1>3, <1>4, <2>3
<1> QED
  BY <1>5

\* It has a least one.
LEMMA LeastExists ==
    ASSUME NEW k \in Nat, NEW S \in SUBSET (0..k), S # {}
    PROVE  \E i \in S : \A j \in S : i <= j
<1> DEFINE T == {k - j : j \in S}
<1>1. PICK t \in T : \A u \in T : u <= t
  <2>1. \A j \in S : k - j \in 0..k
    OBVIOUS
  <2>2. T \in SUBSET (0..k) /\ T # {}
    BY <2>1
  <2> HIDE DEF T
  <2> QED
    BY <2>2, GreatestExists
<1>2. PICK i \in S : t = k - i
  OBVIOUS
<1>3. ASSUME NEW j \in S PROVE i <= j
  <2>1. k - j \in T
    OBVIOUS
  <2>2. k - j <= t
    BY <1>1, <2>1
  <2> QED
    BY <1>2, <2>2
<1> QED
  BY <1>3

-----------------------------------------------------------------------------
\* Logs

\* The last entry of a log.
LEMMA LastIs ==
    ASSUME NEW S, NEW s \in Seq(S), Len(s) >= 1
    PROVE  Last(s) = s[Len(s)] /\ Last(s) \in S
BY DEF Last

\* A term of a log is 0 only where the log is not.
LEMMA TermOfIs ==
    ASSUME NEW l \in Seq(Nat \ {0}), NEW i \in Nat
    PROVE  /\ TermOf(l, i) \in Nat
           /\ i >= 1 /\ i <= Len(l) => TermOf(l, i) = l[i] /\ TermOf(l, i) # 0
           /\ i = 0 \/ i > Len(l) => TermOf(l, i) = 0
BY DEF TermOf

\* find_conflict_by_term finds an index: at the latest 0, whose term is 0.
LEMMA ConflictByTerm ==
    ASSUME NEW l \in Seq(Nat \ {0}), NEW index \in Nat, NEW t \in Nat
    PROVE  /\ FindConflictByTerm(l, index, t) \in Nat
           /\ FindConflictByTerm(l, index, t) <= index
<1> DEFINE S == {i \in 0..index : TermOf(l, i) <= t}
<1>1. 0 \in S
  BY TermOfIs
<1>2. PICK i \in S : \A j \in S : j <= i
  <2>1. S \in SUBSET (0..index) /\ S # {}
    BY <1>1
  <2> HIDE DEF S
  <2> QED
    BY <2>1, GreatestExists
<1>3. ASSUME NEW j \in (i + 1)..index PROVE TermOf(l, j) > t
  <2>1. j \in Nat /\ j > i /\ j \in 0..index
    BY <1>2
  <2>2. j \notin S
    BY <1>2, <2>1
  <2>3. TermOf(l, j) \in Nat
    BY <2>1, TermOfIs
  <2> QED
    BY <2>1, <2>2, <2>3
<1>4. \E n \in 0..index : /\ TermOf(l, n) <= t
                          /\ \A j \in (n + 1)..index : TermOf(l, j) > t
  BY <1>2, <1>3
<1>5. FindConflictByTerm(l, index, t) \in 0..index
  BY <1>4 DEF FindConflictByTerm
<1> QED
  BY <1>5

\* Logs that agree up to an index agree up to any before it.
LEMMA AgreeBelow ==
    ASSUME NEW a, NEW b, NEW n, Agree(n, a, b), NEW k \in Nat, k <= n,
           Len(a) \in Nat, Len(b) \in Nat
    PROVE  Agree(k, a, b)
BY DEF Agree

\* Nothing is the same of any logs.
LEMMA AgreeOnNothing ==
    ASSUME NEW a, NEW b, Len(a) \in Nat, Len(b) \in Nat
    PROVE  Agree(0, a, b)
BY DEF Agree

\* match_term of an index within the leader's log says that all before it matches.
LEMMA MatchTermMeans ==
    ASSUME LeaderOK, PeerOK(peer, log), NEW i \in Nat, i <= Len(log)
    PROVE  /\ MatchTerm(i) => Agree(i, peer.log, log)
           /\ Agree(i, peer.log, log) => MatchTerm(i)
<1>1. log \in Seq(Nat \ {0}) /\ peer.log \in Seq(Nat \ {0})
      /\ Len(log) \in Nat /\ Len(peer.log) \in Nat
  BY DEF LeaderOK, PeerOK
<1>a. PICK t : t = TermOf(peer.log, i)
  OBVIOUS
<1>b. /\ i >= 1 /\ i <= Len(peer.log) => t = peer.log[i] /\ t # 0
      /\ i = 0 \/ i > Len(peer.log) => t = 0
  BY <1>1, <1>a, TermOfIs
<1>2. CASE i = 0
  <2>1. TermOf(log, i) = 0
    BY <1>1, <1>2, TermOfIs
  <2>2. Agree(i, peer.log, log)
    BY <1>1, <1>2, AgreeOnNothing
  <2> QED
    BY <1>2, <1>a, <1>b, <2>1, <2>2 DEF MatchTerm
<1>3. CASE i >= 1
  <2>1. TermOf(log, i) = log[i] /\ log[i] # 0
    BY <1>1, <1>3, TermOfIs
  <2>2. ASSUME MatchTerm(i) PROVE Agree(i, peer.log, log)
    <3>1. t = log[i]
      BY <1>a, <2>1, <2>2 DEF MatchTerm
    <3>2. i \in 1..Len(peer.log) /\ peer.log[i] = log[i]
      BY <1>1, <1>3, <1>b, <2>1, <3>1
    <3> QED
      BY <3>2 DEF PeerOK, Matching
  <2>3. ASSUME Agree(i, peer.log, log) PROVE MatchTerm(i)
    <3>1. i <= Len(peer.log) /\ peer.log[i] = log[i]
      BY <1>3, <2>3 DEF Agree
    <3>2. TermOf(peer.log, i) = peer.log[i]
      BY <1>1, <1>3, <3>1, TermOfIs
    <3> QED
      BY <2>1, <3>1, <3>2 DEF MatchTerm
  <2> QED
    BY <2>2, <2>3
<1> QED
  BY <1>2, <1>3

-----------------------------------------------------------------------------
\* Messages

\* What a message says stays true while the logs only come closer.
LEMMA MessageKept ==
    ASSUME NEW m, NEW a, NEW l, NEW b, NEW k, NEW c \in Nat, NEW d \in Nat, c <= d,
           Len(l) \in Nat, Len(k) \in Nat, Len(l) <= Len(k),
           \A n : Agree(n, a, l) => Agree(n, b, k),
           MessageOK(m, a, l, c)
    PROVE  MessageOK(m, b, k, d)
<1>1. CASE AppendOK(m, l)
  <2>1. m \in Appends
    BY <1>1 DEF AppendOK
  <2>2. m.index \in Nat /\ Len(m.ents) \in Nat
    BY <2>1 DEF Appends
  <2>3. m.index + Len(m.ents) <= Len(k)
    BY <1>1, <2>2 DEF AppendOK
  <2> QED
    BY <1>1, <2>1, <2>3 DEF AppendOK, MessageOK
<1>2. CASE m.type = "Snap" /\ m.index \in Nat /\ m.index <= c
  BY <1>2 DEF MessageOK
<1>3. CASE m.type = "Heartbeat" /\ Agree(m.commit, a, l)
  BY <1>3 DEF MessageOK
<1>4. CASE m.type = "HeartbeatResp"
  BY <1>4 DEF MessageOK
<1>5. CASE /\ m.type = "AppResp"
           /\ {m.index, m.hint, m.log_term, m.request} \subseteq Nat
           /\ m.reject \in BOOLEAN
           /\ ~m.reject => Agree(m.index, a, l)
  BY <1>5 DEF MessageOK
<1> QED
  BY <1>1, <1>2, <1>3, <1>4, <1>5 DEF MessageOK

\* The network carries nothing that was not sent.
LEMMA CarryIsIn ==
    ASSUME NEW ms, NEW ns
    PROVE  Carry(ms, ns) \subseteq ms \cup ns
BY DEF Carry

\* It stays sound with sound messages.
LEMMA CarryOK ==
    ASSUME NEW ms, NEW ns, NEW gone, NEW a, NEW l, NEW c, NetOK(ms, a, l, c), NetOK(ns, a, l, c)
    PROVE  NetOK(Carry(ms \ gone, ns), a, l, c)
BY CarryIsIn DEF NetOK

-----------------------------------------------------------------------------
\* Sending

Assertions == {"Inflights_add", "send_append_aggressively"}

Works ==
    [pr : Progresses, out : Seq(Appends), snaps : SUBSET [type : {"Snap"}, index : Nat],
     sent : BOOLEAN, failed : SUBSET Assertions]

\* What a step works on is sound, for logs a and l, committed up to c.
WorkOK(s, a, l, c) ==
    /\ s \in Works
    /\ ProgressOK(s.pr, a, l)
    /\ OutOK(s.out, l)
    /\ \A m \in s.snaps : m.index <= c

\* update_state of an index within the log.
LEMMA UpdateStateOK ==
    ASSUME NEW p, NEW a, NEW l, Len(l) \in Nat, ProgressOK(p, a, l),
           NEW last \in Nat, last <= Len(l)
    PROVE  ProgressOK(UpdateState(p, last), a, l)
<1>1. p \in Progresses
  BY DEF ProgressOK
<1>2. PICK q : q = UpdateState(p, last)
  OBVIOUS
<1>3. PICK w : w = Append(p.ins, last)
  OBVIOUS
<1>4. w \in Seq(Nat) /\ last + 1 \in Nat
  BY <1>1, <1>3 DEF Progresses
<1>5. CASE q = [p EXCEPT !.next_idx = last + 1, !.ins = w]
  <2>1. /\ q \in Progresses
        /\ q.matched = p.matched /\ q.pending_snapshot = p.pending_snapshot
        /\ q.next_idx = last + 1
    BY <1>1, <1>4, <1>5 DEF Progresses
  <2> QED
    BY <1>2, <2>1 DEF ProgressOK
<1>6. CASE q = [p EXCEPT !.paused = TRUE]
  <2>1. /\ q \in Progresses
        /\ q.matched = p.matched /\ q.pending_snapshot = p.pending_snapshot
        /\ q.next_idx = p.next_idx
    BY <1>1, <1>6 DEF Progresses
  <2> QED
    BY <1>2, <2>1 DEF ProgressOK
<1> QED
  BY <1>1, <1>2, <1>3, <1>5, <1>6 DEF UpdateState, Progresses

\* The update that follows when entries were sent up to an index within the log.
LEMMA UpdateOK ==
    ASSUME NEW s, NEW a, NEW l, NEW c, Len(l) \in Nat, WorkOK(s, a, l, c),
           NEW last \in Nat, last <= Len(l)
    PROVE  /\ WorkOK(Update(s, last), a, l, c)
           /\ Update(s, last).pr = UpdateState(s.pr, last)
           /\ Update(s, last).sent = s.sent
           /\ Update(s, last).failed =
                 s.failed \cup Check("Inflights_add", Len(UpdateState(s.pr, last).ins) <= Window)
<1>1. s \in Works /\ ProgressOK(s.pr, a, l)
  BY DEF WorkOK
<1>2. PICK p : p = UpdateState(s.pr, last)
  OBVIOUS
<1>3. PICK f : f = Check("Inflights_add", Len(p.ins) <= Window)
  OBVIOUS
<1>4. f \in SUBSET Assertions
  BY <1>3 DEF Check, Assertions
<1>5. ProgressOK(p, a, l) /\ p \in Progresses
  BY <1>1, <1>2, UpdateStateOK DEF ProgressOK
<1>6. Update(s, last) = [s EXCEPT !.pr = p, !.failed = @ \cup f]
  BY <1>1, <1>2, <1>3 DEF Update, Works
<1>7. /\ Update(s, last) \in Works
      /\ Update(s, last).pr = p /\ Update(s, last).out = s.out
      /\ Update(s, last).snaps = s.snaps /\ Update(s, last).sent = s.sent
      /\ Update(s, last).failed = s.failed \cup f
  BY <1>1, <1>4, <1>5, <1>6 DEF Works
<1>8. WorkOK(Update(s, last), a, l, c)
  BY <1>5, <1>7 DEF WorkOK
<1> QED
  BY <1>2, <1>3, <1>7, <1>8

\* Nothing is sent.
LEMMA UnsentOK ==
    ASSUME NEW s, NEW a, NEW l, NEW c, WorkOK(s, a, l, c)
    PROVE  /\ WorkOK(Unsent(s), a, l, c)
           /\ Unsent(s).pr = s.pr /\ ~Unsent(s).sent /\ Unsent(s).failed = s.failed
<1>1. s \in Works
  BY DEF WorkOK
<1>2. /\ Unsent(s) \in Works
      /\ Unsent(s).pr = s.pr /\ Unsent(s).out = s.out /\ Unsent(s).snaps = s.snaps
      /\ ~Unsent(s).sent /\ Unsent(s).failed = s.failed
  BY <1>1 DEF Unsent, Works
<1> QED
  BY <1>2 DEF WorkOK

\* become_snapshot of an index within the log.
LEMMA BecomeSnapshotOK ==
    ASSUME NEW p, NEW a, NEW l, ProgressOK(p, a, l), NEW i \in Nat, i <= Len(l)
    PROVE  /\ ProgressOK(BecomeSnapshot(p, i), a, l)
           /\ BecomeSnapshot(p, i).state = "Snapshot"
           /\ BecomeSnapshot(p, i).ins = <<>>
<1>1. p \in Progresses
  BY DEF ProgressOK
<1>2. BecomeSnapshot(p, i) =
         [p EXCEPT !.paused = FALSE, !.pending_snapshot = i, !.state = "Snapshot", !.ins = <<>>]
  BY <1>1 DEF BecomeSnapshot, ResetState, Progresses
<1>3. PICK q : q = BecomeSnapshot(p, i)
  OBVIOUS
<1>a. <<>> \in Seq(Nat)
  OBVIOUS
<1>b. PICK o : o = [p EXCEPT !.paused = FALSE, !.pending_snapshot = i]
  OBVIOUS
<1>c. o \in Progresses /\ o.pending_snapshot = i /\ o.matched = p.matched
      /\ o.next_idx = p.next_idx
  BY <1>1, <1>b DEF Progresses
<1>d. q = [o EXCEPT !.state = "Snapshot", !.ins = <<>>]
  BY <1>2, <1>3, <1>b
<1>4. /\ q \in Progresses
      /\ q.matched = p.matched /\ q.next_idx = p.next_idx /\ q.pending_snapshot = i
      /\ q.state = "Snapshot" /\ q.ins = <<>>
  BY <1>a, <1>c, <1>d DEF Progresses
<1>5. ProgressOK(q, a, l)
  BY <1>4 DEF ProgressOK
<1> QED
  BY <1>3, <1>4, <1>5

\* prepare_send_snapshot sends a snapshot of what is committed.
LEMMA SendSnapshotOK ==
    ASSUME NEW s, NEW a, NEW l, NEW c \in Nat, c <= Len(l), WorkOK(s, a, l, c)
    PROVE  /\ WorkOK(SendSnapshot(s, c), a, l, c)
           /\ SendSnapshot(s, c).failed = s.failed
           /\ \/ SendSnapshot(s, c).pr = s.pr /\ ~SendSnapshot(s, c).sent
              \/ SendSnapshot(s, c).pr = BecomeSnapshot(s.pr, c)
<1>1. s \in Works /\ ProgressOK(s.pr, a, l)
  BY DEF WorkOK
<1>2. CASE ~s.pr.recent_active \/ c < s.pr.request
  <2>1. SendSnapshot(s, c) = Unsent(s)
    BY <1>2 DEF SendSnapshot
  <2> QED
    BY <2>1, UnsentOK
<1>3. CASE ~(~s.pr.recent_active \/ c < s.pr.request)
  <2>1. PICK p : p = BecomeSnapshot(s.pr, c)
    OBVIOUS
  <2>2. PICK ms : ms = {[type |-> "Snap", index |-> c]}
    OBVIOUS
  <2>3. ms \in SUBSET [type : {"Snap"}, index : Nat] /\ \A m \in ms : m.index <= c
    BY <2>2
  <2>4. ProgressOK(p, a, l) /\ p \in Progresses
    BY <1>1, <2>1, BecomeSnapshotOK DEF ProgressOK
  <2>5. PICK t : t = SendSnapshot(s, c)
    OBVIOUS
  <2>6. t = [s EXCEPT !.pr = p, !.sent = TRUE, !.snaps = @ \cup ms]
    BY <1>1, <1>3, <2>1, <2>2, <2>5 DEF SendSnapshot, Works
  <2>7. t \in Works /\ t.pr = p /\ t.out = s.out /\ t.snaps = s.snaps \cup ms
        /\ t.failed = s.failed
    BY <1>1, <2>3, <2>4, <2>6 DEF Works
  <2>8. WorkOK(t, a, l, c)
    BY <2>3, <2>4, <2>7 DEF WorkOK
  <2> QED
    BY <2>1, <2>5, <2>7, <2>8
<1> QED
  BY <1>2, <1>3

\* Entries ents continue index n within log l.
Continues(ents, n, l) ==
    /\ ents \in Seq(Nat)
    /\ \A k \in DOMAIN ents : ents[k] = n + k
    /\ n + Len(ents) <= Len(l)

\* The last of them, or none.
LEMMA LastContinues ==
    ASSUME NEW ents, NEW n \in Nat, NEW l, Continues(ents, n, l)
    PROVE  /\ Len(ents) \in Nat
           /\ ents = <<>> <=> Len(ents) = 0
           /\ ents # <<>> => Last(ents) = n + Len(ents) /\ ents[1] = n + 1
<1>1. ents \in Seq(Nat) /\ \A k \in DOMAIN ents : ents[k] = n + k
  BY DEF Continues
<1>2. Len(ents) \in Nat /\ DOMAIN ents = 1..Len(ents)
  BY <1>1
<1>3. ents = <<>> <=> Len(ents) = 0
  BY <1>1
<1>4. ASSUME ents # <<>> PROVE Last(ents) = n + Len(ents) /\ ents[1] = n + 1
  <2>1. Len(ents) \in DOMAIN ents /\ 1 \in DOMAIN ents
    BY <1>2, <1>3, <1>4
  <2> QED
    BY <1>1, <2>1 DEF Last
<1> QED
  BY <1>2, <1>3, <1>4

\* What a step does to the progress when it sends entries up to index last, or none.
Advanced(s, t, ents, last) ==
    \/ ents = <<>> /\ t.pr = s.pr /\ t.failed = s.failed
    \/ /\ ents # <<>>
       /\ t.pr = UpdateState(s.pr, last)
       /\ t.failed = s.failed
                     \cup Check("Inflights_add", Len(UpdateState(s.pr, last).ins) <= Window)

\* Appends with one more.
LEMMA OneMoreAppend ==
    ASSUME NEW o, NEW l, OutOK(o, l), NEW m, AppendOK(m, l)
    PROVE  OutOK(Append(o, m), l)
<1>1. o \in Seq(Appends) /\ m \in Appends
  BY DEF OutOK, AppendOK
<1>2. PICK q : q = Append(o, m)
  OBVIOUS
<1>3. /\ q \in Seq(Appends) /\ DOMAIN q = 1..(Len(o) + 1)
      /\ \A k \in 1..Len(o) : q[k] = o[k]
      /\ q[Len(o) + 1] = m
  BY <1>1, <1>2
<1>4. ASSUME NEW k \in DOMAIN q PROVE AppendOK(q[k], l)
  <2>1. Len(o) \in Nat /\ DOMAIN o = 1..Len(o)
    BY <1>1
  <2>2. CASE k \in 1..Len(o)
    BY <1>3, <2>1, <2>2 DEF OutOK
  <2>3. CASE k = Len(o) + 1
    BY <1>3, <2>3
  <2> QED
    BY <1>3, <2>1, <2>2, <2>3
<1> QED
  BY <1>2, <1>3, <1>4 DEF OutOK

\* prepare_send_entries of entries from the next index.
LEMMA SendEntriesOK ==
    ASSUME NEW s, NEW a, NEW l, NEW c \in Nat, Len(l) \in Nat, WorkOK(s, a, l, c),
           NEW ents, Continues(ents, s.pr.next_idx - 1, l)
    PROVE  /\ WorkOK(SendEntries(s, ents, c), a, l, c)
           /\ SendEntries(s, ents, c).sent
           /\ Advanced(s, SendEntries(s, ents, c), ents, s.pr.next_idx - 1 + Len(ents))
<1>1. s \in Works /\ ProgressOK(s.pr, a, l) /\ OutOK(s.out, l)
  BY DEF WorkOK
<1>2. PICK n : n = s.pr.next_idx - 1
  OBVIOUS
<1>3. n \in Nat
  BY <1>1, <1>2 DEF ProgressOK, Progresses
<1>4. /\ Len(ents) \in Nat
      /\ ents = <<>> <=> Len(ents) = 0
      /\ ents # <<>> => Last(ents) = n + Len(ents)
      /\ ents \in Seq(Nat) /\ n + Len(ents) <= Len(l)
      /\ \A k \in DOMAIN ents : ents[k] = n + k
  BY <1>2, <1>3, LastContinues DEF Continues
<1>5. PICK m : m = [type |-> "App", index |-> n, ents |-> ents, commit |-> c]
  OBVIOUS
<1>6. AppendOK(m, l)
  BY <1>3, <1>4, <1>5 DEF AppendOK, Appends
<1>7. PICK t : t = [s EXCEPT !.out = Append(@, m), !.sent = TRUE]
  OBVIOUS
<1>8. OutOK(Append(s.out, m), l) /\ Append(s.out, m) \in Seq(Appends)
  BY <1>1, <1>6, OneMoreAppend DEF OutOK
<1>9. /\ t \in Works /\ t.pr = s.pr /\ t.out = Append(s.out, m) /\ t.snaps = s.snaps
      /\ t.sent /\ t.failed = s.failed
  BY <1>1, <1>7, <1>8 DEF Works
<1>10. WorkOK(t, a, l, c)
  BY <1>1, <1>8, <1>9 DEF WorkOK
<1>11. SendEntries(s, ents, c) = IF ents = <<>> THEN t ELSE Update(t, Last(ents))
  BY <1>2, <1>5, <1>7, Zenon DEF SendEntries
<1>12. CASE ents = <<>>
  BY <1>9, <1>10, <1>11, <1>12 DEF Advanced
<1>13. CASE ents # <<>>
  <2>1. PICK last \in Nat : last = n + Len(ents)
    BY <1>3, <1>4
  <2>2. PICK u : u = Update(t, last)
    OBVIOUS
  <2>3. /\ WorkOK(u, a, l, c) /\ u.sent
        /\ u.pr = UpdateState(t.pr, last)
        /\ u.failed = t.failed \cup Check("Inflights_add", Len(UpdateState(t.pr, last).ins) <= Window)
    BY <1>4, <1>9, <1>10, <2>1, <2>2, UpdateOK
  <2>4. SendEntries(s, ents, c) = u
    BY <1>4, <1>11, <1>13, <2>1, <2>2
  <2>5. Advanced(s, u, ents, last)
    BY <1>9, <1>13, <2>3 DEF Advanced
  <2> QED
    BY <1>2, <2>1, <2>3, <2>4, <2>5
<1> QED
  BY <1>12, <1>13

\* try_batching of entries that continue the first append that waits.
LEMMA BatchedOK ==
    ASSUME "is_continuous" \in repaired,
           NEW s, NEW a, NEW l, NEW c \in Nat, Len(l) \in Nat, WorkOK(s, a, l, c),
           NEW ents, Continues(ents, s.pr.next_idx - 1, l), CanBatch(s, ents)
    PROVE  /\ WorkOK(Batched(s, ents, c), a, l, c)
           /\ ~Batched(s, ents, c).sent
           /\ Advanced(s, Batched(s, ents, c), ents, s.pr.next_idx - 1 + Len(ents))
<1>1. s \in Works /\ ProgressOK(s.pr, a, l) /\ OutOK(s.out, l)
  BY DEF WorkOK
<1>2. PICK n : n = s.pr.next_idx - 1
  OBVIOUS
<1>3. n \in Nat
  BY <1>1, <1>2 DEF ProgressOK, Progresses
<1>4. /\ Len(ents) \in Nat
      /\ ents = <<>> <=> Len(ents) = 0
      /\ ents # <<>> => Last(ents) = n + Len(ents) /\ ents[1] = n + 1
      /\ ents \in Seq(Nat) /\ n + Len(ents) <= Len(l)
      /\ \A k \in DOMAIN ents : ents[k] = n + k
  BY <1>2, <1>3, LastContinues DEF Continues
<1>5. s.out \in Seq(Appends) /\ s.out # <<>>
      /\ \A k \in DOMAIN s.out : AppendOK(s.out[k], l)
  BY <1>1 DEF CanBatch, OutOK
<1>6. 1 \in DOMAIN s.out
  BY <1>5
<1>7. PICK f : f = s.out[1]
  OBVIOUS
<1>8. /\ f \in Appends /\ f.index \in Nat /\ f.ents \in Seq(Nat) /\ Len(f.ents) \in Nat
      /\ \A k \in DOMAIN f.ents : f.ents[k] = f.index + k
      /\ f.index + Len(f.ents) <= Len(l)
  BY <1>5, <1>6, <1>7 DEF AppendOK, Appends
<1>9. PICK es : es = f.ents \o ents
  OBVIOUS
<1>10. PICK g : g = [f EXCEPT !.ents = es, !.commit = c]
  OBVIOUS
<1>11. AppendOK(g, l)
  <2>1. es \in Seq(Nat) /\ Len(es) = Len(f.ents) + Len(ents)
    BY <1>4, <1>8, <1>9
  <2>2. g \in Appends /\ g.index = f.index /\ g.ents = es
    BY <1>8, <1>10, <2>1 DEF Appends
  <2>3. CASE ents = <<>>
    <3>1. es = f.ents
      BY <1>8, <1>9, <2>3
    <3> QED
      BY <1>8, <2>2, <3>1 DEF AppendOK
  <2>4. CASE ents # <<>>
    <3>1. f.index + Len(f.ents) + 1 = n + 1
      BY <1>4, <1>7, <2>4 DEF CanBatch
    <3>2. f.index + Len(f.ents) = n
      <4>1. PICK i \in Nat, e \in Nat : i = f.index /\ e = Len(f.ents)
        BY <1>8
      <4>2. n \in Nat /\ i + e + 1 = n + 1
        BY <1>3, <3>1, <4>1
      <4> QED
        BY <4>1, <4>2
    <3>3. ASSUME NEW k \in 1..Len(es) PROVE es[k] = f.index + k
      <4>1. CASE k <= Len(f.ents)
        BY <1>8, <1>9, <1>4, <3>3, <4>1
      <4>2. CASE k > Len(f.ents)
        <5>1. k - Len(f.ents) \in 1..Len(ents)
          BY <1>4, <1>8, <2>1, <4>2
        <5>2. es[k] = ents[k - Len(f.ents)]
          BY <1>4, <1>8, <1>9, <2>1, <4>2
        <5>3. ents[k - Len(f.ents)] = n + (k - Len(f.ents))
          BY <1>4, <5>1
        <5> QED
          BY <1>3, <1>8, <3>2, <5>2, <5>3
      <4> QED
        BY <1>8, <4>1, <4>2
    <3>4. f.index + Len(es) <= Len(l)
      BY <1>3, <1>4, <1>8, <2>1, <3>2
    <3>5. DOMAIN es = 1..Len(es)
      BY <2>1
    <3> QED
      BY <2>2, <3>3, <3>4, <3>5 DEF AppendOK
  <2> QED
    BY <2>3, <2>4
<1>12. PICK o : o = [s.out EXCEPT ![1] = g]
  OBVIOUS
<1>13. OutOK(o, l)
  <2>1. g \in Appends
    BY <1>11 DEF AppendOK
  <2>2. /\ o \in Seq(Appends) /\ DOMAIN o = DOMAIN s.out /\ o[1] = g
        /\ \A k \in DOMAIN o : k # 1 => o[k] = s.out[k]
    BY <1>5, <1>6, <1>12, <2>1
  <2>3. \A k \in DOMAIN o : AppendOK(o[k], l)
    BY <1>5, <1>11, <2>2
  <2> QED
    BY <2>2, <2>3 DEF OutOK
<1>14. PICK t : t = [s EXCEPT !.out[1].ents = @ \o ents, !.out[1].commit = c, !.sent = FALSE]
  OBVIOUS
<1>15. t = [s EXCEPT !.out = o, !.sent = FALSE]
  BY <1>1, <1>5, <1>6, <1>7, <1>8, <1>9, <1>10, <1>12, <1>14 DEF Works, Appends
<1>16. /\ t \in Works /\ t.pr = s.pr /\ t.out = o /\ t.snaps = s.snaps
       /\ ~t.sent /\ t.failed = s.failed
  BY <1>1, <1>13, <1>15 DEF Works, OutOK
<1>17. WorkOK(t, a, l, c)
  BY <1>1, <1>13, <1>16 DEF WorkOK
<1>18. Batched(s, ents, c) = IF ents = <<>> THEN t ELSE Update(t, Last(ents))
  BY <1>14 DEF Batched
<1>19. CASE ents = <<>>
  BY <1>16, <1>17, <1>18, <1>19 DEF Advanced
<1>20. CASE ents # <<>>
  <2>1. PICK last \in Nat : last = n + Len(ents)
    BY <1>3, <1>4
  <2>2. PICK u : u = Update(t, last)
    OBVIOUS
  <2>3. /\ WorkOK(u, a, l, c) /\ ~u.sent
        /\ u.pr = UpdateState(t.pr, last)
        /\ u.failed = t.failed \cup Check("Inflights_add", Len(UpdateState(t.pr, last).ins) <= Window)
    BY <1>4, <1>16, <1>17, <2>1, <2>2, UpdateOK
  <2>4. Batched(s, ents, c) = u
    BY <1>4, <1>18, <1>20, <2>1, <2>2
  <2>5. Advanced(s, u, ents, last)
    BY <1>16, <1>20, <2>3 DEF Advanced
  <2> QED
    BY <1>2, <2>1, <2>3, <2>4, <2>5
<1> QED
  BY <1>19, <1>20

\* What maybe_send_append did to the progress: nothing; it sent a snapshot; or it sent
\* or batched entries from the next index, some when it may not send an empty append.
Outcome(s, t, allow_empty, l, c) ==
    \/ ~t.sent /\ t.pr = s.pr /\ t.failed = s.failed
    \/ /\ ~IsPaused(s.pr) /\ (allow_empty \/ s.pr.request # 0)
       /\ t.failed = s.failed
       /\ t.pr = BecomeSnapshot(s.pr, c)
    \/ /\ ~IsPaused(s.pr) /\ s.pr.request = 0
       /\ \E ents : /\ Continues(ents, s.pr.next_idx - 1, l)
                    /\ allow_empty \/ ents # <<>>
                    /\ Advanced(s, t, ents, s.pr.next_idx - 1 + Len(ents))

\* Whatever it does, what it leaves is sound.
LEMMA MaybeSendAppendOK ==
    ASSUME "is_continuous" \in repaired,
           NEW s, NEW a, NEW l, NEW c \in Nat, Len(l) \in Nat, c <= Len(l),
           WorkOK(s, a, l, c), NEW allow_empty \in BOOLEAN
    PROVE  /\ WorkOK(MaybeSendAppend(s, allow_empty, l, c), a, l, c)
           /\ Outcome(s, MaybeSendAppend(s, allow_empty, l, c), allow_empty, l, c)
<1>1. s \in Works /\ ProgressOK(s.pr, a, l)
  BY DEF WorkOK
<1>2. PICK next : next = s.pr.next_idx
  OBVIOUS
<1>3. next \in Nat /\ next >= 1 /\ next <= Len(l) + 1
  BY <1>1, <1>2 DEF ProgressOK, Progresses
<1>4. PICK size : size = Smaller(Batch, Len(l) + 1 - next)
  OBVIOUS
<1>5. size \in Nat /\ next - 1 + size <= Len(l) /\ (next <= Len(l) => size >= 1)
  BY <1>3, <1>4, PeerAssumption DEF Smaller
<1>6. PICK ents : ents = [k \in 1..size |-> next + k - 1]
  OBVIOUS
<1>7. /\ Continues(ents, next - 1, l)
      /\ next <= Len(l) => ents # <<>>
  <2>1. \A k \in 1..size : next + k - 1 \in Nat /\ next + k - 1 = next - 1 + k
    BY <1>3, <1>5
  <2>a. ents \in [1..size -> Nat]
    BY <1>6, <2>1
  <2>2. ents \in Seq(Nat) /\ Len(ents) = size /\ DOMAIN ents = 1..size
    BY <1>5, <2>a
  <2>3. \A k \in 1..size : ents[k] = next - 1 + k
    BY <1>6, <2>1
  <2>4. Continues(ents, next - 1, l)
    BY <1>5, <2>2, <2>3 DEF Continues
  <2> QED
    BY <1>5, <2>2, <2>4
<1>8. PICK t : t = MaybeSendAppend(s, allow_empty, l, c)
  OBVIOUS
<1> DEFINE gone == next <= compacted
<1>9. t = IF IsPaused(s.pr) THEN Unsent(s)
          ELSE IF s.pr.request # 0 THEN SendSnapshot(s, c)
          ELSE IF ~allow_empty /\ (gone \/ next > Len(l)) THEN Unsent(s)
          ELSE IF gone THEN SendSnapshot(s, c)
          ELSE IF CanBatch(s, ents) THEN Batched(s, ents, c)
          ELSE SendEntries(s, ents, c)
  BY <1>2, <1>4, <1>6, <1>8, Zenon DEF MaybeSendAppend
<1>10. CASE t = Unsent(s)
  <2>1. /\ WorkOK(t, a, l, c)
        /\ t.pr = s.pr /\ ~t.sent /\ t.failed = s.failed
    BY <1>10, UnsentOK
  <2> QED
    BY <1>8, <2>1 DEF Outcome
<1>11. CASE t = SendSnapshot(s, c) /\ ~IsPaused(s.pr) /\ (allow_empty \/ s.pr.request # 0)
  <2>1. /\ WorkOK(t, a, l, c) /\ t.failed = s.failed
        /\ \/ t.pr = s.pr /\ ~t.sent
           \/ t.pr = BecomeSnapshot(s.pr, c)
    BY <1>11, SendSnapshotOK
  <2> QED
    BY <1>8, <1>11, <2>1 DEF Outcome
<1>12. CASE /\ t = SendEntries(s, ents, c) \/ (CanBatch(s, ents) /\ t = Batched(s, ents, c))
            /\ ~IsPaused(s.pr) /\ s.pr.request = 0 /\ (allow_empty \/ ents # <<>>)
  <2>1. /\ WorkOK(t, a, l, c)
        /\ Advanced(s, t, ents, s.pr.next_idx - 1 + Len(ents))
    BY <1>2, <1>7, <1>12, SendEntriesOK, BatchedOK
  <2> QED
    BY <1>2, <1>7, <1>8, <1>12, <2>1 DEF Outcome
<1> QED
  <2>1. ~(next > Len(l)) => ents # <<>>
    BY <1>3, <1>7
  <2> HIDE DEF gone
  <2> QED
    BY <1>9, <1>10, <1>11, <1>12, <2>1

-----------------------------------------------------------------------------
\* The window

\* An index that goes into the window is past all in it.
LEMMA WindowGrows ==
    ASSUME "update_state" \in repaired,
           NEW p, NEW a, NEW l, ProgressOK(p, a, l), WindowOK(p), ~IsPaused(p),
           NEW last \in Nat, last >= p.next_idx
    PROVE  /\ WindowOK(UpdateState(p, last))
           /\ Check("Inflights_add", Len(UpdateState(p, last).ins) <= Window) = {}
           /\ p.state = "Replicate" => /\ UpdateState(p, last).state = "Replicate"
                                       /\ UpdateState(p, last).next_idx = last + 1
           /\ p.state # "Replicate" => IsPaused(UpdateState(p, last))
           /\ UpdateState(p, last).request = p.request
<1>1. p \in Progresses /\ Window \in Nat /\ Window >= 1
  BY PeerAssumption DEF ProgressOK
<1>2. PICK q : q = UpdateState(p, last)
  OBVIOUS
<1>3. CASE p.state = "Replicate"
  <2>1. PICK w : w = p.ins
    OBVIOUS
  <2>a. PICK n \in Nat : n = Len(w)
    BY <1>1, <2>1 DEF Progresses
  <2>2. /\ w \in Seq(Nat) /\ n = Len(w) /\ n <= Window /\ n # Window
        /\ DOMAIN w = 1..n
        /\ \A k \in 1..n : w[k] \in Nat /\ p.matched < w[k] /\ w[k] < p.next_idx
        /\ \A k \in 2..n : w[k - 1] < w[k]
        /\ p.matched < p.next_idx /\ p.matched \in Nat /\ p.next_idx \in Nat
    BY <1>1, <1>3, <2>1, <2>a DEF WindowOK, IsPaused, Progresses
  <2>3. PICK v : v = Append(w, last)
    OBVIOUS
  <2>4. /\ v \in Seq(Nat) /\ Len(v) = n + 1 /\ DOMAIN v = 1..(n + 1)
        /\ \A k \in 1..n : v[k] = w[k]
        /\ v[n + 1] = last
    BY <2>2, <2>3
  <2>5. q = [p EXCEPT !.next_idx = last + 1, !.ins = v]
    BY <1>1, <1>2, <1>3, <2>1, <2>3 DEF UpdateState, Progresses
  <2>6. /\ q.state = "Replicate" /\ q.next_idx = last + 1 /\ q.ins = v
        /\ q.matched = p.matched /\ q.request = p.request
    BY <1>1, <1>3, <2>5 DEF Progresses
  <2>7. ASSUME NEW k \in 1..(n + 1) PROVE p.matched < v[k] /\ v[k] < last + 1
    <3>1. CASE k \in 1..n
      <4>1. v[k] = w[k] /\ w[k] \in Nat /\ p.matched < w[k] /\ w[k] < p.next_idx
        BY <2>2, <2>4, <3>1
      <4> QED
        BY <2>2, <4>1
    <3>2. CASE k = n + 1
      BY <2>2, <2>4, <3>2
    <3> QED
      BY <2>a, <3>1, <3>2
  <2>8. ASSUME NEW k \in 2..(n + 1) PROVE v[k - 1] < v[k]
    <3>1. k - 1 \in 1..n
      BY <2>a
    <3>2. v[k - 1] = w[k - 1] /\ w[k - 1] \in Nat /\ w[k - 1] < p.next_idx
      BY <2>2, <2>4, <3>1
    <3>3. CASE k \in 2..n
      <4>1. k \in 1..n /\ v[k] = w[k] /\ w[k - 1] < w[k]
        BY <2>2, <2>4, <3>3
      <4> QED
        BY <3>2, <4>1
    <3>4. CASE k = n + 1
      BY <2>2, <2>4, <3>2, <3>4
    <3> QED
      BY <2>a, <3>3, <3>4
  <2>9. Len(v) <= Window /\ p.matched < last + 1
    BY <1>1, <2>a, <2>2, <2>4
  <2>10. WindowOK(q)
    BY <2>a, <2>4, <2>6, <2>7, <2>8, <2>9 DEF WindowOK
  <2> QED
    BY <1>2, <1>3, <2>6, <2>9, <2>10 DEF Check
<1>4. CASE p.state # "Replicate"
  <2>1. q = [p EXCEPT !.paused = TRUE]
    BY <1>2, <1>4 DEF UpdateState
  <2>2. /\ q.state = p.state /\ q.paused /\ q.ins = p.ins /\ q.request = p.request
        /\ q.state \in {"Probe", "Snapshot"}
    BY <1>1, <1>4, <2>1 DEF Progresses
  <2>3. p.ins = <<>> /\ Len(p.ins) <= Window
    BY <1>4 DEF WindowOK
  <2> QED
    BY <1>2, <1>4, <2>2, <2>3 DEF WindowOK, IsPaused, Check
<1> QED
  BY <1>3, <1>4

InWindow(s) == WindowOK(s.pr) /\ s.failed = {}

\* A replicating peer that takes entries.
Replicating(p) == p.state = "Replicate" /\ p.request = 0

\* maybe_send_append keeps the window in order and its assertion from failing.  When
\* it may not send an empty append and sends, it advances a replicating peer, and
\* pauses any other.
LEMMA Round ==
    ASSUME "is_continuous" \in repaired, "update_state" \in repaired,
           NEW s, NEW a, NEW l, NEW c \in Nat, Len(l) \in Nat, c <= Len(l),
           WorkOK(s, a, l, c), InWindow(s), NEW allow_empty \in BOOLEAN,
           NEW t, t = MaybeSendAppend(s, allow_empty, l, c)
    PROVE  /\ InWindow(t)
           /\ ~allow_empty /\ t.sent =>
                 /\ ~IsPaused(s.pr)
                 /\ \/ /\ Replicating(s.pr) /\ Replicating(t.pr)
                       /\ t.pr.next_idx >= s.pr.next_idx + 1
                    \/ ~Replicating(s.pr) /\ IsPaused(t.pr)
<1>1. ProgressOK(s.pr, a, l) /\ s.pr \in Progresses /\ Outcome(s, t, allow_empty, l, c)
  BY MaybeSendAppendOK DEF WorkOK, ProgressOK
<1>2. CASE ~t.sent /\ t.pr = s.pr /\ t.failed = s.failed
  BY <1>2 DEF InWindow
<1>3. CASE /\ ~IsPaused(s.pr) /\ (allow_empty \/ s.pr.request # 0)
           /\ t.failed = s.failed
           /\ t.pr = BecomeSnapshot(s.pr, c)
  <2>1. t.pr.state = "Snapshot" /\ t.pr.ins = <<>>
    BY <1>1, <1>3, BecomeSnapshotOK
  <2>2. WindowOK(t.pr)
    BY <2>1, PeerAssumption DEF WindowOK
  <2> QED
    BY <1>3, <2>1, <2>2 DEF InWindow, Replicating, IsPaused
<1>4. CASE /\ ~IsPaused(s.pr) /\ s.pr.request = 0
           /\ \E ents : /\ Continues(ents, s.pr.next_idx - 1, l)
                        /\ allow_empty \/ ents # <<>>
                        /\ Advanced(s, t, ents, s.pr.next_idx - 1 + Len(ents))
  <2>1. PICK ents : /\ Continues(ents, s.pr.next_idx - 1, l)
                    /\ allow_empty \/ ents # <<>>
                    /\ Advanced(s, t, ents, s.pr.next_idx - 1 + Len(ents))
    BY <1>4
  <2>2. s.pr.next_idx \in Nat /\ s.pr.next_idx >= 1 /\ s.pr.next_idx - 1 \in Nat
    BY <1>1 DEF ProgressOK, Progresses
  <2>3. CASE ents = <<>>
    <3>1. t.pr = s.pr /\ t.failed = s.failed
      BY <2>1, <2>3 DEF Advanced
    <3> QED
      BY <2>1, <2>3, <3>1 DEF InWindow
  <2>4. CASE ents # <<>>
    <3>1. Len(ents) \in Nat /\ Len(ents) # 0
      BY <2>1, <2>2, <2>4, LastContinues
    <3>2. PICK last \in Nat : last = s.pr.next_idx - 1 + Len(ents)
      BY <2>2, <3>1
    <3>3. last >= s.pr.next_idx
      BY <2>2, <3>1, <3>2
    <3>4. /\ t.pr = UpdateState(s.pr, last)
          /\ t.failed = s.failed
                        \cup Check("Inflights_add", Len(UpdateState(s.pr, last).ins) <= Window)
      BY <2>1, <2>4, <3>2 DEF Advanced
    <3>5. PICK p : p = s.pr
      OBVIOUS
    <3>6. ProgressOK(p, a, l) /\ WindowOK(p) /\ ~IsPaused(p) /\ last >= p.next_idx
      BY <1>1, <1>4, <3>3, <3>5 DEF InWindow
    <3>7. /\ WindowOK(t.pr)
          /\ t.failed = s.failed \cup {}
          /\ p.state = "Replicate" => t.pr.state = "Replicate" /\ t.pr.next_idx = last + 1
          /\ p.state # "Replicate" => IsPaused(t.pr)
          /\ t.pr.request = p.request
      <4>1. PICK q : q = UpdateState(p, last)
        OBVIOUS
      <4>2. /\ WindowOK(q)
            /\ Check("Inflights_add", Len(q.ins) <= Window) = {}
            /\ p.state = "Replicate" => q.state = "Replicate" /\ q.next_idx = last + 1
            /\ p.state # "Replicate" => IsPaused(q)
            /\ q.request = p.request
        BY <3>6, <4>1, WindowGrows
      <4>3. t.pr = q /\ t.failed = s.failed \cup Check("Inflights_add", Len(q.ins) <= Window)
        BY <3>4, <3>5, <4>1
      <4> QED
        BY <4>2, <4>3
    <3>8. last + 1 >= p.next_idx + 1
      BY <2>2, <3>3, <3>5
    <3> QED
      BY <1>4, <3>5, <3>7, <3>8 DEF InWindow, Replicating
  <2> QED
    BY <2>3, <2>4
<1> QED
  BY <1>1, <1>2, <1>3, <1>4 DEF Outcome

-----------------------------------------------------------------------------
\* The rounds of send_append_aggressively

\* The fold over the log takes some index first, then the rest: it is one recursive
\* function of sets of indexes.
Some(s) == CHOOSE x \in s : TRUE

IsRounds(it, base, l, c, S) ==
    it = [u \in SUBSET S |-> IF u = {} THEN base ELSE SendMore(it[u \ {Some(u)}], l, c)]

\* Among sets of elements of a finite set, one has no other below it.
LEMMA SmallestSet ==
    ASSUME NEW S, IsFiniteSet(S), NEW B \in SUBSET (SUBSET S), B # {}
    PROVE  \E t \in B : \A u \in B : u \subseteq t => u = t
<1>1. IsWellFoundedOn(StrictSubsetOrdering(S), FiniteSubsetsOf(S))
  BY FS_StrictSubsetOrderingWellFounded
<1>2. FiniteSubsetsOf(S) = SUBSET S
  BY FS_FiniteSubsetsOfFinite
<1>3. B \subseteq FiniteSubsetsOf(S)
  BY <1>2
<1>4. PICK t \in B : \A u \in B : ~(<<u, t>> \in StrictSubsetOrdering(S))
  BY <1>1, <1>3, WFMin
<1>5. ASSUME NEW u \in B, u \subseteq t, u # t PROVE FALSE
  <2>1. <<u, t>> \in StrictSubsetOrdering(S)
    BY <1>5 DEF StrictSubsetOrdering
  <2> QED
    BY <1>4, <2>1
<1> QED
  BY <1>5

\* An element of a set that is not empty, and what is left without it.
LEMMA SomeIsIn ==
    ASSUME NEW s, s # {}
    PROVE  Some(s) \in s /\ s \ {Some(s)} \subseteq s /\ s \ {Some(s)} # s
BY DEF Some

\* A function of rounds at a set of indexes.
RoundAt(it, base, l, c, s) ==
    it[s] = IF s = {} THEN base ELSE SendMore(it[s \ {Some(s)}], l, c)

\* The rounds over a set of indexes.
LEMMA RoundsAt ==
    ASSUME NEW base, NEW l, NEW c, NEW S, NEW it, IsRounds(it, base, l, c, S),
           NEW s \in SUBSET S
    PROVE  RoundAt(it, base, l, c, s)
<1> DEFINE body(j, t) == IF t = {} THEN base ELSE SendMore(j[t \ {Some(t)}], l, c)
<1>1. it = [t \in SUBSET S |-> body(it, t)]
  BY DEF IsRounds
<1> HIDE DEF body
<1>2. it[s] = body(it, s)
  BY <1>1
<1> QED
  BY <1>2 DEF body, RoundAt

\* Two functions of the rounds agree wherever both are defined.
LEMMA RoundsAgree ==
    ASSUME NEW base, NEW l, NEW c, NEW S, IsFiniteSet(S), NEW T, NEW i, NEW j,
           IsRounds(i, base, l, c, S), IsRounds(j, base, l, c, T),
           NEW r \in SUBSET S, r \subseteq T
    PROVE  i[r] = j[r]
<1> DEFINE B == {t \in SUBSET S : t \subseteq T /\ i[t] # j[t]}
<1>1. SUFFICES ASSUME B # {} PROVE FALSE
  OBVIOUS
<1>2. PICK t \in B : \A u \in B : u \subseteq t => u = t
  <2>1. B \in SUBSET (SUBSET S) /\ B # {}
    BY <1>1
  <2> HIDE DEF B
  <2> QED
    BY <2>1, SmallestSet
<1>a. t \in SUBSET S /\ t \in SUBSET T
  BY <1>2
<1>b. RoundAt(i, base, l, c, t) /\ RoundAt(j, base, l, c, t)
  BY <1>a, RoundsAt
<1>3. i[t] = IF t = {} THEN base ELSE SendMore(i[t \ {Some(t)}], l, c)
  BY <1>b DEF RoundAt
<1>4. j[t] = IF t = {} THEN base ELSE SendMore(j[t \ {Some(t)}], l, c)
  BY <1>b DEF RoundAt
<1>5. t # {}
  BY <1>2, <1>3, <1>4
<1>6. t \ {Some(t)} \notin B
  BY <1>2, <1>5, SomeIsIn
<1>7. t \ {Some(t)} \in SUBSET S /\ t \ {Some(t)} \subseteq T
  BY <1>2
<1>8. i[t \ {Some(t)}] = j[t \ {Some(t)}]
  BY <1>6, <1>7
<1> QED
  BY <1>2, <1>3, <1>4, <1>5, <1>8

\* There is such a function of every finite set.
LEMMA RoundsExist ==
    ASSUME NEW base, NEW l, NEW c, NEW S, IsFiniteSet(S)
    PROVE  \E it : IsRounds(it, base, l, c, S)
<1> DEFINE B == {t \in SUBSET S : ~\E it : IsRounds(it, base, l, c, t)}
<1>1. SUFFICES ASSUME B # {} PROVE FALSE
  OBVIOUS
<1>2. PICK t \in B : \A u \in B : u \subseteq t => u = t
  <2>1. B \in SUBSET (SUBSET S) /\ B # {}
    BY <1>1
  <2> HIDE DEF B
  <2> QED
    BY <2>1, SmallestSet
<1> DEFINE F(u) == CHOOSE it : IsRounds(it, base, l, c, u)
<1>3. ASSUME NEW u \in SUBSET t, u # t
      PROVE  IsRounds(F(u), base, l, c, u) /\ IsFiniteSet(u)
  <2>1. u \notin B /\ u \in SUBSET S
    BY <1>2, <1>3
  <2>2. \E it : IsRounds(it, base, l, c, u)
    BY <2>1
  <2>3. IsRounds(F(u), base, l, c, u)
    BY <2>2
  <2> QED
    BY <2>1, <2>3, FS_Subset
<1> DEFINE val(u) == IF u = {} THEN base ELSE SendMore(F(u \ {Some(u)})[u \ {Some(u)}], l, c)
           it == [u \in SUBSET t |-> val(u)]
<1> HIDE DEF F
<1>4. ASSUME NEW u \in SUBSET t, u # t PROVE F(u)[u] = val(u)
  <2>1. IsRounds(F(u), base, l, c, u) /\ IsFiniteSet(u)
    BY <1>3, <1>4
  <2>2. F(u)[u] = IF u = {} THEN base ELSE SendMore(F(u)[u \ {Some(u)}], l, c)
    <3>1. u \in SUBSET u
      OBVIOUS
    <3>2. RoundAt(F(u), base, l, c, u)
      BY <2>1, <3>1, RoundsAt
    <3> QED
      BY <3>2 DEF RoundAt
  <2>3. CASE u # {}
    <3>1. PICK w : w = u \ {Some(u)}
      OBVIOUS
    <3>2. w \in SUBSET u /\ w # u /\ w \in SUBSET t /\ w # t
      BY <2>3, <3>1, SomeIsIn
    <3>3. IsRounds(F(w), base, l, c, w)
      BY <1>3, <3>2
    <3>4. F(u)[w] = F(w)[w]
      BY <2>1, <3>2, <3>3, RoundsAgree
    <3> QED
      BY <2>2, <2>3, <3>1, <3>4
  <2> QED
    BY <2>2, <2>3
<1>5. ASSUME NEW u \in SUBSET t
      PROVE  it[u] = IF u = {} THEN base ELSE SendMore(it[u \ {Some(u)}], l, c)
  <2>1. it[u] = val(u)
    OBVIOUS
  <2>2. CASE u # {}
    <3>1. PICK w : w = u \ {Some(u)}
      OBVIOUS
    <3>2. w \in SUBSET t /\ w # t
      BY <2>2, <3>1, SomeIsIn
    <3>3. it[w] = F(w)[w]
      BY <1>4, <3>2
    <3> QED
      BY <2>1, <2>2, <3>1, <3>3
  <2> QED
    BY <2>1, <2>2
<1>6. IsRounds(it, base, l, c, t)
  <2> DEFINE body(u) == IF u = {} THEN base ELSE SendMore(it[u \ {Some(u)}], l, c)
  <2>1. it = [u \in SUBSET t |-> it[u]]
    OBVIOUS
  <2>2. \A u \in SUBSET t : it[u] = body(u)
    BY <1>5
  <2> HIDE DEF it, body
  <2>3. it = [u \in SUBSET t |-> body(u)]
    BY <2>1, <2>2
  <2> QED
    BY <2>3 DEF IsRounds, body
<1> QED
  BY <1>2, <1>6

\* The loop must have ended.
Ended(t) == [t EXCEPT !.failed = @ \cup Check("send_append_aggressively", ~t.sent)]

\* What send_append_aggressively does is the rounds over the indexes of the log.
LEMMA AggressivelyIsRounds ==
    ASSUME NEW s, NEW l, NEW c, IsFiniteSet(DOMAIN l)
    PROVE  \E it : /\ IsRounds(it, MaybeSendAppend(s, FALSE, l, c), l, c, DOMAIN l)
                   /\ SendAppendAggressively(s, l, c) = Ended(it[DOMAIN l])
<1> DEFINE base == MaybeSendAppend(s, FALSE, l, c)
           S == DOMAIN l
           it == CHOOSE j : j = [u \in SUBSET S |->
                                   IF u = {} THEN base ELSE SendMore(j[u \ {Some(u)}], l, c)]
<1>1. \E j : IsRounds(j, base, l, c, S)
  BY RoundsExist
<1>2. IsRounds(it, base, l, c, S)
  BY <1>1 DEF IsRounds
<1>3. FoldFunction(LAMBDA i, t : SendMore(t, l, c), MaybeSendAppend(s, FALSE, l, c), l) = it[S]
  BY Zenon DEF FoldFunction, FoldFunctionOnSet, MapThenFoldSet, Some
<1>4. SendAppendAggressively(s, l, c) = Ended(it[S])
  BY <1>3, Zenon DEF SendAppendAggressively, Ended
<1> QED
  BY <1>2, <1>4, Zenon

\* After n more rounds a message was sent only if the peer replicates and each round
\* advanced it, or it is the first that paused it.
Going(s, n) ==
    s.sent => \/ Replicating(s.pr) /\ s.pr.next_idx >= n + 2
              \/ n = 0 /\ IsPaused(s.pr)

\* One more round.
LEMMA SendMoreOK ==
    ASSUME "is_continuous" \in repaired,
           NEW s, NEW a, NEW l, NEW c \in Nat, Len(l) \in Nat, c <= Len(l),
           WorkOK(s, a, l, c), NEW n \in Nat
    PROVE  /\ WorkOK(SendMore(s, l, c), a, l, c)
           /\ "update_state" \in repaired /\ InWindow(s) /\ Going(s, n)
                 => InWindow(SendMore(s, l, c)) /\ Going(SendMore(s, l, c), n + 1)
<1>1. PICK t : t = MaybeSendAppend(s, FALSE, l, c)
  OBVIOUS
<1>2. SendMore(s, l, c) = t \/ SendMore(s, l, c) = s
  BY <1>1 DEF SendMore
<1>3. WorkOK(t, a, l, c)
  BY <1>1, MaybeSendAppendOK
<1>4. ASSUME "update_state" \in repaired, InWindow(s), Going(s, n)
      PROVE  InWindow(SendMore(s, l, c)) /\ Going(SendMore(s, l, c), n + 1)
  <2>1. CASE ~s.sent
    <3>1. SendMore(s, l, c) = s
      BY <2>1 DEF SendMore
    <3> QED
      BY <1>4, <2>1, <3>1 DEF Going
  <2>2. CASE s.sent
    <3>1. SendMore(s, l, c) = t
      BY <1>1, <1>4, <2>2 DEF SendMore, InWindow
    <3>2. /\ InWindow(t)
          /\ t.sent => /\ ~IsPaused(s.pr)
                       /\ \/ /\ Replicating(s.pr) /\ Replicating(t.pr)
                             /\ t.pr.next_idx >= s.pr.next_idx + 1
                          \/ ~Replicating(s.pr) /\ IsPaused(t.pr)
      <4>1. FALSE \in BOOLEAN
        OBVIOUS
      <4> QED
        BY <1>1, <1>4, <4>1, Round
    <3>3. s.pr.next_idx \in Nat /\ t.pr.next_idx \in Nat
      BY <1>3 DEF WorkOK, ProgressOK, Progresses
    <3>4. Going(t, n + 1)
      <4>1. SUFFICES ASSUME t.sent
                     PROVE  Replicating(t.pr) /\ t.pr.next_idx >= n + 1 + 2
        BY DEF Going
      <4>2. Replicating(s.pr) /\ s.pr.next_idx >= n + 2
        BY <1>4, <2>2, <3>2, <4>1 DEF Going
      <4>3. Replicating(t.pr) /\ t.pr.next_idx >= s.pr.next_idx + 1
        BY <3>2, <4>1, <4>2
      <4> QED
        BY <3>3, <4>2, <4>3
    <3> QED
      BY <3>1, <3>2, <3>4
  <2> QED
    BY <2>1, <2>2
<1> QED
  BY <1>2, <1>3, <1>4

\* Rounds over any of the indexes leave what the first left sound.
LEMMA RoundsOK ==
    ASSUME "is_continuous" \in repaired,
           NEW base, NEW a, NEW l, NEW c \in Nat, Len(l) \in Nat, c <= Len(l),
           NEW S, IsFiniteSet(S), NEW it, IsRounds(it, base, l, c, S),
           WorkOK(base, a, l, c)
    PROVE  /\ WorkOK(it[S], a, l, c)
           /\ "update_state" \in repaired /\ InWindow(base) /\ Going(base, 0)
                 => InWindow(it[S]) /\ Going(it[S], Cardinality(S))
<1>0. \A t \in SUBSET S : RoundAt(it, base, l, c, t)
  BY RoundsAt
<1> DEFINE strict == "update_state" \in repaired /\ InWindow(base) /\ Going(base, 0)
           P(t, n) == /\ WorkOK(t, a, l, c)
                      /\ strict => InWindow(t) /\ Going(t, n)
           B == {t \in SUBSET S : ~P(it[t], Cardinality(t))}
<1>1. SUFFICES B = {}
  <2>1. S \in SUBSET S
    OBVIOUS
  <2>2. B = {} => P(it[S], Cardinality(S))
    BY <2>1
  <2> QED
    BY <2>2
<1>2. SUFFICES ASSUME B # {} PROVE FALSE
  OBVIOUS
<1>3. PICK t \in B : \A u \in B : u \subseteq t => u = t
  <2>1. B \in SUBSET (SUBSET S) /\ B # {}
    BY <1>2
  <2> HIDE DEF B
  <2> QED
    BY <2>1, SmallestSet
<1>4. t \in SUBSET S /\ ~P(it[t], Cardinality(t)) /\ IsFiniteSet(t)
  BY <1>3, FS_Subset
<1>5. it[t] = IF t = {} THEN base ELSE SendMore(it[t \ {Some(t)}], l, c)
  BY <1>0, <1>4 DEF RoundAt
<1>6. CASE t = {}
  <2>1. Cardinality(t) = 0
    BY <1>6, FS_EmptySet
  <2> QED
    BY <1>4, <1>5, <1>6, <2>1
<1>7. CASE t # {}
  <2>1. PICK w : w = t \ {Some(t)}
    OBVIOUS
  <2>2. w \subseteq t /\ w # t /\ w \in SUBSET S /\ Some(t) \in t
    BY <1>4, <1>7, <2>1, SomeIsIn
  <2>3. P(it[w], Cardinality(w))
    BY <1>3, <2>2
  <2>4. PICK n \in Nat : n = Cardinality(w) /\ Cardinality(t) = n + 1
    <3>1. IsFiniteSet(w) /\ Cardinality(w) = Cardinality(t) - 1
      BY <1>4, <2>1, <2>2, FS_RemoveElement
    <3>2. Cardinality(w) \in Nat /\ Cardinality(t) \in Nat
      BY <1>4, <3>1, FS_CardinalityType
    <3> QED
      BY <3>1, <3>2
  <2>5. P(SendMore(it[w], l, c), n + 1)
    <3>1. WorkOK(it[w], a, l, c) /\ (strict => InWindow(it[w]) /\ Going(it[w], n))
      BY <2>3, <2>4
    <3>2. PICK v : v = it[w]
      OBVIOUS
    <3>3. /\ WorkOK(SendMore(v, l, c), a, l, c)
          /\ "update_state" \in repaired /\ InWindow(v) /\ Going(v, n)
                => InWindow(SendMore(v, l, c)) /\ Going(SendMore(v, l, c), n + 1)
      BY <3>1, <3>2, SendMoreOK
    <3> QED
      BY <3>1, <3>2, <3>3
  <2> QED
    BY <1>4, <1>5, <1>7, <2>1, <2>4, <2>5
<1> QED
  BY <1>6, <1>7

\* send_append_aggressively leaves what it works on sound, and ends.
LEMMA AggressivelyOK ==
    ASSUME "is_continuous" \in repaired,
           NEW s, NEW a, NEW l \in Seq(Nat \ {0}), Len(l) >= 1, NEW c \in Nat, c <= Len(l),
           WorkOK(s, a, l, c)
    PROVE  /\ WorkOK(SendAppendAggressively(s, l, c), a, l, c)
           /\ "update_state" \in repaired /\ InWindow(s)
                 => InWindow(SendAppendAggressively(s, l, c))
<1>1. /\ Len(l) \in Nat /\ DOMAIN l = 1..Len(l)
      /\ IsFiniteSet(DOMAIN l) /\ Cardinality(DOMAIN l) = Len(l)
  <2>1. Len(l) \in Nat /\ DOMAIN l = 1..Len(l) /\ 1 \in Int /\ Len(l) \in Int
    OBVIOUS
  <2>2. PICK n \in Nat : n = Len(l)
    BY <2>1
  <2>a. 1 \in Int /\ n \in Int
    OBVIOUS
  <2>3. IsFiniteSet(1..n) /\ Cardinality(1..n) = (IF 1 > n THEN 0 ELSE n - 1 + 1)
    BY <2>a, FS_Interval, Zenon
  <2>4. Cardinality(1..n) = n
    BY <2>3
  <2> QED
    BY <2>1, <2>2, <2>3, <2>4
<1>2. PICK base : base = MaybeSendAppend(s, FALSE, l, c)
  OBVIOUS
<1>3. PICK S : S = DOMAIN l
  OBVIOUS
<1>4. PICK it : /\ IsRounds(it, base, l, c, S)
                /\ SendAppendAggressively(s, l, c) = Ended(it[S])
  <2>1. \E j : /\ IsRounds(j, MaybeSendAppend(s, FALSE, l, c), l, c, DOMAIN l)
               /\ SendAppendAggressively(s, l, c) = Ended(j[DOMAIN l])
    BY <1>1, AggressivelyIsRounds, Zenon
  <2> QED
    BY <1>2, <1>3, <2>1, Zenon
<1>5. WorkOK(base, a, l, c)
  <2>1. FALSE \in BOOLEAN
    OBVIOUS
  <2> QED
    BY <1>1, <1>2, <2>1, MaybeSendAppendOK
<1>6. PICK t : t = it[S]
  OBVIOUS
<1>7. /\ WorkOK(t, a, l, c)
      /\ "update_state" \in repaired /\ InWindow(base) /\ Going(base, 0)
            => InWindow(t) /\ Going(t, Len(l))
  BY <1>1, <1>3, <1>4, <1>5, <1>6, RoundsOK
<1>8. PICK f : f = Check("send_append_aggressively", ~t.sent)
  OBVIOUS
<1>9. PICK u : u = SendAppendAggressively(s, l, c)
  OBVIOUS
<1>10. u = [t EXCEPT !.failed = @ \cup f]
  BY <1>4, <1>6, <1>8, <1>9 DEF Ended
<1>11. /\ u \in Works /\ u.pr = t.pr /\ u.out = t.out /\ u.snaps = t.snaps
       /\ u.failed = t.failed \cup f
  <2>1. t \in Works
    BY <1>7 DEF WorkOK
  <2>2. f \in SUBSET Assertions
    BY <1>8 DEF Check, Assertions
  <2> QED
    BY <1>10, <2>1, <2>2 DEF Works
<1>12. WorkOK(u, a, l, c)
  BY <1>7, <1>11 DEF WorkOK
<1>13. ASSUME "update_state" \in repaired, InWindow(s)
       PROVE  InWindow(u)
  <2>1. InWindow(base) /\ Going(base, 0)
    <3>1. FALSE \in BOOLEAN
      OBVIOUS
    <3>2. /\ InWindow(base)
          /\ base.sent => /\ ~IsPaused(s.pr)
                          /\ \/ /\ Replicating(s.pr) /\ Replicating(base.pr)
                                /\ base.pr.next_idx >= s.pr.next_idx + 1
                             \/ ~Replicating(s.pr) /\ IsPaused(base.pr)
      BY <1>1, <1>2, <1>13, <3>1, Round
    <3>3. s.pr.next_idx \in Nat /\ s.pr.next_idx >= 1 /\ base.pr.next_idx \in Nat
      BY <1>5 DEF WorkOK, ProgressOK, Progresses
    <3> QED
      BY <3>2, <3>3 DEF Going
  <2>2. InWindow(t) /\ Going(t, Len(l))
    BY <1>7, <1>13, <2>1
  <2>3. t.pr.next_idx \in Nat /\ t.pr.next_idx <= Len(l) + 1
    BY <1>7 DEF WorkOK, ProgressOK, Progresses
  <2>4. ~t.sent
    BY <1>1, <2>2, <2>3 DEF Going
  <2>5. f = {}
    BY <1>8, <2>4 DEF Check
  <2> QED
    BY <1>11, <2>2, <2>5 DEF InWindow
<1> QED
  BY <1>9, <1>12, <1>13

-----------------------------------------------------------------------------
\* What happens to the progress

\* reset_state
LEMMA ResetStateIs ==
    ASSUME NEW p \in Progresses, NEW state \in {"Probe", "Replicate", "Snapshot"}
    PROVE  /\ ResetState(p, state) \in Progresses
           /\ ResetState(p, state).matched = p.matched
           /\ ResetState(p, state).next_idx = p.next_idx
           /\ ResetState(p, state).state = state
           /\ ResetState(p, state).pending_snapshot = 0
           /\ ResetState(p, state).ins = <<>>
           /\ ResetState(p, state).request = p.request
<1>1. <<>> \in Seq(Nat)
  OBVIOUS
<1>2. PICK o : o = [p EXCEPT !.paused = FALSE, !.pending_snapshot = 0]
  OBVIOUS
<1>3. /\ o \in Progresses /\ o.pending_snapshot = 0 /\ o.matched = p.matched
      /\ o.next_idx = p.next_idx /\ o.request = p.request
  BY <1>2 DEF Progresses
<1>4. PICK q : q = ResetState(p, state)
  OBVIOUS
<1>5. q = [o EXCEPT !.state = state, !.ins = <<>>]
  BY <1>2, <1>4 DEF ResetState
<1>6. /\ q \in Progresses /\ q.pending_snapshot = 0 /\ q.matched = p.matched
      /\ q.next_idx = p.next_idx /\ q.request = p.request /\ q.state = state /\ q.ins = <<>>
  BY <1>1, <1>3, <1>5 DEF Progresses
<1> QED
  BY <1>4, <1>6

\* A window that is empty, and a next index, are all right.
LEMMA EmptyWindow ==
    ASSUME NEW p, p.ins = <<>>, p.state = "Replicate" => p.matched < p.next_idx
    PROVE  WindowOK(p)
BY PeerAssumption DEF WindowOK

\* become_probe
LEMMA BecomeProbeOK ==
    ASSUME NEW p, NEW a, NEW l, Len(a) \in Nat, Len(l) \in Nat, ProgressOK(p, a, l)
    PROVE  /\ ProgressOK(BecomeProbe(p), a, l) /\ WindowOK(BecomeProbe(p))
           /\ BecomeProbe(p).request = p.request
<1>1. p \in Progresses /\ Agree(p.matched, a, l) /\ p.pending_snapshot <= Len(l)
  BY DEF ProgressOK
<1>2. PICK r : r = ResetState(p, "Probe")
  OBVIOUS
<1>3. /\ r \in Progresses /\ r.matched = p.matched /\ r.pending_snapshot = 0
      /\ r.state = "Probe" /\ r.ins = <<>> /\ r.request = p.request
  BY <1>1, <1>2, ResetStateIs
<1>4. PICK n : n = IF p.state = "Snapshot" THEN Larger(p.matched, p.pending_snapshot) + 1
                   ELSE p.matched + 1
  OBVIOUS
<1>5. n \in Nat /\ n >= 1 /\ n <= Len(l) + 1
  <2>1. p.matched \in Nat /\ p.pending_snapshot \in Nat /\ p.matched <= Len(l)
    BY <1>1 DEF Progresses, Agree
  <2> QED
    BY <1>1, <1>4, <2>1 DEF Larger
<1>6. PICK q : q = BecomeProbe(p)
  OBVIOUS
<1>7. q = [r EXCEPT !.next_idx = n]
  BY <1>2, <1>4, <1>6 DEF BecomeProbe
<1>8. /\ q \in Progresses /\ q.matched = p.matched /\ q.next_idx = n /\ q.pending_snapshot = 0
      /\ q.state = "Probe" /\ q.ins = <<>> /\ q.request = p.request
  BY <1>3, <1>5, <1>7 DEF Progresses
<1>9. ProgressOK(q, a, l)
  BY <1>1, <1>5, <1>8 DEF ProgressOK
<1>10. WindowOK(q)
  BY <1>8, EmptyWindow
<1> QED
  BY <1>6, <1>8, <1>9, <1>10

\* become_replicate
LEMMA BecomeReplicateOK ==
    ASSUME NEW p, NEW a, NEW l, Len(a) \in Nat, Len(l) \in Nat, ProgressOK(p, a, l)
    PROVE  ProgressOK(BecomeReplicate(p), a, l) /\ WindowOK(BecomeReplicate(p))
<1>1. p \in Progresses /\ Agree(p.matched, a, l)
  BY DEF ProgressOK
<1>2. PICK r : r = ResetState(p, "Replicate")
  OBVIOUS
<1>3. /\ r \in Progresses /\ r.matched = p.matched /\ r.pending_snapshot = 0
      /\ r.state = "Replicate" /\ r.ins = <<>>
  BY <1>1, <1>2, ResetStateIs
<1>4. PICK n : n = p.matched + 1
  OBVIOUS
<1>5. n \in Nat /\ n >= 1 /\ n <= Len(l) + 1 /\ p.matched < n
  <2>1. p.matched \in Nat /\ p.matched <= Len(l)
    BY <1>1 DEF Progresses, Agree
  <2> QED
    BY <1>4, <2>1
<1>6. PICK q : q = BecomeReplicate(p)
  OBVIOUS
<1>7. q = [r EXCEPT !.next_idx = n]
  BY <1>2, <1>4, <1>6 DEF BecomeReplicate
<1>8. /\ q \in Progresses /\ q.matched = p.matched /\ q.next_idx = n /\ q.pending_snapshot = 0
      /\ q.ins = <<>>
  BY <1>3, <1>5, <1>7 DEF Progresses
<1>9. ProgressOK(q, a, l)
  BY <1>1, <1>5, <1>8 DEF ProgressOK
<1>10. WindowOK(q)
  BY <1>5, <1>8, EmptyWindow
<1> QED
  BY <1>6, <1>9, <1>10

\* A peer that was just heard of.
LEMMA HeardOK ==
    ASSUME NEW p, NEW a, NEW l, ProgressOK(p, a, l)
    PROVE  /\ ProgressOK([p EXCEPT !.recent_active = TRUE], a, l)
           /\ [p EXCEPT !.recent_active = TRUE].matched = p.matched
           /\ [p EXCEPT !.recent_active = TRUE].state = p.state
           /\ [p EXCEPT !.recent_active = TRUE].next_idx = p.next_idx
           /\ WindowOK(p) => WindowOK([p EXCEPT !.recent_active = TRUE])
<1>1. p \in Progresses
  BY DEF ProgressOK
<1>2. PICK q : q = [p EXCEPT !.recent_active = TRUE]
  OBVIOUS
<1>3. /\ q \in Progresses /\ q.matched = p.matched /\ q.next_idx = p.next_idx
      /\ q.pending_snapshot = p.pending_snapshot /\ q.state = p.state /\ q.ins = p.ins
  BY <1>1, <1>2 DEF Progresses
<1>4. ProgressOK(q, a, l)
  BY <1>3 DEF ProgressOK
<1>5. WindowOK(p) => WindowOK(q)
  BY <1>3 DEF WindowOK
<1> QED
  BY <1>2, <1>3, <1>4, <1>5

\* maybe_update: what is acknowledged is matched.
LEMMA MaybeUpdateOK ==
    ASSUME NEW p, NEW a, NEW l, Len(l) \in Nat, ProgressOK(p, a, l), NEW n, Agree(n, a, l)
    PROVE  /\ ProgressOK(MaybeUpdate(p, n), a, l)
           /\ MaybeUpdate(p, n).matched = Larger(p.matched, n)
           /\ MaybeUpdate(p, n).next_idx = Larger(p.next_idx, n + 1)
           /\ MaybeUpdate(p, n).state = p.state
           /\ MaybeUpdate(p, n).ins = p.ins
<1>1. p \in Progresses /\ Agree(p.matched, a, l)
      /\ p.next_idx >= 1 /\ p.next_idx <= Len(l) + 1
  BY DEF ProgressOK
<1>2. n \in Nat /\ n <= Len(l) /\ p.matched \in Nat /\ p.next_idx \in Nat
  BY <1>1 DEF Agree, Progresses
<1>3. PICK m, x : m = Larger(p.matched, n) /\ x = Larger(p.next_idx, n + 1)
  OBVIOUS
<1>4. /\ m \in Nat /\ Agree(m, a, l)
      /\ x \in Nat /\ x >= 1 /\ x <= Len(l) + 1
  BY <1>1, <1>2, <1>3 DEF Larger
<1>5. PICK b \in BOOLEAN : b = IF p.matched < n THEN FALSE ELSE p.paused
  BY <1>1 DEF Progresses
<1>6. PICK q : q = MaybeUpdate(p, n)
  OBVIOUS
<1>7. q = [p EXCEPT !.matched = m, !.next_idx = x, !.paused = b]
  BY <1>1, <1>3, <1>5, <1>6 DEF MaybeUpdate, Progresses
<1>8. /\ q \in Progresses /\ q.matched = m /\ q.next_idx = x
      /\ q.pending_snapshot = p.pending_snapshot /\ q.state = p.state /\ q.ins = p.ins
  BY <1>1, <1>4, <1>5, <1>7 DEF Progresses
<1>9. ProgressOK(q, a, l)
  BY <1>4, <1>8 DEF ProgressOK
<1> QED
  BY <1>3, <1>6, <1>8, <1>9

\* maybe_decr_to of a rejection that did not come late.
LEMMA DecrToOK ==
    ASSUME NEW p, NEW a, NEW l, Len(l) \in Nat, ProgressOK(p, a, l),
           NEW rejected \in Nat, NEW hint \in Nat, NEW request \in Nat,
           ~IsStale(p, rejected, request)
    PROVE  /\ ProgressOK(DecrTo(p, rejected, hint, request), a, l)
           /\ DecrTo(p, rejected, hint, request).state = p.state
           /\ DecrTo(p, rejected, hint, request).ins = p.ins
<1>1. p \in Progresses /\ Agree(p.matched, a, l)
      /\ p.next_idx >= 1 /\ p.next_idx <= Len(l) + 1
  BY DEF ProgressOK
<1>2. p.matched \in Nat /\ p.matched <= Len(l) /\ p.next_idx \in Nat /\ p.request \in Nat
  BY <1>1 DEF Agree, Progresses
<1>3. PICK q : q = DecrTo(p, rejected, hint, request)
  OBVIOUS
<1>4. \E n \in Nat, r \in Nat, b \in BOOLEAN :
         /\ n >= 1 /\ n <= Len(l) + 1
         /\ q = [p EXCEPT !.next_idx = n, !.request = r, !.paused = b]
  <2>0. /\ p.paused \in BOOLEAN
        /\ p = [p EXCEPT !.next_idx = p.next_idx, !.request = p.request, !.paused = p.paused]
    BY <1>1 DEF Progresses
  <2>1. CASE p.state = "Replicate" /\ request = 0
    <3>1. PICK n \in Nat : n = p.matched + 1
      BY <1>2
    <3>2. q = [p EXCEPT !.next_idx = n, !.request = p.request, !.paused = p.paused]
      BY <1>1, <1>3, <2>1, <3>1 DEF DecrTo, Progresses
    <3>3. n >= 1 /\ n <= Len(l) + 1
      BY <1>2, <3>1
    <3> QED
      BY <1>2, <2>0, <3>2, <3>3, Zenon
  <2>2. CASE p.state = "Replicate" /\ request # 0
    <3>1. q = [p EXCEPT !.next_idx = p.next_idx, !.request = request, !.paused = p.paused]
      BY <1>1, <1>3, <2>2 DEF DecrTo, Progresses
    <3> QED
      BY <1>1, <1>2, <2>0, <3>1
  <2>3. CASE p.state # "Replicate" /\ request = 0
    <3>1. PICK n : n = Larger(1, Smaller(rejected, hint + 1))
      OBVIOUS
    <3>2. rejected = p.next_idx - 1
      BY <2>3 DEF IsStale
    <3>3. n \in Nat /\ n >= 1 /\ n <= Len(l) + 1
      BY <1>1, <1>2, <3>1, <3>2 DEF Larger, Smaller
    <3>4. q = [p EXCEPT !.next_idx = n, !.request = p.request, !.paused = FALSE]
      BY <1>1, <1>3, <2>3, <3>1 DEF DecrTo, Progresses
    <3> QED
      BY <1>2, <3>3, <3>4
  <2>4. CASE p.state # "Replicate" /\ request # 0
    <3>1. PICK r \in Nat : r = IF p.request = 0 THEN request ELSE p.request
      BY <1>2
    <3>2. q = [p EXCEPT !.next_idx = p.next_idx, !.request = r, !.paused = FALSE]
      BY <1>1, <1>3, <2>4, <3>1 DEF DecrTo, Progresses
    <3> QED
      BY <1>1, <1>2, <3>2
  <2> QED
    BY <2>1, <2>2, <2>3, <2>4
<1>5. PICK n \in Nat, r \in Nat, b \in BOOLEAN :
         /\ n >= 1 /\ n <= Len(l) + 1
         /\ q = [p EXCEPT !.next_idx = n, !.request = r, !.paused = b]
  BY <1>4
<1>6. /\ q \in Progresses /\ q.matched = p.matched /\ q.next_idx = n
      /\ q.pending_snapshot = p.pending_snapshot /\ q.state = p.state /\ q.ins = p.ins
  BY <1>1, <1>5 DEF Progresses
<1>7. ProgressOK(q, a, l)
  BY <1>1, <1>5, <1>6 DEF ProgressOK
<1> QED
  BY <1>3, <1>6, <1>7

\* free_to frees from the first what is acknowledged, and no more.
LEMMA FreedIs ==
    ASSUME NEW ins \in Seq(Nat), NEW to \in Nat
    PROVE  /\ Freed(ins, to) \in Nat /\ Freed(ins, to) <= Len(ins)
           /\ \A k \in 1..Freed(ins, to) : ins[k] <= to
           /\ Freed(ins, to) < Len(ins) => to < ins[Freed(ins, to) + 1]
<1>1. PICK n \in Nat : n = Len(ins)
  OBVIOUS
<1>2. \A k \in 1..n : ins[k] \in Nat
  BY <1>1
<1> DEFINE S == {k \in 0..n : k = n \/ to < ins[k + 1]}
<1>3. PICK i \in S : \A j \in S : i <= j
  <2>1. n \in S /\ S \in SUBSET (0..n)
    BY <1>1
  <2> HIDE DEF S
  <2> QED
    BY <1>1, <2>1, LeastExists
<1>4. i \in 0..n /\ (i = n \/ to < ins[i + 1])
  OBVIOUS
<1>5. ASSUME NEW k \in 1..i PROVE ins[k] <= to
  <2>1. k - 1 \in 0..n /\ k - 1 < i /\ k - 1 # n /\ k \in 1..n /\ k - 1 + 1 = k
    BY <1>1, <1>4
  <2>a. ~(i <= k - 1)
    BY <1>4, <2>1
  <2>2. k - 1 \notin S
    <3> HIDE DEF S
    <3> QED
      BY <1>3, <2>a
  <2>3. ~(to < ins[k - 1 + 1])
    BY <2>1, <2>2
  <2>4. ins[k] \in Nat /\ ~(to < ins[k])
    BY <1>2, <2>1, <2>3
  <2> QED
    BY <2>4
<1>6. \E m \in 0..Len(ins) : /\ \A k \in 1..m : ins[k] <= to
                             /\ m < Len(ins) => to < ins[m + 1]
  BY <1>1, <1>4, <1>5
<1>7. /\ Freed(ins, to) \in 0..Len(ins)
      /\ \A k \in 1..Freed(ins, to) : ins[k] <= to
      /\ Freed(ins, to) < Len(ins) => to < ins[Freed(ins, to) + 1]
  BY <1>6, Zenon DEF Freed
<1> QED
  BY <1>1, <1>7

\* The first of an ascending sequence is the least.
LEMMA FirstIsLeast ==
    ASSUME NEW w \in Seq(Nat), \A k \in 2..Len(w) : w[k - 1] < w[k]
    PROVE  \A k \in 1..Len(w) : w[1] <= w[k]
<1>1. PICK d \in Nat : d = Len(w)
  OBVIOUS
<1>2. \A k \in 1..d : w[k] \in Nat
  BY <1>1
<1>3. \A k \in 2..d : w[k - 1] < w[k]
  BY <1>1
<1> DEFINE low(k) == w[1] <= w[k]
           S == {j \in 0..d : j >= 1 /\ ~low(j)}
<1>4. SUFFICES ASSUME S # {} PROVE FALSE
  <2>1. ASSUME NEW k \in 1..d, S = {} PROVE low(k)
    <3> HIDE DEF low
    <3>1. k \in 0..d /\ k >= 1
      BY <1>1
    <3> QED
      BY <2>1, <3>1
  <2> QED
    BY <1>1, <2>1
<1>5. PICK j \in S : \A m \in S : j <= m
  <2>1. S \in SUBSET (0..d) /\ S # {}
    BY <1>4
  <2> HIDE DEF S
  <2> QED
    BY <1>1, <2>1, LeastExists
<1>6. j \in 1..d /\ ~low(j)
  <2> HIDE DEF low
  <2> QED
    BY <1>1
<1>7. \A m \in 1..d : m < j => low(m)
  <2> HIDE DEF low
  <2>1. ASSUME NEW m \in 1..d, m < j PROVE m \notin S
    <3>1. ~(j <= m)
      BY <1>6, <2>1
    <3> HIDE DEF S
    <3> QED
      BY <1>5, <3>1
  <2>2. \A m \in 1..d : m \in 0..d /\ m >= 1
    OBVIOUS
  <2> QED
    BY <2>1, <2>2
<1> HIDE DEF S
<1>8. CASE j = 1
  BY <1>2, <1>6, <1>8
<1>9. CASE j # 1
  <2>1. j \in 2..d /\ j - 1 \in 1..d /\ j - 1 < j /\ 1 \in 1..d
    BY <1>6, <1>9
  <2>2. low(j - 1)
    BY <1>7, <2>1
  <2>3. w[j - 1] < w[j]
    BY <1>3, <2>1
  <2>4. w[1] \in Nat /\ w[j - 1] \in Nat /\ w[j] \in Nat
    BY <1>2, <1>6, <2>1
  <2>5. PICK x \in Nat, y \in Nat, z \in Nat : x = w[1] /\ y = w[j - 1] /\ z = w[j]
    BY <2>4
  <2>6. x <= y /\ y < z /\ ~(x <= z)
    BY <1>6, <2>2, <2>3, <2>5
  <2> QED
    BY <2>6
<1> QED
  BY <1>8, <1>9

\* Indexes in order between two others, and what is left without the first i.
Ascending(w, low, high) ==
    /\ w \in Seq(Nat)
    /\ \A k \in DOMAIN w : low < w[k] /\ w[k] < high
    /\ \A k \in 2..Len(w) : w[k - 1] < w[k]

Rest(w, i) == SubSeq(w, i + 1, Len(w))

\* A window without its first entries is in order.
LEMMA RestInOrder ==
    ASSUME NEW low \in Nat, NEW high \in Nat, NEW ins, Ascending(ins, low, high),
           NEW i \in Nat, i <= Len(ins)
    PROVE  /\ Ascending(Rest(ins, i), low, high)
           /\ Len(Rest(ins, i)) = Len(ins) - i
           /\ \A k \in DOMAIN Rest(ins, i) : /\ Rest(ins, i)[1] <= Rest(ins, i)[k]
                                            /\ Rest(ins, i)[1] = ins[i + 1]
<1>1. PICK n \in Nat : n = Len(ins)
  BY DEF Ascending
<1>2. /\ DOMAIN ins = 1..n /\ i <= n /\ ins \in Seq(Nat)
      /\ \A k \in 1..n : ins[k] \in Nat /\ low < ins[k] /\ ins[k] < high
      /\ \A k \in 2..n : ins[k - 1] < ins[k]
  BY <1>1 DEF Ascending
<1>c. PICK w : w = Rest(ins, i)
  OBVIOUS
<1>a. PICK d \in Nat : d = n - i
  BY <1>2
<1>b. i + d = n
  BY <1>a
<1>3. /\ w \in Seq(Nat) /\ Len(w) = d /\ DOMAIN w = 1..d
      /\ \A k \in 1..d : w[k] = ins[i + k]
  <2>1. w = SubSeq(ins, i + 1, n)
    BY <1>1, <1>c DEF Rest
  <2> QED
    BY <1>1, <1>2, <1>a, <1>b, <2>1
<1>4. ASSUME NEW k \in 1..d
      PROVE  /\ i + k \in 1..n /\ w[k] = ins[i + k] /\ w[k] \in Nat
             /\ low < w[k] /\ w[k] < high
  <2>1. i + k \in 1..n
    BY <1>b
  <2> QED
    BY <1>2, <1>3, <2>1
<1>5. ASSUME NEW k \in 2..d PROVE w[k - 1] < w[k]
  <2>1. k \in 1..d /\ k - 1 \in 1..d
    BY <1>2
  <2>2. w[k] = ins[i + k] /\ w[k - 1] = ins[i + (k - 1)]
    BY <1>4, <2>1
  <2>3. i + k \in 2..n /\ i + (k - 1) = (i + k) - 1
    BY <1>b
  <2>4. ins[(i + k) - 1] < ins[i + k]
    BY <1>2, <2>3
  <2> QED
    BY <2>2, <2>3, <2>4
<1>6. \A k \in 1..d : w[1] <= w[k]
  <2>1. \A k \in 2..Len(w) : w[k - 1] < w[k]
    BY <1>3, <1>5
  <2> QED
    BY <1>3, <2>1, FirstIsLeast
<1>7. ASSUME NEW k \in 1..d PROVE w[1] = ins[i + 1]
  <2>1. 1 \in 1..d
    BY <1>2
  <2> QED
    BY <1>3, <2>1
<1> QED
  <2>1. Ascending(w, low, high)
    BY <1>3, <1>4, <1>5 DEF Ascending
  <2> QED
    BY <1>1, <1>a, <1>c, <1>3, <1>6, <1>7, <2>1

\* A progress with other indexes in its window.
LEMMA OtherWindow ==
    ASSUME NEW p, NEW a, NEW l, ProgressOK(p, a, l), NEW w \in Seq(Nat),
           NEW q, q = [p EXCEPT !.ins = w]
    PROVE  /\ ProgressOK(q, a, l)
           /\ q.matched = p.matched /\ q.next_idx = p.next_idx /\ q.state = p.state
           /\ q.ins = w
<1>1. p \in Progresses
  BY DEF ProgressOK
<1>2. /\ q \in Progresses
      /\ q.matched = p.matched /\ q.next_idx = p.next_idx /\ q.state = p.state
      /\ q.pending_snapshot = p.pending_snapshot /\ q.ins = w
  BY <1>1 DEF Progresses
<1> QED
  BY <1>2 DEF ProgressOK

\* free_to, whatever the window.
LEMMA FreeToType ==
    ASSUME NEW p, NEW a, NEW l, ProgressOK(p, a, l), NEW n \in Nat
    PROVE  ProgressOK(FreeTo(p, n), a, l)
<1>1. p \in Progresses
  BY DEF ProgressOK
<1>2. PICK ins : ins = p.ins
  OBVIOUS
<1>3. ins \in Seq(Nat)
  BY <1>1, <1>2 DEF Progresses
<1>4. PICK f : f = Freed(ins, n)
  OBVIOUS
<1>5. f \in Nat /\ f <= Len(ins)
  BY <1>3, <1>4, FreedIs
<1>6. PICK w : w = SubSeq(ins, f + 1, Len(ins))
  OBVIOUS
<1>7. w \in Seq(Nat)
  BY <1>3, <1>5, <1>6
<1>8. FreeTo(p, n) = [p EXCEPT !.ins = w]
  BY <1>2, <1>4, <1>6 DEF FreeTo
<1> QED
  BY <1>7, <1>8, OtherWindow

\* When more is matched, the window is freed of what is acknowledged: what is left is
\* past it.
LEMMA FreeToOK ==
    ASSUME NEW p, NEW a, NEW l, Len(l) \in Nat, ProgressOK(p, a, l), WindowOK(p),
           p.state = "Replicate", NEW n, Agree(n, a, l), n > p.matched
    PROVE  WindowOK(FreeTo(MaybeUpdate(p, n), n))
<1>1. p \in Progresses
  BY DEF ProgressOK
<1>2. PICK ins : ins = p.ins
  OBVIOUS
<1>3. PICK low \in Nat, high \in Nat : low = p.matched /\ high = p.next_idx
  BY <1>1 DEF Progresses
<1>4. /\ ins \in Seq(Nat) /\ Len(ins) <= Window
      /\ \A k \in DOMAIN ins : low < ins[k] /\ ins[k] < high
      /\ \A k \in 2..Len(ins) : ins[k - 1] < ins[k]
      /\ low < high /\ n \in Nat /\ low < n
  BY <1>1, <1>2, <1>3 DEF Progresses, WindowOK, Agree
<1>5. PICK q : q = MaybeUpdate(p, n)
  OBVIOUS
<1>6. /\ ProgressOK(q, a, l) /\ q.ins = ins
      /\ q.matched = Larger(low, n) /\ q.next_idx = Larger(high, n + 1)
  BY <1>2, <1>3, <1>5, MaybeUpdateOK
<1>7. PICK f : f = Freed(ins, n)
  OBVIOUS
<1>8. /\ f \in Nat /\ f <= Len(ins)
      /\ f < Len(ins) => n < ins[f + 1]
  BY <1>4, <1>7, FreedIs
<1>9. PICK w : w = Rest(ins, f)
  OBVIOUS
<1>10. /\ w \in Seq(Nat) /\ Len(w) = Len(ins) - f
       /\ \A k \in DOMAIN w : low < w[k] /\ w[k] < high
       /\ \A k \in 2..Len(w) : w[k - 1] < w[k]
       /\ \A k \in DOMAIN w : w[k] \in Nat /\ w[1] <= w[k] /\ w[1] = ins[f + 1]
  <2>1. Ascending(ins, low, high)
    BY <1>4 DEF Ascending
  <2>2. /\ Ascending(w, low, high)
        /\ Len(w) = Len(ins) - f
        /\ \A k \in DOMAIN w : w[1] <= w[k] /\ w[1] = ins[f + 1]
    BY <1>8, <1>9, <2>1, RestInOrder
  <2> QED
    BY <2>2 DEF Ascending
<1>11. PICK t : t = FreeTo(q, n)
  OBVIOUS
<1>12. t = [q EXCEPT !.ins = w]
  BY <1>6, <1>7, <1>9, <1>11 DEF FreeTo, Rest
<1>13. t.matched = q.matched /\ t.next_idx = q.next_idx /\ t.ins = w
  BY <1>6, <1>10, <1>12, OtherWindow
<1>14. t.matched = n /\ t.next_idx \in Nat /\ n < t.next_idx /\ high <= t.next_idx
  BY <1>4, <1>6, <1>13 DEF Larger
<1>15. ASSUME NEW k \in DOMAIN w PROVE n < w[k] /\ w[k] < t.next_idx
  <2>1. Len(ins) \in Nat /\ Len(w) \in Nat /\ Len(w) >= 1
    BY <1>4, <1>10
  <2>2. f < Len(ins)
    BY <1>8, <1>10, <2>1
  <2>3. /\ w[k] \in Nat /\ w[1] <= w[k] /\ n < w[1] /\ w[k] < high
        /\ w[1] \in Nat
    <3>1. 1 \in DOMAIN w
      BY <1>10, <2>1
    <3> QED
      BY <1>8, <1>10, <2>2, <3>1
  <2> QED
    BY <1>4, <1>14, <2>3
<1>16. Len(w) <= Window
  <2>1. Len(ins) \in Nat /\ Len(w) \in Nat
    BY <1>4, <1>10
  <2> QED
    BY <1>4, <1>8, <1>10, <2>1, PeerAssumption
<1>17. t.state = "Replicate"
  BY <1>5, <1>6, <1>10, <1>12, MaybeUpdateOK, OtherWindow
<1>18. WindowOK(t)
  BY <1>10, <1>13, <1>14, <1>15, <1>16, <1>17 DEF WindowOK
<1> QED
  BY <1>5, <1>11, <1>18

\* What is acknowledged again changes nothing in the window.
LEMMA AcknowledgedAgain ==
    ASSUME NEW p, NEW a, NEW l, Len(l) \in Nat, ProgressOK(p, a, l), WindowOK(p),
           NEW n, Agree(n, a, l), n <= p.matched
    PROVE  WindowOK(MaybeUpdate(p, n))
<1>1. p \in Progresses /\ n \in Nat
  BY DEF ProgressOK, Agree
<1>2. PICK q : q = MaybeUpdate(p, n)
  OBVIOUS
<1>3. /\ q.ins = p.ins /\ q.state = p.state
      /\ q.matched = Larger(p.matched, n) /\ q.next_idx = Larger(p.next_idx, n + 1)
  BY <1>2, MaybeUpdateOK
<1>4. p.matched \in Nat /\ p.next_idx \in Nat
  BY <1>1 DEF Progresses
<1>5. q.matched = p.matched /\ (p.matched < p.next_idx => q.next_idx = p.next_idx)
  BY <1>1, <1>3, <1>4 DEF Larger
<1>6. WindowOK(q)
  BY <1>3, <1>5 DEF WindowOK
<1> QED
  BY <1>2, <1>6

\* A heartbeat's answer frees the first of a full window.
HeartbeatProgress(p) ==
    [p EXCEPT !.recent_active = TRUE, !.paused = FALSE,
              !.ins = IF p.state = "Replicate" /\ Len(@) = Window THEN Tail(@) ELSE @]

\* It stays sound.
LEMMA HeartbeatProgressOK ==
    ASSUME NEW p, NEW a, NEW l, ProgressOK(p, a, l)
    PROVE  /\ ProgressOK(HeartbeatProgress(p), a, l)
           /\ WindowOK(p) => WindowOK(HeartbeatProgress(p))
<1>1. p \in Progresses /\ Window \in Nat /\ Window >= 1
  BY PeerAssumption DEF ProgressOK
<1>2. PICK ins : ins = p.ins
  OBVIOUS
<1>3. ins \in Seq(Nat)
  BY <1>1, <1>2 DEF Progresses
<1>4. PICK full \in BOOLEAN : full <=> (p.state = "Replicate" /\ Len(ins) = Window)
  OBVIOUS
<1>5. PICK w : w = IF full THEN Tail(ins) ELSE ins
  OBVIOUS
<1>6. full => Tail(ins) \in Seq(Nat) /\ Tail(ins) = Rest(ins, 1)
  BY <1>1, <1>3, <1>4 DEF Rest
<1>7. w \in Seq(Nat)
  BY <1>3, <1>5, <1>6
<1>8. PICK o : o = [p EXCEPT !.recent_active = TRUE, !.paused = FALSE]
  OBVIOUS
<1>9. /\ o \in Progresses /\ o.matched = p.matched /\ o.next_idx = p.next_idx
      /\ o.pending_snapshot = p.pending_snapshot /\ o.state = p.state
  BY <1>1, <1>8 DEF Progresses
<1>10. ProgressOK(o, a, l)
  BY <1>9 DEF ProgressOK
<1>11. PICK q : q = HeartbeatProgress(p)
  OBVIOUS
<1>12. q = [o EXCEPT !.ins = w]
  BY <1>1, <1>2, <1>4, <1>5, <1>8, <1>11 DEF HeartbeatProgress, Progresses
<1>13. /\ ProgressOK(q, a, l)
       /\ q.matched = p.matched /\ q.next_idx = p.next_idx /\ q.state = p.state
       /\ q.ins = w
  BY <1>7, <1>9, <1>10, <1>12, OtherWindow
<1>14. ASSUME WindowOK(p) PROVE WindowOK(q)
  <2>1. CASE ~full
    <3>1. q.ins = p.ins
      BY <1>2, <1>5, <1>13, <2>1
    <3> QED
      BY <1>13, <1>14, <3>1 DEF WindowOK
  <2>2. CASE full
    <3>1. PICK low \in Nat, high \in Nat : low = p.matched /\ high = p.next_idx
      BY <1>1 DEF Progresses
    <3>2. /\ p.state = "Replicate" /\ Len(ins) = Window /\ low < high
          /\ \A k \in DOMAIN ins : low < ins[k] /\ ins[k] < high
          /\ \A k \in 2..Len(ins) : ins[k - 1] < ins[k]
      BY <1>2, <1>4, <1>14, <2>2, <3>1 DEF WindowOK
    <3>3. 1 \in Nat /\ 1 <= Len(ins) /\ w = Rest(ins, 1)
      BY <1>1, <1>5, <1>6, <2>2, <3>2
    <3>4. /\ Len(w) = Len(ins) - 1
          /\ \A k \in DOMAIN w : low < w[k] /\ w[k] < high
          /\ \A k \in 2..Len(w) : w[k - 1] < w[k]
      <4>1. Ascending(ins, low, high)
        BY <1>3, <3>2 DEF Ascending
      <4>2. Ascending(w, low, high) /\ Len(w) = Len(ins) - 1
        BY <3>3, <4>1, RestInOrder
      <4> QED
        BY <4>2 DEF Ascending
    <3>5. Len(w) <= Window
      BY <1>1, <3>2, <3>4
    <3> QED
      BY <1>13, <3>1, <3>2, <3>4, <3>5 DEF WindowOK
  <2> QED
    BY <2>1, <2>2
<1> QED
  BY <1>11, <1>13, <1>14

-----------------------------------------------------------------------------
\* Steps

\* The defects whose repair the logs depend on.
LogDefects == {"find_conflict", "is_continuous", "restore"}

\* What every step leaves: the logs together, and the window and the assertions if
\* they were right before and update_state is mended.
StepOK ==
    /\ LogsOK'
    /\ "update_state" \in repaired /\ WindowOK(pr) /\ BothSurvive
          => WindowOK(pr)' /\ BothSurvive'

\* The log of a sound state, and its length.
LEMMA Facts ==
    ASSUME LogsOK
    PROVE  /\ log \in Seq(Nat \ {0}) /\ Len(log) \in Nat /\ Len(log) >= 1
           /\ peer.log \in Seq(Nat \ {0}) /\ Len(peer.log) \in Nat
           /\ committed \in Nat /\ committed <= Len(log)
           /\ compacted \in Nat /\ compacted <= committed
           /\ pr \in Progresses
           /\ peer.committed \in Nat /\ peer.request \in Nat
           /\ peer \in [log : Seq(Nat \ {0}), committed : Nat, request : Nat]
BY DEF LogsOK, LeaderOK, PeerOK, ProgressOK

\* Messages stay sound, wherever the network has them from.
LEMMA NetKept ==
    ASSUME NEW ms, NEW a, NEW l, NEW b, NEW k, NEW c \in Nat, NEW d \in Nat, c <= d,
           Len(l) \in Nat, Len(k) \in Nat, Len(l) <= Len(k),
           \A n : Agree(n, a, l) => Agree(n, b, k),
           NetOK(ms, a, l, c)
    PROVE  NetOK(ms, b, k, d)
BY MessageKept DEF NetOK

\* Appends that leave the leader.
LEMMA OutInNet ==
    ASSUME NEW o, NEW a, NEW l, NEW c, OutOK(o, l)
    PROVE  NetOK(InNet(o), a, l, c)
BY DEF OutOK, NetOK, InNet, MessageOK

\* Snapshots that leave it.
LEMMA SnapsInNet ==
    ASSUME NEW s, NEW a, NEW l, NEW c, WorkOK(s, a, l, c)
    PROVE  NetOK(s.snaps, a, l, c)
<1>1. s.snaps \in SUBSET [type : {"Snap"}, index : Nat]
  BY DEF WorkOK, Works
<1>2. ASSUME NEW m \in s.snaps PROVE MessageOK(m, a, l, c)
  <2>1. m.type = "Snap" /\ m.index \in Nat /\ m.index <= c
    BY <1>1 DEF WorkOK
  <2> QED
    BY <2>1 DEF MessageOK
<1> QED
  BY <1>2 DEF NetOK

\* A step of the leader that works on sound things, with a log that may have grown.
LEMMA LeaderStep ==
    ASSUME LogsOK, NEW s, NEW gone, Do(s, gone),
           log' \in Seq(Nat \ {0}), Len(log) <= Len(log'),
           committed' \in Nat, committed <= committed', committed' <= Len(log'),
           peer' = peer,
           Matching(peer.log, log'),
           \A n : Agree(n, peer.log, log) => Agree(n, peer.log, log'),
           WorkOK(s, peer.log, log', committed'),
           "update_state" \in repaired /\ WindowOK(pr) => InWindow(s)
    PROVE  StepOK
<1>1. /\ log \in Seq(Nat \ {0}) /\ Len(log) \in Nat /\ Len(log) >= 1
      /\ peer.log \in Seq(Nat \ {0}) /\ Len(peer.log) \in Nat
      /\ committed \in Nat /\ compacted \in Nat /\ compacted <= committed
  BY Facts
<1>2. PICK l, c, a : l = log' /\ c = committed' /\ a = peer.log
  OBVIOUS
<1>3. /\ l \in Seq(Nat \ {0}) /\ Len(l) \in Nat /\ Len(log) <= Len(l) /\ Len(l) >= 1
      /\ c \in Nat /\ committed <= c /\ c <= Len(l)
      /\ \A n : Agree(n, a, log) => Agree(n, a, l)
      /\ WorkOK(s, a, l, c)
  BY <1>1, <1>2
<1>4. LeaderOK'
  <2>1. repaired' = repaired /\ batch_append' = batch_append /\ compacted' = compacted
    BY DEF Do
  <2>2. repaired \in Repairs /\ batch_append \in BOOLEAN
    BY DEF LogsOK, LeaderOK
  <2>3. compacted <= c
    BY <1>1, <1>3
  <2> QED
    BY <1>1, <1>2, <1>3, <2>1, <2>2, <2>3 DEF LeaderOK
<1>5. PeerOK(peer, log)'
  <2>1. PeerOK(peer, log)
    BY DEF LogsOK
  <2>2. PeerOK(peer, l)
    BY <1>2, <1>3, <2>1 DEF PeerOK
  <2> QED
    BY <1>2, <2>2
<1>6. ProgressOK(pr, peer.log, log)' /\ pr' = s.pr
  BY <1>2, <1>3 DEF WorkOK, Do
<1>7. OutOK(s.out, l) /\ OutOK(out, log)'
  <2>1. OutOK(s.out, l)
    BY <1>3 DEF WorkOK
  <2>2. OutOK(<<>>, l)
    BY DEF OutOK
  <2>3. out' = s.out \/ out' = <<>>
    BY DEF Do
  <2> QED
    BY <1>2, <2>1, <2>2, <2>3
<1>8. NetOK(net, peer.log, log, committed)'
  <2>1. NetOK(net, a, log, committed)
    BY <1>2 DEF LogsOK
  <2>2. NetOK(net, a, l, c)
    BY <1>1, <1>3, <2>1, NetKept
  <2>3. NetOK(s.snaps, a, l, c) /\ NetOK(InNet(s.out), a, l, c)
    BY <1>3, <1>7, SnapsInNet, OutInNet
  <2>4. PICK ms : ms = s.snaps \cup (IF batch_append THEN {} ELSE InNet(s.out))
    OBVIOUS
  <2>5. NetOK(ms, a, l, c)
    BY <2>3, <2>4 DEF NetOK
  <2>6. net' = Carry(net \ gone, ms)
    BY <2>4 DEF Do
  <2>7. NetOK(Carry(net \ gone, ms), a, l, c)
    BY <2>2, <2>5, CarryOK
  <2> QED
    BY <1>2, <2>6, <2>7
<1>9. ASSUME "update_state" \in repaired, WindowOK(pr)
      PROVE  WindowOK(pr)' /\ BothSurvive'
  <2>1. InWindow(s) /\ panics' = s.failed
    BY <1>9 DEF Do
  <2> QED
    BY <1>6, <2>1 DEF InWindow, BothSurvive
<1>10. LogsOK'
  BY <1>4, <1>5, <1>6, <1>7, <1>8 DEF LogsOK
<1> QED
  BY <1>9, <1>10 DEF StepOK

\* What the leader begins to work on.
LEMMA WorkingOK ==
    ASSUME NEW p, NEW a, NEW l, NEW c, ProgressOK(p, a, l), OutOK(out, l)
    PROVE  /\ WorkOK(Working(p), a, l, c)
           /\ Working(p).pr = p /\ Working(p).failed = {}
           /\ WindowOK(p) => InWindow(Working(p))
<1>1. PICK s : s = Working(p)
  OBVIOUS
<1>2. p \in Progresses /\ out \in Seq(Appends)
  BY DEF ProgressOK, OutOK
<1>3. /\ s \in Works /\ s.pr = p /\ s.out = out /\ s.snaps = {} /\ s.failed = {}
  BY <1>1, <1>2 DEF Working, Works
<1>4. WorkOK(s, a, l, c)
  BY <1>3 DEF WorkOK
<1> QED
  BY <1>1, <1>3, <1>4 DEF InWindow

\* send_append of a sound progress.
LEMMA SendAppendOK ==
    ASSUME LogDefects \subseteq repaired,
           NEW s, NEW a, NEW l, NEW c \in Nat, Len(l) \in Nat, c <= Len(l), WorkOK(s, a, l, c)
    PROVE  /\ WorkOK(SendAppend(s, l, c), a, l, c)
           /\ "update_state" \in repaired /\ InWindow(s) => InWindow(SendAppend(s, l, c))
<1>1. "is_continuous" \in repaired /\ TRUE \in BOOLEAN
  BY DEF LogDefects
<1>2. PICK t : t = MaybeSendAppend(s, TRUE, l, c)
  OBVIOUS
<1>3. SendAppend(s, l, c) = t
  BY <1>2 DEF SendAppend
<1>4. WorkOK(t, a, l, c)
  BY <1>1, <1>2, MaybeSendAppendOK
<1>5. "update_state" \in repaired /\ InWindow(s) => InWindow(t)
  BY <1>1, <1>2, Round
<1> QED
  BY <1>3, <1>4, <1>5

\* A leader's log that did not change.
LEMMA SameLog ==
    ASSUME LogsOK
    PROVE  /\ Matching(peer.log, log)
           /\ \A n : Agree(n, peer.log, log) => Agree(n, peer.log, log)
           /\ ProgressOK(pr, peer.log, log) /\ OutOK(out, log)
BY DEF LogsOK, PeerOK

\* A peer becomes another and answers.
LEMMA PeerStep ==
    ASSUME LogsOK, NEW gone, NEW p, NEW answer, NEW failed, Answer(gone, p, answer, failed),
           PeerOK(p, log),
           \A n : Agree(n, peer.log, log) => Agree(n, p.log, log),
           MessageOK(answer, p.log, log, committed),
           failed = {}
    PROVE  StepOK
<1>1. /\ log \in Seq(Nat \ {0}) /\ Len(log) \in Nat
      /\ committed \in Nat
  BY Facts
<1>2. PICK a : a = p.log
  OBVIOUS
<1>3. /\ repaired' = repaired /\ batch_append' = batch_append /\ log' = log
      /\ committed' = committed /\ compacted' = compacted
      /\ pr' = pr /\ out' = out /\ peer' = p /\ panics' = failed
      /\ net' = Carry(net \ gone, {answer})
  BY DEF Answer, leaderVars
<1>4. LeaderOK'
  BY <1>3 DEF LogsOK, LeaderOK
<1>5. PeerOK(peer, log)'
  BY <1>3
<1>6. ProgressOK(pr, peer.log, log)'
  <2>1. ProgressOK(pr, peer.log, log)
    BY DEF LogsOK
  <2>2. ProgressOK(pr, p.log, log)
    BY <2>1 DEF ProgressOK
  <2> QED
    BY <1>3, <2>2
<1>7. OutOK(out, log)'
  BY <1>3 DEF LogsOK
<1>8. NetOK(net, peer.log, log, committed)'
  <2>1. PICK b : b = peer.log
    OBVIOUS
  <2>2. NetOK(net, b, log, committed) /\ \A n : Agree(n, b, log) => Agree(n, a, log)
    BY <1>2, <2>1 DEF LogsOK
  <2>3. committed <= committed /\ Len(log) <= Len(log)
    BY <1>1
  <2>4. NetOK(net, a, log, committed)
    BY <1>1, <2>2, <2>3, NetKept
  <2>5. NetOK({answer}, a, log, committed)
    BY <1>2 DEF NetOK
  <2>6. NetOK(Carry(net \ gone, {answer}), a, log, committed)
    BY <2>4, <2>5, CarryOK
  <2> QED
    BY <1>2, <1>3, <2>6
<1>9. WindowOK(pr) => WindowOK(pr)'
  BY <1>3
<1>10. BothSurvive'
  BY <1>3 DEF BothSurvive
<1>11. LogsOK'
  BY <1>4, <1>5, <1>6, <1>7, <1>8 DEF LogsOK
<1> QED
  BY <1>9, <1>10, <1>11 DEF StepOK

\* A step that leaves the logs and the assertions as they are.
LEMMA OtherStep ==
    ASSUME LogsOK, repaired' = repaired, batch_append' = batch_append,
           log' = log, committed' = committed,
           compacted' \in Nat, compacted' <= committed,
           PeerOK(peer', log), peer'.log = peer.log,
           ProgressOK(pr', peer.log, log), OutOK(out', log),
           NetOK(net', peer.log, log, committed),
           panics' = panics, WindowOK(pr) => WindowOK(pr')
    PROVE  StepOK
<1>1. LeaderOK'
  BY DEF LogsOK, LeaderOK
<1>2. PICK a : a = peer.log
  OBVIOUS
<1>3. /\ ProgressOK(pr', a, log') /\ peer'.log = a
      /\ NetOK(net', a, log', committed')
  BY <1>2
<1>4. ProgressOK(pr, peer.log, log)' /\ NetOK(net, peer.log, log, committed)'
  BY <1>3
<1>5. PeerOK(peer, log)' /\ OutOK(out, log)'
  OBVIOUS
<1>6. LogsOK'
  BY <1>1, <1>4, <1>5 DEF LogsOK
<1>7. (WindowOK(pr) => WindowOK(pr)') /\ (BothSurvive => BothSurvive')
  BY DEF BothSurvive
<1> QED
  BY <1>6, <1>7 DEF StepOK

\* What does not change of a sound state.
LEMMA Unchanged ==
    ASSUME LogsOK
    PROVE  /\ compacted \in Nat /\ compacted <= committed
           /\ PeerOK(peer, log) /\ ProgressOK(pr, peer.log, log) /\ OutOK(out, log)
           /\ NetOK(net, peer.log, log, committed)
BY DEF LogsOK, LeaderOK

\* ready: the appends go out.
LEMMA ReadyStep ==
    ASSUME LogsOK, Ready
    PROVE  StepOK
<1>1. /\ repaired' = repaired /\ batch_append' = batch_append
      /\ log' = log /\ committed' = committed /\ compacted' = compacted
      /\ pr' = pr /\ peer' = peer /\ panics' = panics
      /\ out' = <<>> /\ net' = Carry(net, InNet(out))
  BY DEF Ready, leaderVars
<1>2. OutOK(out', log)
  BY <1>1 DEF OutOK
<1>3. NetOK(net', peer.log, log, committed)
  <2>1. NetOK(InNet(out), peer.log, log, committed)
    BY Unchanged, OutInNet
  <2>2. NetOK(net, peer.log, log, committed)
    BY Unchanged
  <2> QED
    BY <1>1, <2>1, <2>2, CarryIsIn DEF NetOK
<1> QED
  BY <1>1, <1>2, <1>3, Unchanged, OtherStep

\* Compaction, up to what is committed.
LEMMA CompactStep ==
    ASSUME LogsOK, Compact
    PROVE  StepOK
<1>1. /\ repaired' = repaired /\ batch_append' = batch_append
      /\ log' = log /\ committed' = committed /\ compacted' = committed
      /\ pr' = pr /\ peer' = peer /\ panics' = panics /\ out' = out /\ net' = net
  BY DEF Compact
<1>2. compacted' \in Nat /\ compacted' <= committed
  BY <1>1, Facts
<1> QED
  BY <1>1, <1>2, Unchanged, OtherStep

\* bcast_heartbeat: what it says is committed is in the peer's log.
LEMMA BeatStep ==
    ASSUME LogsOK, Beat
    PROVE  StepOK
<1>1. PICK m : m = [type |-> "Heartbeat", commit |-> Smaller(pr.matched, committed)]
  OBVIOUS
<1>2. /\ repaired' = repaired /\ batch_append' = batch_append
      /\ log' = log /\ committed' = committed /\ compacted' = compacted
      /\ pr' = pr /\ peer' = peer /\ panics' = panics /\ out' = out
      /\ net' = Carry(net, {m})
  BY <1>1 DEF Beat, leaderVars
<1>3. MessageOK(m, peer.log, log, committed)
  <2>1. PICK n : n = pr.matched
    OBVIOUS
  <2>2. Agree(n, peer.log, log) /\ n \in Nat
    BY <2>1, Unchanged DEF ProgressOK, Agree
  <2>3. m.type = "Heartbeat" /\ m.commit = Smaller(n, committed)
    BY <1>1, <2>1
  <2>4. m.commit \in Nat /\ m.commit <= n
    BY <2>2, <2>3, Facts DEF Smaller
  <2>5. Agree(m.commit, peer.log, log)
    BY <2>2, <2>4, Facts, AgreeBelow
  <2> QED
    BY <2>3, <2>5 DEF MessageOK
<1>4. NetOK(net', peer.log, log, committed)
  <2>1. NetOK(net, peer.log, log, committed)
    BY Unchanged
  <2> QED
    BY <1>2, <1>3, <2>1, CarryIsIn DEF NetOK
<1> QED
  BY <1>2, <1>4, Unchanged, OtherStep

\* check_quorum_active
LEMMA CheckQuorumStep ==
    ASSUME LogsOK, CheckQuorum
    PROVE  StepOK
<1>1. PICK q : q = [pr EXCEPT !.recent_active = FALSE]
  OBVIOUS
<1>2. /\ repaired' = repaired /\ batch_append' = batch_append
      /\ log' = log /\ committed' = committed /\ compacted' = compacted
      /\ pr' = q /\ peer' = peer /\ panics' = panics /\ out' = out /\ net' = net
  BY <1>1 DEF CheckQuorum, leaderVars
<1>3. pr \in Progresses /\ ProgressOK(pr, peer.log, log)
  BY Facts, Unchanged
<1>4. /\ q \in Progresses /\ q.matched = pr.matched /\ q.next_idx = pr.next_idx
      /\ q.pending_snapshot = pr.pending_snapshot /\ q.state = pr.state /\ q.ins = pr.ins
  BY <1>1, <1>3 DEF Progresses
<1>5. ProgressOK(q, peer.log, log) /\ (WindowOK(pr) => WindowOK(q))
  BY <1>3, <1>4 DEF ProgressOK, WindowOK
<1> QED
  BY <1>2, <1>5, Unchanged, OtherStep

\* handle_snapshot_status
LEMMA SnapshotStatusStep ==
    ASSUME LogsOK, NEW reject \in BOOLEAN, HandleSnapshotStatus(reject)
    PROVE  StepOK
<1>1. PICK p : p = IF reject THEN [pr EXCEPT !.pending_snapshot = 0] ELSE pr
  OBVIOUS
<1>2. PICK b : b = BecomeProbe(p)
  OBVIOUS
<1>3. PICK q : q = [b EXCEPT !.paused = TRUE, !.request = 0]
  OBVIOUS
<1>4. /\ repaired' = repaired /\ batch_append' = batch_append
      /\ log' = log /\ committed' = committed /\ compacted' = compacted
      /\ pr' = q /\ peer' = peer /\ panics' = panics /\ out' = out /\ net' = net
  BY <1>1, <1>2, <1>3 DEF HandleSnapshotStatus, leaderVars
<1>5. pr \in Progresses /\ ProgressOK(pr, peer.log, log)
      /\ Len(log) \in Nat /\ Len(peer.log) \in Nat
  BY Facts, Unchanged
<1>6. ProgressOK(p, peer.log, log)
  <2>1. CASE reject
    <3>1. /\ p \in Progresses /\ p.matched = pr.matched /\ p.next_idx = pr.next_idx
          /\ p.pending_snapshot = 0
      BY <1>1, <1>5, <2>1 DEF Progresses
    <3> QED
      BY <1>5, <3>1 DEF ProgressOK
  <2>2. CASE ~reject
    BY <1>1, <1>5, <2>2
  <2> QED
    BY <2>1, <2>2
<1>7. ProgressOK(b, peer.log, log) /\ WindowOK(b) /\ b \in Progresses
  BY <1>2, <1>5, <1>6, BecomeProbeOK DEF ProgressOK
<1>8. /\ q \in Progresses /\ q.matched = b.matched /\ q.next_idx = b.next_idx
      /\ q.pending_snapshot = b.pending_snapshot /\ q.state = b.state /\ q.ins = b.ins
  BY <1>3, <1>7 DEF Progresses
<1>9. ProgressOK(q, peer.log, log) /\ WindowOK(q)
  BY <1>7, <1>8 DEF ProgressOK, WindowOK
<1> QED
  BY <1>4, <1>9, Unchanged, OtherStep

\* handle_unreachable
LEMMA UnreachableStep ==
    ASSUME LogsOK, HandleUnreachable
    PROVE  StepOK
<1>1. PICK q : q = BecomeProbe(pr)
  OBVIOUS
<1>2. /\ repaired' = repaired /\ batch_append' = batch_append
      /\ log' = log /\ committed' = committed /\ compacted' = compacted
      /\ pr' = q /\ peer' = peer /\ panics' = panics /\ out' = out /\ net' = net
  BY <1>1 DEF HandleUnreachable, leaderVars
<1>3. ProgressOK(q, peer.log, log) /\ WindowOK(q)
  BY <1>1, Facts, Unchanged, BecomeProbeOK
<1> QED
  BY <1>2, <1>3, Unchanged, OtherStep

\* A message is lost.
LEMMA LoseStep ==
    ASSUME LogsOK, NEW m, Lose(m)
    PROVE  StepOK
<1>1. /\ repaired' = repaired /\ batch_append' = batch_append
      /\ log' = log /\ committed' = committed /\ compacted' = compacted
      /\ pr' = pr /\ peer' = peer /\ panics' = panics /\ out' = out /\ net' = net \ {m}
  BY DEF Lose, leaderVars
<1>2. NetOK(net', peer.log, log, committed)
  BY <1>1, Unchanged DEF NetOK
<1> QED
  BY <1>1, <1>2, Unchanged, OtherStep

\* What a peer says of a snapshot it asks for.
LEMMA RequestAnswerOK ==
    ASSUME NEW p, NEW l, PeerOK(p, l), NEW a, NEW c
    PROVE  MessageOK(RequestAnswer(p), a, l, c)
<1>1. p.committed \in Nat /\ p.request \in Nat /\ Len(p.log) \in Nat
  BY DEF PeerOK
<1>2. PICK m : m = RequestAnswer(p)
  OBVIOUS
<1>3. /\ m.type = "AppResp" /\ m.reject
      /\ m.index = p.committed /\ m.hint = Len(p.log) /\ m.log_term = 0 /\ m.request = p.request
  BY <1>2 DEF RequestAnswer
<1>4. {m.index, m.hint, m.log_term, m.request} \subseteq Nat /\ m.reject \in BOOLEAN
  BY <1>1, <1>2, <1>3 DEF RequestAnswer
<1> QED
  BY <1>2, <1>3, <1>4 DEF MessageOK

\* An acknowledgement of what the peer has.
LEMMA AcknowledgeOK ==
    ASSUME NEW i, NEW a, NEW l, NEW c, Agree(i, a, l)
    PROVE  MessageOK(Acknowledge(i), a, l, c)
<1>1. PICK m : m = Acknowledge(i)
  OBVIOUS
<1>2. /\ m.type = "AppResp" /\ m.reject = FALSE
      /\ m.index = i /\ m.hint = 0 /\ m.log_term = 0 /\ m.request = 0
  BY <1>1 DEF Acknowledge
<1>3. i \in Nat
  BY DEF Agree
<1>4. {m.index, m.hint, m.log_term, m.request} \subseteq Nat /\ m.reject \in BOOLEAN
  <2>1. m.index \in Nat /\ m.hint \in Nat /\ m.log_term \in Nat /\ m.request \in Nat
    BY <1>2, <1>3
  <2> QED
    BY <1>2, <2>1, Zenon
<1>5. MessageOK(m, a, l, c)
  <2>1. ~m.reject => Agree(m.index, a, l)
    BY <1>2
  <2> QED
    BY <1>2, <1>4, <2>1, Zenon DEF MessageOK
<1> QED
  BY <1>1, <1>5

\* request_snapshot: the peer asks with the log it has.
LEMMA RequestSnapshotStep ==
    ASSUME LogsOK, RequestSnapshot
    PROVE  StepOK
<1>1. PICK p : p = [peer EXCEPT !.request = Len(peer.log)]
  OBVIOUS
<1>2. /\ repaired' = repaired /\ batch_append' = batch_append
      /\ log' = log /\ committed' = committed /\ compacted' = compacted
      /\ pr' = pr /\ peer' = p /\ panics' = panics /\ out' = out
      /\ net' = Carry(net, {RequestAnswer(p)})
  BY <1>1 DEF RequestSnapshot, leaderVars
<1>3. /\ p \in [log : Seq(Nat \ {0}), committed : Nat, request : Nat]
      /\ p.log = peer.log /\ p.committed = peer.committed /\ p.request = Len(peer.log)
  BY <1>1, Facts
<1>4. PeerOK(p, log)
  <2>1. PeerOK(peer, log)
    BY Unchanged
  <2> QED
    BY <1>3, <2>1 DEF PeerOK
<1>5. NetOK(net', peer.log, log, committed)
  <2>1. MessageOK(RequestAnswer(p), peer.log, log, committed)
    BY <1>4, RequestAnswerOK
  <2>2. NetOK(net, peer.log, log, committed)
    BY Unchanged
  <2> QED
    BY <1>2, <2>1, <2>2, CarryIsIn DEF NetOK
<1> QED
  BY <1>2, <1>3, <1>4, <1>5, Unchanged, OtherStep

\* A log that is the leader's up to an index matches it.
LEMMA PrefixMatches ==
    ASSUME NEW l \in Seq(Nat \ {0}), NEW a \in Seq(Nat \ {0}), Len(a) <= Len(l),
           \A i \in 1..Len(a) : a[i] = l[i]
    PROVE  /\ Matching(a, l)
           /\ \A n \in Nat : n <= Len(a) => Agree(n, a, l)
<1>1. PICK d \in Nat, e \in Nat : d = Len(a) /\ e = Len(l)
  OBVIOUS
<1>2. ASSUME NEW n \in Nat, n <= d PROVE Agree(n, a, l)
  <2>1. n <= Len(a) /\ n <= Len(l)
    BY <1>1, <1>2
  <2>2. \A i \in 1..n : a[i] = l[i]
    BY <1>1, <1>2
  <2> QED
    BY <2>1, <2>2 DEF Agree
<1>3. \A i \in 1..d : i \in Nat /\ i <= d /\ ~(i > e)
  BY <1>1
<1>4. Matching(a, l)
  BY <1>1, <1>2, <1>3 DEF Matching
<1> QED
  BY <1>1, <1>2, <1>4

\* find_conflict: the first entry that the peer has not.
LEMMA FindConflictIs ==
    ASSUME "find_conflict" \in repaired, NEW es \in Seq(Nat), NEW index \in Nat,
           \A k \in DOMAIN es : es[k] = index + k
    PROVE  \/ /\ FindConflict(es) = 0
              /\ \A k \in DOMAIN es : TermOf(peer.log, index + k) = log[index + k]
           \/ \E k \in DOMAIN es :
                 /\ FindConflict(es) = index + k
                 /\ TermOf(peer.log, index + k) # log[index + k]
                 /\ \A j \in DOMAIN es : j < k => TermOf(peer.log, index + j) = log[index + j]
<1> DEFINE bad == {k \in DOMAIN es : TermOf(peer.log, es[k]) # log[es[k]]}
<1>1. PICK d \in Nat : d = Len(es) /\ DOMAIN es = 1..d
  OBVIOUS
<1>2. \A k \in DOMAIN es : k \in bad <=> TermOf(peer.log, index + k) # log[index + k]
  OBVIOUS
<1>3. bad \in SUBSET (0..d) /\ bad \subseteq DOMAIN es
  BY <1>1
<1>4. FindConflict(es) = IF bad = {} THEN 0 ELSE es[CHOOSE k \in bad : \A j \in bad : k <= j]
  BY DEF FindConflict
<1> HIDE DEF bad
<1>5. CASE bad = {}
  BY <1>2, <1>4, <1>5
<1>6. CASE bad # {}
  <2>1. \E k \in bad : \A j \in bad : k <= j
    BY <1>1, <1>3, <1>6, LeastExists
  <2>2. PICK k : k = CHOOSE i \in bad : \A j \in bad : i <= j
    OBVIOUS
  <2>3. k \in bad /\ \A j \in bad : k <= j
    BY <2>1, <2>2, Zenon
  <2>4. FindConflict(es) = es[k] /\ k \in DOMAIN es /\ es[k] = index + k
    BY <1>3, <1>4, <1>6, <2>2, <2>3
  <2>5. ASSUME NEW j \in DOMAIN es, j < k
        PROVE  TermOf(peer.log, index + j) = log[index + j]
    <3>1. j \in 1..d /\ k \in 1..d
      BY <1>1, <2>4, <2>5
    <3>2. ~(k <= j)
      BY <2>5, <3>1
    <3>3. j \notin bad
      BY <2>3, <3>2
    <3> QED
      BY <1>2, <3>3
  <2> QED
    BY <1>2, <2>3, <2>4, <2>5
<1> QED
  BY <1>5, <1>6

\* An entry of the leader's that the peer has not ends what they agree on.
LEMMA ConflictEndsAgreement ==
    ASSUME LogsOK, NEW k \in Nat, k >= 1, k <= Len(log), TermOf(peer.log, k) # log[k],
           NEW n, Agree(n, peer.log, log)
    PROVE  n < k
<1>1. /\ log \in Seq(Nat \ {0}) /\ Len(log) \in Nat
      /\ peer.log \in Seq(Nat \ {0}) /\ Len(peer.log) \in Nat
  BY Facts
<1>2. n \in Nat /\ n <= Len(peer.log) /\ \A i \in 1..n : peer.log[i] = log[i]
  BY DEF Agree
<1>3. SUFFICES ASSUME k <= n PROVE FALSE
  BY <1>2
<1>4. k \in 1..n /\ k <= Len(peer.log)
  BY <1>1, <1>2, <1>3
<1>5. TermOf(peer.log, k) = peer.log[k]
  BY <1>1, <1>4, TermOfIs
<1> QED
  BY <1>2, <1>4, <1>5

\* Entries of the leader's that the peer has.
LEMMA TermsAgree ==
    ASSUME LogsOK, NEW index, Agree(index, peer.log, log), NEW n \in Nat,
           index + n <= Len(log),
           \A k \in 1..n : TermOf(peer.log, index + k) = log[index + k]
    PROVE  Agree(index + n, peer.log, log)
<1>1. /\ log \in Seq(Nat \ {0}) /\ Len(log) \in Nat
      /\ peer.log \in Seq(Nat \ {0}) /\ Len(peer.log) \in Nat
  BY Facts
<1>2. index \in Nat /\ index <= Len(peer.log) /\ \A i \in 1..index : peer.log[i] = log[i]
  BY DEF Agree
<1>3. ASSUME NEW k \in 1..n
      PROVE  index + k <= Len(peer.log) /\ peer.log[index + k] = log[index + k]
  <2>1. PICK i \in Nat : i = index + k /\ i >= 1 /\ i <= Len(log)
    BY <1>1, <1>2
  <2>2. log[i] # 0
    BY <1>1, <2>1
  <2>3. TermOf(peer.log, i) = log[i]
    BY <2>1
  <2>4. i <= Len(peer.log) /\ TermOf(peer.log, i) = peer.log[i]
    <3>1. /\ i >= 1 /\ i <= Len(peer.log) => TermOf(peer.log, i) = peer.log[i]
          /\ i = 0 \/ i > Len(peer.log) => TermOf(peer.log, i) = 0
      BY <1>1, TermOfIs
    <3> QED
      BY <1>1, <2>1, <2>2, <2>3, <3>1
  <2> QED
    BY <2>1, <2>3, <2>4
<1>4. index + n <= Len(peer.log)
  <2>1. CASE n = 0
    BY <1>1, <1>2, <2>1
  <2>2. CASE n # 0
    <3>1. n \in 1..n
      BY <2>2
    <3> QED
      BY <1>3, <3>1
  <2> QED
    BY <2>1, <2>2
<1>5. ASSUME NEW i \in 1..(index + n) PROVE peer.log[i] = log[i]
  <2>1. CASE i <= index
    BY <1>2, <2>1
  <2>2. CASE ~(i <= index)
    <3>1. PICK k \in 1..n : i = index + k
      <4>1. i - index \in 1..n /\ i = index + (i - index)
        BY <1>2, <2>2
      <4> QED
        BY <4>1
    <3> QED
      BY <1>3, <3>1
  <2> QED
    BY <2>1, <2>2
<1> QED
  BY <1>2, <1>4, <1>5 DEF Agree

-----------------------------------------------------------------------------
\* The peer's handlers

\* What a sound message is, by its type.
LEMMA MessageIs ==
    ASSUME LogsOK, NEW m \in net
    PROVE  /\ m.type = "App" => AppendOK(m, log)
           /\ m.type = "Snap" => m.index \in Nat /\ m.index <= committed
           /\ m.type = "Heartbeat" => Agree(m.commit, peer.log, log)
           /\ m.type = "AppResp" =>
                 /\ {m.index, m.hint, m.log_term, m.request} \subseteq Nat
                 /\ ~m.reject => Agree(m.index, peer.log, log)
<1>1. MessageOK(m, peer.log, log, committed)
  BY DEF LogsOK, NetOK
<1>2. AppendOK(m, log) => m.type = "App"
  BY DEF AppendOK, Appends
<1>3. PICK t : t = m.type
  OBVIOUS
<1>4. CASE AppendOK(m, log)
  BY <1>2, <1>4
<1>5. CASE ~AppendOK(m, log)
  BY <1>1, <1>5, Zenon DEF MessageOK
<1> QED
  BY <1>4, <1>5

\* The peer with another commit index.
LEMMA CommitStepOK ==
    ASSUME LogsOK, NEW c, Agree(c, peer.log, log), NEW p, p = [peer EXCEPT !.committed = c]
    PROVE  PeerOK(p, log) /\ p.log = peer.log /\ p.request = peer.request
<1>1. PeerOK(peer, log) /\ c \in Nat
  BY DEF LogsOK, Agree
<1>2. peer \in [log : Seq(Nat \ {0}), committed : Nat, request : Nat]
  BY <1>1 DEF PeerOK
<1>3. /\ p \in [log : Seq(Nat \ {0}), committed : Nat, request : Nat]
      /\ p.log = peer.log /\ p.request = peer.request /\ p.committed = c
  BY <1>1, <1>2
<1> QED
  BY <1>1, <1>3 DEF PeerOK

\* The larger of two numbers of entries that agree.
LEMMA AgreeLarger ==
    ASSUME NEW a, NEW l, NEW n, NEW k, Agree(n, a, l), Agree(k, a, l)
    PROVE  Agree(Larger(n, k), a, l)
BY DEF Larger

\* What the peer's log a becomes by an append of entries of log l up to last, of which
\* conflict is the first that it has not.
TakenLog(a, l, conflict, last) ==
    IF conflict = 0 THEN a ELSE SubSeq(a, 1, conflict - 1) \o SubSeq(l, conflict, last)

\* Two logs one after the other.
LEMMA ConcatIs ==
    ASSUME NEW s \in Seq(Nat \ {0}), NEW t \in Seq(Nat \ {0})
    PROVE  /\ s \o t \in Seq(Nat \ {0}) /\ Len(s \o t) = Len(s) + Len(t)
           /\ \A i \in 1..Len(s) : (s \o t)[i] = s[i]
           /\ \A i \in 1..Len(t) : (s \o t)[Len(s) + i] = t[i]
OBVIOUS

\* A sequence from its entry after h on.
LEMMA FromIs ==
    ASSUME NEW S, NEW l \in Seq(S), NEW h \in Nat, NEW n \in Nat, h + n <= Len(l)
    PROVE  /\ SubSeq(l, h + 1, h + n) \in Seq(S) /\ Len(SubSeq(l, h + 1, h + n)) = n
           /\ \A i \in 1..n : SubSeq(l, h + 1, h + n)[i] = l[h + i]
<1>1. PICK e \in Nat : e = Len(l)
  OBVIOUS
<1>2. ASSUME NEW i \in 1..n PROVE h + i >= 1 /\ h + i <= e /\ h + 1 + i - 1 = h + i
  BY <1>1
<1>3. /\ SubSeq(l, h + 1, h + n) \in Seq(S)
      /\ Len(SubSeq(l, h + 1, h + n)) = n
  BY <1>1
<1>4. ASSUME NEW i \in 1..n PROVE SubSeq(l, h + 1, h + n)[i] = l[h + i]
  BY <1>1, <1>2
<1> QED
  BY <1>3, <1>4

\* It is the first entries of l, when what is kept of a agrees with l.
LEMMA TakenLogIs ==
    ASSUME NEW a \in Seq(Nat \ {0}), NEW l \in Seq(Nat \ {0}), NEW h \in Nat, Agree(h, a, l),
           NEW last \in Nat, h < last, last <= Len(l)
    PROVE  /\ TakenLog(a, l, h + 1, last) \in Seq(Nat \ {0})
           /\ Len(TakenLog(a, l, h + 1, last)) = last
           /\ \A i \in 1..last : TakenLog(a, l, h + 1, last)[i] = l[i]
<1>1. h <= Len(a) /\ \A i \in 1..h : a[i] = l[i]
  BY DEF Agree
<1>2. PICK n \in Nat : n = last - h /\ n >= 1
  OBVIOUS
<1>c. PICK e \in Nat : e = Len(l) /\ last <= e
  OBVIOUS
<1>d. PICK new : new = TakenLog(a, l, h + 1, last)
  OBVIOUS
<1>3. PICK s, t : s = SubSeq(a, 1, h) /\ t = SubSeq(l, h + 1, last) /\ new = s \o t
  <2>1. h + 1 # 0 /\ h + 1 - 1 = h
    OBVIOUS
  <2>2. TakenLog(a, l, h + 1, last) = SubSeq(a, 1, h) \o SubSeq(l, h + 1, last)
    BY <2>1 DEF TakenLog
  <2> QED
    BY <1>d, <2>2
<1>4. /\ s \in Seq(Nat \ {0}) /\ Len(s) = h
      /\ \A i \in 1..h : s[i] = l[i]
  <2>1. s = SubSeq(a, 1, h) /\ h <= Len(a)
    BY <1>1, <1>3
  <2>2. s \in Seq(Nat \ {0}) /\ Len(s) = h /\ \A i \in 1..h : s[i] = a[i]
    BY <2>1
  <2> QED
    BY <1>1, <2>2
<1>5. /\ t \in Seq(Nat \ {0}) /\ Len(t) = n
      /\ \A i \in 1..n : t[i] = l[h + i]
  <2>1. h + n = last
    BY <1>2
  <2>2. h + n <= Len(l) /\ t = SubSeq(l, h + 1, h + n)
    BY <1>3, <2>1
  <2> QED
    BY <2>2, FromIs
<1>6. /\ new \in Seq(Nat \ {0}) /\ Len(new) = h + n
      /\ \A i \in 1..h : new[i] = s[i]
      /\ \A i \in 1..n : new[h + i] = t[i]
  <2>1. new = s \o t
    BY <1>3
  <2>2. /\ s \in Seq(Nat \ {0}) /\ Len(s) = h
        /\ t \in Seq(Nat \ {0}) /\ Len(t) = n
    BY <1>4, <1>5
  <2>3. /\ s \o t \in Seq(Nat \ {0}) /\ Len(s \o t) = Len(s) + Len(t)
        /\ \A i \in 1..Len(s) : (s \o t)[i] = s[i]
        /\ \A i \in 1..Len(t) : (s \o t)[Len(s) + i] = t[i]
    BY <2>2, ConcatIs, Zenon
  <2> HIDE <1>3
  <2> QED
    BY <2>1, <2>2, <2>3, Zenon
<1>7. ASSUME NEW i \in 1..last PROVE new[i] = l[i]
  <2>1. CASE i <= h
    <3>1. i \in 1..h
      BY <2>1
    <3> QED
      BY <1>4, <1>6, <3>1
  <2>2. CASE ~(i <= h)
    <3>1. PICK j \in 1..n : i = h + j
      <4>1. i - h \in 1..n /\ i = h + (i - h)
        BY <1>2, <2>2
      <4> QED
        BY <4>1
    <3> QED
      BY <1>5, <1>6, <3>1
  <2> QED
    BY <2>1, <2>2
<1>8. Len(new) = last
  BY <1>2, <1>6
<1> QED
  BY <1>d, <1>6, <1>7, <1>8

\* What handle_append_entries makes of an append whose index matches.
Taken(m) == TakenLog(peer.log, log, FindConflict(m.ents), m.index + Len(m.ents))

TakenCommit(m) == Larger(peer.committed, Smaller(m.commit, m.index + Len(m.ents)))

TakenChecks(m) ==
    Check("maybe_append", FindConflict(m.ents) = 0 \/ FindConflict(m.ents) > peer.committed)
    \cup Check("commit_to", TakenCommit(m) <= Len(Taken(m)))

\* An append whose index matches: the entries the peer has not are cut off and
\* appended, nothing that agrees is lost, and no assertion fails.
LEMMA AppendTaken ==
    ASSUME LogsOK, "find_conflict" \in repaired, peer.request = 0,
           NEW m, AppendOK(m, log), MatchTerm(m.index),
           NEW p, p = [peer EXCEPT !.log = Taken(m), !.committed = TakenCommit(m)]
    PROVE  /\ PeerOK(p, log)
           /\ Agree(m.index + Len(m.ents), p.log, log)
           /\ \A n : Agree(n, peer.log, log) => Agree(n, p.log, log)
           /\ TakenChecks(m) = {}
<1>0. \/ /\ FindConflict(m.ents) = 0
         /\ \A k \in DOMAIN m.ents : TermOf(peer.log, m.index + k) = log[m.index + k]
      \/ \E k \in DOMAIN m.ents :
            /\ FindConflict(m.ents) = m.index + k
            /\ TermOf(peer.log, m.index + k) # log[m.index + k]
            /\ \A j \in DOMAIN m.ents : j < k => TermOf(peer.log, m.index + j) = log[m.index + j]
  <2>1. /\ m.ents \in Seq(Nat) /\ m.index \in Nat
        /\ \A k \in DOMAIN m.ents : m.ents[k] = m.index + k
    BY DEF AppendOK, Appends
  <2> QED
    BY <2>1, FindConflictIs, Zenon
<1> PICK conflict, last, new, c :
       /\ conflict = FindConflict(m.ents)
       /\ last = m.index + Len(m.ents)
       /\ new = TakenLog(peer.log, log, conflict, last)
       /\ c = Larger(peer.committed, Smaller(m.commit, last))
       /\ p = [peer EXCEPT !.log = new, !.committed = c]
  BY DEF Taken, TakenCommit
<1>e. SUFFICES /\ PeerOK(p, log)
               /\ Agree(last, p.log, log)
               /\ \A n : Agree(n, peer.log, log) => Agree(n, p.log, log)
               /\ conflict = 0 \/ conflict > peer.committed
               /\ c <= Len(new)
  BY DEF TakenChecks, Check, Taken, TakenCommit
<1>1. /\ log \in Seq(Nat \ {0}) /\ Len(log) \in Nat
      /\ peer.log \in Seq(Nat \ {0}) /\ Len(peer.log) \in Nat
      /\ peer \in [log : Seq(Nat \ {0}), committed : Nat, request : Nat]
      /\ peer.committed \in Nat
  BY Facts
<1>2. PICK index, es : index = m.index /\ es = m.ents
  OBVIOUS
<1>3. /\ index \in Nat /\ es \in Seq(Nat) /\ Len(es) \in Nat /\ m.commit \in Nat
      /\ DOMAIN es = 1..Len(es)
      /\ \A k \in DOMAIN es : es[k] = index + k
      /\ last = index + Len(es) /\ last \in Nat /\ last <= Len(log)
      /\ conflict = FindConflict(es)
  BY <1>2 DEF AppendOK, Appends
<1>4. PICK d \in Nat : d = Len(es)
  BY <1>3
<1>5. Agree(index, peer.log, log)
  <2>1. index <= Len(log)
    BY <1>1, <1>3
  <2> QED
    BY <1>2, <1>3, <2>1, MatchTermMeans DEF LogsOK
<1>6. Agree(peer.committed, peer.log, log) /\ Matching(peer.log, log)
      /\ (peer.request # 0 => peer.request = Len(peer.log))
  BY DEF LogsOK, PeerOK
<1>a. Smaller(m.commit, last) \in Nat /\ Smaller(m.commit, last) <= last
  BY <1>3 DEF Smaller
<1>7. CASE /\ conflict = 0
           /\ \A k \in DOMAIN es : TermOf(peer.log, index + k) = log[index + k]
  <2>1. Agree(last, peer.log, log)
    <3>1. /\ \A k \in 1..d : TermOf(peer.log, index + k) = log[index + k]
          /\ last = index + d
      BY <1>3, <1>4, <1>7
    <3>2. index + d <= Len(log)
      BY <1>3, <3>1
    <3>3. Agree(index + d, peer.log, log)
      BY <1>5, <3>1, <3>2, TermsAgree
    <3> QED
      BY <3>1, <3>3
  <2>2. Agree(Smaller(m.commit, last), peer.log, log)
    BY <1>1, <1>a, <2>1, AgreeBelow
  <2>3. Agree(c, peer.log, log)
    BY <1>6, <2>2, AgreeLarger
  <2>4. new = peer.log
    BY <1>7 DEF TakenLog
  <2>5. p = [peer EXCEPT !.committed = c]
    BY <1>1, <2>4
  <2>6. PeerOK(p, log) /\ p.log = peer.log
    BY <2>3, <2>5, CommitStepOK
  <2>7. c <= Len(new)
    BY <2>3, <2>4 DEF Agree
  <2> QED
    BY <1>7, <2>1, <2>6, <2>7
<1>8. CASE \E k \in DOMAIN es :
              /\ conflict = index + k
              /\ TermOf(peer.log, index + k) # log[index + k]
              /\ \A j \in DOMAIN es : j < k => TermOf(peer.log, index + j) = log[index + j]
  <2>1. PICK k \in 1..d :
              /\ conflict = index + k
              /\ TermOf(peer.log, index + k) # log[index + k]
              /\ \A j \in 1..d : j < k => TermOf(peer.log, index + j) = log[index + j]
    BY <1>3, <1>4, <1>8
  <2>2. /\ conflict \in Nat /\ conflict >= 1 /\ conflict <= last
        /\ k \in Nat /\ k >= 1 /\ k - 1 \in Nat
        /\ conflict - 1 = index + (k - 1)
        /\ conflict <= Len(log) /\ last = index + d
    <3>1. conflict = index + k
      BY <2>1
    <3>2. index \in Nat /\ last = index + d /\ last <= Len(log)
      BY <1>3, <1>4
    <3>3. Len(log) \in Nat
      BY <1>1
    <3> HIDE <2>1
    <3> QED
      BY <3>1, <3>2, <3>3
  <2>3. Agree(conflict - 1, peer.log, log)
    <3>1. PICK h \in Nat : h = k - 1
      BY <2>2
    <3>2. \A j \in 1..h : TermOf(peer.log, index + j) = log[index + j]
      <4>1. \A j \in 1..h : j \in 1..d /\ j < k
        BY <2>1, <3>1
      <4> QED
        BY <2>1, <4>1
    <3>3. index + h <= Len(log)
      BY <1>1, <1>3, <2>2, <3>1
    <3>4. Agree(index + h, peer.log, log)
      BY <1>5, <3>2, <3>3, TermsAgree
    <3> QED
      BY <2>2, <3>1, <3>4
  <2>4. \A n : Agree(n, peer.log, log) => n < conflict
    BY <2>1, <2>2, ConflictEndsAgreement
  <2>5. PICK h \in Nat : h = conflict - 1 /\ conflict = h + 1
    BY <2>2
  <2>10. /\ new \in Seq(Nat \ {0}) /\ Len(new) = last
         /\ \A i \in 1..last : new[i] = log[i]
    <3>1. Agree(h, peer.log, log) /\ h < last /\ new = TakenLog(peer.log, log, h + 1, last)
      BY <1>3, <2>2, <2>3, <2>5
    <3>2. peer.log \in Seq(Nat \ {0}) /\ log \in Seq(Nat \ {0})
      BY <1>1
    <3>3. last \in Nat /\ last <= Len(log)
      BY <1>3
    <3>4. /\ TakenLog(peer.log, log, h + 1, last) \in Seq(Nat \ {0})
          /\ Len(TakenLog(peer.log, log, h + 1, last)) = last
          /\ \A i \in 1..last : TakenLog(peer.log, log, h + 1, last)[i] = log[i]
      <4>1. h \in Nat /\ Agree(h, peer.log, log) /\ h < last
        BY <2>5, <3>1
      <4> QED
        BY SMTT(30), <3>2, <3>3, <4>1, TakenLogIs
    <3> QED
      BY <3>1, <3>4, Zenon
  <2>11. /\ Matching(new, log)
         /\ \A n \in Nat : n <= last => Agree(n, new, log)
    <3>1. Len(new) <= Len(log) /\ \A i \in 1..Len(new) : new[i] = log[i]
      BY <1>3, <2>10
    <3> QED
      BY <1>1, <2>10, <3>1, PrefixMatches
  <2>12. \A n : Agree(n, peer.log, log) => n \in Nat /\ n <= last
    <3>1. ASSUME NEW n, Agree(n, peer.log, log) PROVE n \in Nat /\ n <= last
      <4>1. n \in Nat /\ n < conflict
        BY <2>4, <3>1 DEF Agree
      <4> QED
        BY <1>3, <2>2, <4>1
    <3> QED
      BY <3>1
  <2>13. peer.committed < conflict
    BY <1>6, <2>4
  <2>14. c \in Nat /\ c <= last
    <3>1. last \in Nat /\ peer.committed \in Nat
      BY <1>1, <1>3
    <3> QED
      BY <1>a, <2>2, <2>13, <3>1 DEF Larger
  <2>15. /\ p \in [log : Seq(Nat \ {0}), committed : Nat, request : Nat]
         /\ p.log = new /\ p.committed = c /\ p.request = peer.request
    BY <1>1, <2>10, <2>14
  <2> QED
    <3>1. Agree(c, new, log) /\ Agree(last, new, log)
      BY <1>3, <2>11, <2>14
    <3>2. p.request = 0
      BY <2>15
    <3>3. Matching(new, log)
      BY <2>11
    <3>4. PeerOK(p, log)
      BY <2>15, <3>1, <3>2, <3>3 DEF PeerOK
    <3>5. \A n : Agree(n, peer.log, log) => Agree(n, p.log, log)
      BY <2>11, <2>12, <2>15
    <3>6. c <= Len(new)
      BY <2>10, <2>14
    <3> QED
      BY <2>13, <2>15, <3>1, <3>4, <3>5, <3>6
<1> QED
  BY <1>0, <1>2, <1>7, <1>8, Zenon

\* Its answer to one whose index does not.
Hint(m) == FindConflictByTerm(peer.log, Smaller(m.index, Len(peer.log)), TermOf(log, m.index))

Refusal(m) ==
    [type |-> "AppResp", index |-> m.index, reject |-> TRUE, hint |-> Hint(m),
     log_term |-> TermOf(peer.log, Hint(m)), request |-> 0]

\* An answer that refuses says nothing of the logs.
LEMMA RefusalOK ==
    ASSUME LogsOK, NEW m, m.index \in Nat, NEW l, NEW c
    PROVE  MessageOK(Refusal(m), peer.log, l, c)
<1>1. peer.log \in Seq(Nat \ {0}) /\ Len(peer.log) \in Nat /\ log \in Seq(Nat \ {0})
  BY Facts
<1>2. Smaller(m.index, Len(peer.log)) \in Nat /\ TermOf(log, m.index) \in Nat
  BY <1>1, TermOfIs DEF Smaller
<1>3. PICK h : h = Hint(m)
  OBVIOUS
<1>4. h \in Nat
  BY <1>1, <1>2, <1>3, ConflictByTerm DEF Hint
<1>5. TermOf(peer.log, h) \in Nat
  BY <1>1, <1>4, TermOfIs
<1>6. PICK r : r = Refusal(m)
  OBVIOUS
<1>7. /\ r.type = "AppResp" /\ r.reject = TRUE /\ r.index = m.index /\ r.hint = h
      /\ r.log_term = TermOf(peer.log, h) /\ r.request = 0
  BY <1>3, <1>6 DEF Refusal
<1>8. {r.index, r.hint, r.log_term, r.request} \subseteq Nat
  BY <1>4, <1>5, <1>7
<1> QED
  BY <1>6, <1>7, <1>8 DEF MessageOK

\* The peer handles an append.
LEMMA AppendEntriesStep ==
    ASSUME LogsOK, LogDefects \subseteq repaired, NEW m \in net, NEW gone,
           HandleAppendEntries(m, gone)
    PROVE  StepOK
<1>1. \/ peer.request # 0 /\ Answer(gone, peer, RequestAnswer(peer), {})
      \/ Answer(gone, peer, Acknowledge(peer.committed), {})
      \/ /\ peer.request = 0 /\ MatchTerm(m.index)
         /\ Answer(gone, [peer EXCEPT !.log = Taken(m), !.committed = TakenCommit(m)],
                   Acknowledge(m.index + Len(m.ents)), TakenChecks(m))
      \/ Answer(gone, peer, Refusal(m), {})
  BY Zenon DEF HandleAppendEntries, Taken, TakenLog, TakenCommit, TakenChecks, Refusal, Hint
<1>2. AppendOK(m, log)
  <2>1. m.type = "App"
    BY DEF HandleAppendEntries
  <2> QED
    BY <2>1, MessageIs
<1>3. m.index \in Nat /\ Len(m.ents) \in Nat
  BY <1>2 DEF AppendOK, Appends
<1>4. PeerOK(peer, log) /\ \A n : Agree(n, peer.log, log) => Agree(n, peer.log, log)
  BY Unchanged
<1>5. CASE Answer(gone, peer, RequestAnswer(peer), {})
  BY <1>4, <1>5, RequestAnswerOK, PeerStep
<1>6. CASE Answer(gone, peer, Acknowledge(peer.committed), {})
  <2>1. Agree(peer.committed, peer.log, log)
    BY <1>4 DEF PeerOK
  <2> QED
    BY <1>4, <1>6, <2>1, AcknowledgeOK, PeerStep
<1>7. CASE /\ peer.request = 0 /\ MatchTerm(m.index)
           /\ Answer(gone, [peer EXCEPT !.log = Taken(m), !.committed = TakenCommit(m)],
                     Acknowledge(m.index + Len(m.ents)), TakenChecks(m))
  <2>1. PICK p : p = [peer EXCEPT !.log = Taken(m), !.committed = TakenCommit(m)]
    OBVIOUS
  <2>2. "find_conflict" \in repaired
    BY DEF LogDefects
  <2>3. peer.request = 0 /\ MatchTerm(m.index)
    BY <1>7
  <2>4. PICK last : last = m.index + Len(m.ents)
    OBVIOUS
  <2>5. /\ PeerOK(p, log)
        /\ Agree(last, p.log, log)
        /\ \A n : Agree(n, peer.log, log) => Agree(n, p.log, log)
        /\ TakenChecks(m) = {}
    BY <1>2, <2>1, <2>2, <2>3, <2>4, AppendTaken
  <2>6. Answer(gone, p, Acknowledge(last), {})
    BY <1>7, <2>1, <2>4, <2>5
  <2>7. MessageOK(Acknowledge(last), p.log, log, committed)
    BY <2>5, AcknowledgeOK
  <2> QED
    BY <2>5, <2>6, <2>7, PeerStep
<1>8. CASE Answer(gone, peer, Refusal(m), {})
  BY <1>3, <1>4, <1>8, RefusalOK, PeerStep
<1> QED
  BY <1>1, <1>5, <1>6, <1>7, <1>8

\* The peer handles a heartbeat.
LEMMA HeartbeatStep ==
    ASSUME LogsOK, NEW m \in net, NEW gone, HandleHeartbeat(m, gone)
    PROVE  StepOK
<1>1. PICK p : p = [peer EXCEPT !.committed = Larger(@, m.commit)]
  OBVIOUS
<1>2. PICK answer :
         /\ Answer(gone, p, answer, Check("commit_to", m.commit <= Len(peer.log)))
         /\ answer = RequestAnswer(p) \/ answer = [type |-> "HeartbeatResp"]
  BY <1>1 DEF HandleHeartbeat
<1>3. Agree(m.commit, peer.log, log)
  <2>1. m.type = "Heartbeat"
    BY DEF HandleHeartbeat
  <2> QED
    BY <2>1, MessageIs
<1>4. PICK c : c = Larger(peer.committed, m.commit) /\ Agree(c, peer.log, log)
  <2>1. Agree(peer.committed, peer.log, log)
    BY DEF LogsOK, PeerOK
  <2> QED
    BY <1>3, <2>1, AgreeLarger
<1>5. p = [peer EXCEPT !.committed = c]
  BY <1>1, <1>4
<1>6. PeerOK(p, log) /\ p.log = peer.log
  BY <1>4, <1>5, CommitStepOK
<1>7. Check("commit_to", m.commit <= Len(peer.log)) = {}
  BY <1>3 DEF Agree, Check
<1>8. MessageOK(answer, p.log, log, committed)
  <2>1. CASE answer = RequestAnswer(p)
    BY <1>6, <2>1, RequestAnswerOK
  <2>2. CASE answer = [type |-> "HeartbeatResp"]
    <3>1. answer.type = "HeartbeatResp"
      BY <2>2
    <3> QED
      BY <3>1 DEF MessageOK
  <2> QED
    BY <1>2, <2>1, <2>2
<1> QED
  BY <1>2, <1>6, <1>7, <1>8, PeerStep

\* The peer handles a snapshot.
LEMMA SnapshotStep ==
    ASSUME LogsOK, LogDefects \subseteq repaired, NEW m \in net, NEW gone,
           HandleSnapshot(m, gone)
    PROVE  StepOK
<1> DEFINE known == [peer EXCEPT !.committed = m.index]
<1> DEFINE restored == [log |-> SubSeq(log, 1, m.index), committed |-> m.index, request |-> 0]
<1>1. m.index \in Nat /\ m.index <= committed
  <2>1. m.type = "Snap"
    BY DEF HandleSnapshot
  <2> QED
    BY <2>1, MessageIs
<1>2. /\ log \in Seq(Nat \ {0}) /\ Len(log) \in Nat /\ committed \in Nat /\ committed <= Len(log)
      /\ peer.log \in Seq(Nat \ {0}) /\ Len(peer.log) \in Nat
      /\ peer.committed \in Nat /\ peer.request \in Nat
  BY Facts
<1>3. /\ PeerOK(peer, log) /\ \A n : Agree(n, peer.log, log) => Agree(n, peer.log, log)
      /\ Agree(peer.committed, peer.log, log)
      /\ peer.request # 0 => peer.request = Len(peer.log)
  BY Unchanged DEF PeerOK
<1>4. "restore" \in repaired
  BY DEF LogDefects
<1>5. \/ Answer(gone, peer, Acknowledge(peer.committed), {})
      \/ MatchTerm(m.index) /\ Answer(gone, known, Acknowledge(m.index), {})
      \/ /\ ~(m.index < peer.request)
         /\ peer.request # 0 \/ ~MatchTerm(m.index)
         /\ Answer(gone, restored, Acknowledge(m.index), {})
  BY <1>4 DEF HandleSnapshot
<1>6. CASE Answer(gone, peer, Acknowledge(peer.committed), {})
  BY <1>3, <1>6, AcknowledgeOK, PeerStep
<1>7. CASE MatchTerm(m.index) /\ Answer(gone, known, Acknowledge(m.index), {})
  <2>1. m.index <= Len(log)
    BY <1>1, <1>2
  <2>2. Agree(m.index, peer.log, log)
    BY <1>1, <1>3, <1>7, <2>1, MatchTermMeans DEF LogsOK
  <2>3. PICK p : p = known
    OBVIOUS
  <2>4. PeerOK(p, log) /\ p.log = peer.log
    BY <2>2, <2>3, CommitStepOK
  <2>5. MessageOK(Acknowledge(m.index), p.log, log, committed)
    BY <2>2, <2>4, AcknowledgeOK
  <2>6. Answer(gone, p, Acknowledge(m.index), {})
    BY <1>7, <2>3
  <2> HIDE DEF known
  <2> QED
    BY <2>4, <2>5, <2>6, PeerStep
<1>8. CASE /\ ~(m.index < peer.request)
           /\ peer.request # 0 \/ ~MatchTerm(m.index)
           /\ Answer(gone, restored, Acknowledge(m.index), {})
  <2>1. PICK h : h = SubSeq(log, 1, m.index)
    OBVIOUS
  <2>2. /\ h \in Seq(Nat \ {0}) /\ Len(h) = m.index
        /\ \A i \in 1..Len(h) : h[i] = log[i]
    <3>1. m.index <= Len(log)
      BY <1>1, <1>2
    <3> QED
      BY <1>1, <1>2, <2>1, <3>1
  <2>3. Matching(h, log) /\ \A n \in Nat : n <= m.index => Agree(n, h, log)
    <3>1. Len(h) <= Len(log)
      BY <1>1, <1>2, <2>2
    <3> QED
      BY <1>2, <2>2, <3>1, PrefixMatches
  <2>4. PICK p : p = restored
    OBVIOUS
  <2>5. p.log = h /\ p.committed = m.index /\ p.request = 0
    BY <2>1, <2>4
  <2>6. PeerOK(p, log)
    <3>1. p \in [log : Seq(Nat \ {0}), committed : Nat, request : Nat]
      BY <1>1, <2>1, <2>2, <2>4
    <3>2. Agree(m.index, h, log)
      BY <1>1, <2>3
    <3> QED
      BY <2>3, <2>5, <3>1, <3>2 DEF PeerOK
  <2>7. ASSUME NEW n, Agree(n, peer.log, log) PROVE Agree(n, p.log, log)
    <3>1. n \in Nat /\ n <= Len(peer.log)
      BY <2>7 DEF Agree
    <3>2. n <= m.index
      <4>1. CASE peer.request # 0
        <5>1. Len(peer.log) <= m.index
          BY <1>1, <1>2, <1>3, <1>8, <4>1
        <5> QED
          BY <1>1, <1>2, <3>1, <5>1
      <4>2. CASE ~MatchTerm(m.index)
        <5>1. ~Agree(m.index, peer.log, log)
          <6>1. m.index <= Len(log)
            BY <1>1, <1>2
          <6> QED
            BY <1>1, <1>3, <4>2, <6>1, MatchTermMeans DEF LogsOK
        <5>2. m.index <= n => Agree(m.index, peer.log, log)
          BY <1>1, <1>2, <2>7, AgreeBelow
        <5> QED
          BY <1>1, <3>1, <5>1, <5>2
      <4> QED
        BY <1>8, <4>1, <4>2
    <3>3. Agree(n, h, log)
      BY <2>3, <3>1, <3>2
    <3> QED
      BY <2>5, <3>3
  <2>8. MessageOK(Acknowledge(m.index), p.log, log, committed)
    <3>1. Agree(m.index, p.log, log)
      BY <1>1, <2>3, <2>5
    <3> QED
      BY <3>1, AcknowledgeOK
  <2>9. Answer(gone, p, Acknowledge(m.index), {})
    BY <1>8, <2>4
  <2> HIDE DEF restored
  <2> QED
    BY <2>6, <2>7, <2>8, <2>9, PeerStep
<1> QED
  BY <1>5, <1>6, <1>7, <1>8

-----------------------------------------------------------------------------
\* The leader's handlers

\* The leader's step, when its log stays.
LEMMA WorkStep ==
    ASSUME LogsOK, NEW s, NEW gone, Do(s, gone), log' = log, peer' = peer,
           NEW c \in Nat, committed' = c, committed <= c, c <= Len(log),
           WorkOK(s, peer.log, log, c),
           "update_state" \in repaired /\ WindowOK(pr) => InWindow(s)
    PROVE  StepOK
<1>1. log \in Seq(Nat \ {0}) /\ Len(log) \in Nat
  BY Facts
<1>2. Len(log) <= Len(log')
  BY <1>1
<1>3. Matching(peer.log, log') /\ \A n : Agree(n, peer.log, log) => Agree(n, peer.log, log')
  BY SameLog
<1>4. WorkOK(s, peer.log, log', committed')
  OBVIOUS
<1> QED
  BY <1>1, <1>2, <1>3, <1>4, LeaderStep

\* What the leader sends of a progress.
LEMMA SentOK ==
    ASSUME LogDefects \subseteq repaired,
           NEW p, NEW a, NEW l, NEW c \in Nat, Len(l) \in Nat, c <= Len(l),
           ProgressOK(p, a, l), OutOK(out, l)
    PROVE  /\ WorkOK(SendAppend(Working(p), l, c), a, l, c)
           /\ "update_state" \in repaired /\ WindowOK(p)
                 => InWindow(SendAppend(Working(p), l, c))
BY WorkingOK, SendAppendOK

\* The leader's log grows by an entry of its term.
LEMMA LogGrows ==
    ASSUME NEW a, NEW l \in Seq(Nat \ {0}), Len(l) >= 1, Len(a) \in Nat, Matching(a, l),
           NEW k, k = Append(l, Last(l))
    PROVE  /\ k \in Seq(Nat \ {0}) /\ Len(k) = Len(l) + 1
           /\ Matching(a, k)
           /\ \A n : Agree(n, a, l) => Agree(n, a, k)
           /\ \A p : ProgressOK(p, a, l) => ProgressOK(p, a, k)
           /\ \A o : OutOK(o, l) => OutOK(o, k)
<1>1. PICK d \in Nat : d = Len(l) /\ d >= 1
  OBVIOUS
<1>2. Last(l) \in Nat \ {0} /\ Last(l) = l[d]
  BY <1>1, LastIs
<1>3. /\ k \in Seq(Nat \ {0}) /\ Len(k) = d + 1
      /\ k[d + 1] = l[d]
      /\ \A i \in 1..d : k[i] = l[i]
  BY <1>1, <1>2
<1>4. ASSUME NEW n, Agree(n, a, l) PROVE Agree(n, a, k)
  <2>1. n \in Nat /\ n <= Len(a) /\ n <= d /\ \A i \in 1..n : a[i] = l[i]
    BY <1>1, <1>4 DEF Agree
  <2>2. \A i \in 1..n : a[i] = k[i]
    BY <1>1, <1>3, <2>1
  <2>3. n <= Len(k)
    BY <1>1, <1>3, <2>1
  <2> QED
    BY <2>1, <2>2, <2>3 DEF Agree
<1>5. Matching(a, k)
  <2>1. ASSUME NEW i \in 1..Len(a), i <= Len(k), a[i] = k[i] PROVE Agree(i, a, k)
    <3>1. CASE i <= d
      <4>1. a[i] = l[i] /\ i <= Len(l)
        BY <1>1, <1>3, <2>1, <3>1
      <4>2. Agree(i, a, l)
        BY <4>1 DEF Matching
      <4> QED
        BY <1>4, <4>2
    <3>2. CASE ~(i <= d)
      <4>1. i = d + 1 /\ i > Len(l)
        BY <1>1, <1>3, <2>1, <3>2
      <4>2. a[i] # l[Len(l)]
        BY <4>1 DEF Matching
      <4>3. a[i] = l[d]
        BY <1>3, <2>1, <4>1
      <4> QED
        BY <1>1, <4>2, <4>3
    <3> QED
      BY <3>1, <3>2
  <2>2. ASSUME NEW i \in 1..Len(a), i > Len(k) PROVE a[i] # k[Len(k)]
    <3>1. i > Len(l)
      BY <1>1, <1>3, <2>2
    <3>2. a[i] # l[Len(l)]
      BY <3>1 DEF Matching
    <3> QED
      BY <1>1, <1>3, <3>2
  <2> QED
    BY <2>1, <2>2 DEF Matching
<1>6. ASSUME NEW p, ProgressOK(p, a, l) PROVE ProgressOK(p, a, k)
  <2>1. /\ p \in Progresses /\ Agree(p.matched, a, l)
        /\ p.next_idx >= 1 /\ p.next_idx <= d + 1 /\ p.pending_snapshot <= d
    BY <1>1, <1>6 DEF ProgressOK
  <2>2. p.next_idx \in Nat /\ p.pending_snapshot \in Nat
    BY <2>1 DEF Progresses
  <2>3. p.next_idx <= Len(k) + 1 /\ p.pending_snapshot <= Len(k)
    BY <1>1, <1>3, <2>1, <2>2
  <2> QED
    BY <1>4, <2>1, <2>3 DEF ProgressOK
<1>7. ASSUME NEW o, OutOK(o, l) PROVE OutOK(o, k)
  <2>1. ASSUME NEW m, AppendOK(m, l) PROVE AppendOK(m, k)
    <3>1. m \in Appends /\ m.index + Len(m.ents) \in Nat
      BY <2>1 DEF AppendOK, Appends
    <3>2. m.index + Len(m.ents) <= d
      BY <1>1, <2>1 DEF AppendOK
    <3>3. m.index + Len(m.ents) <= Len(k)
      BY <1>1, <1>3, <3>1, <3>2
    <3> QED
      BY <2>1, <3>3 DEF AppendOK
  <2> QED
    BY <1>7, <2>1 DEF OutOK
<1> QED
  BY <1>1, <1>3, <1>4, <1>5, <1>6, <1>7

\* A proposal.
LEMMA ProposeStep ==
    ASSUME LogsOK, LogDefects \subseteq repaired, Propose
    PROVE  StepOK
<1>1. PICK k : k = Append(log, Last(log))
  OBVIOUS
<1>2. PICK s : s = SendAppend(Working(pr), k, committed)
  OBVIOUS
<1>3. /\ log' = k /\ committed' = committed /\ peer' = peer
      /\ Do(s, {})
  BY <1>1, <1>2 DEF Propose
<1>4. /\ log \in Seq(Nat \ {0}) /\ Len(log) \in Nat /\ Len(log) >= 1
      /\ Len(peer.log) \in Nat
      /\ committed \in Nat /\ committed <= Len(log)
  BY Facts
<1>5. /\ Matching(peer.log, log)
      /\ ProgressOK(pr, peer.log, log) /\ OutOK(out, log)
  BY SameLog
<1>6. /\ k \in Seq(Nat \ {0}) /\ Len(k) = Len(log) + 1
      /\ Matching(peer.log, k)
      /\ \A n : Agree(n, peer.log, log) => Agree(n, peer.log, k)
      /\ ProgressOK(pr, peer.log, k) /\ OutOK(out, k)
  BY <1>1, <1>4, <1>5, LogGrows
<1>7. Len(k) \in Nat /\ committed <= Len(k) /\ Len(log) <= Len(k)
  BY <1>4, <1>6
<1>8. /\ WorkOK(s, peer.log, k, committed)
      /\ "update_state" \in repaired /\ WindowOK(pr) => InWindow(s)
  BY <1>2, <1>4, <1>6, <1>7, SentOK
<1>9. /\ log' \in Seq(Nat \ {0}) /\ Len(log) <= Len(log')
      /\ committed' \in Nat /\ committed <= committed' /\ committed' <= Len(log')
      /\ Matching(peer.log, log')
      /\ \A n : Agree(n, peer.log, log) => Agree(n, peer.log, log')
      /\ WorkOK(s, peer.log, log', committed')
  BY <1>3, <1>4, <1>6, <1>7, <1>8
<1> QED
  BY <1>3, <1>8, <1>9, LeaderStep

\* An entry is committed by another voter.
LEMMA OtherCommitsStep ==
    ASSUME LogsOK, LogDefects \subseteq repaired, OtherCommits
    PROVE  StepOK
<1>1. PICK c \in (committed + 1)..Len(log) :
         /\ committed' = c
         /\ Do(SendAppend(Working(pr), log, c), {})
  BY DEF OtherCommits
<1>2. log' = log /\ peer' = peer
  BY DEF OtherCommits
<1>3. Len(log) \in Nat /\ committed \in Nat
  BY Facts
<1>4. c \in Nat /\ committed <= c /\ c <= Len(log)
  BY <1>1, <1>3
<1>5. ProgressOK(pr, peer.log, log) /\ OutOK(out, log)
  BY SameLog
<1>6. PICK s : s = SendAppend(Working(pr), log, c)
  OBVIOUS
<1>7. /\ WorkOK(s, peer.log, log, c)
      /\ "update_state" \in repaired /\ WindowOK(pr) => InWindow(s)
  BY <1>3, <1>4, <1>5, <1>6, SentOK
<1> QED
  BY <1>1, <1>2, <1>4, <1>6, <1>7, WorkStep

\* The leader works on progress p, and may send.
LEMMA WorkOrSendStep ==
    ASSUME LogsOK, LogDefects \subseteq repaired, NEW p, NEW gone,
           \/ Do(Working(p), gone)
           \/ Do(SendAppend(Working(p), log, committed), gone),
           UNCHANGED <<log, committed, peer>>,
           ProgressOK(p, peer.log, log), WindowOK(pr) => WindowOK(p)
    PROVE  StepOK
<1>1. Len(log) \in Nat /\ committed \in Nat /\ committed <= Len(log)
  BY Facts
<1>2. OutOK(out, log)
  BY SameLog
<1>3. log' = log /\ committed' = committed /\ peer' = peer
  OBVIOUS
<1>4. PICK c : c = committed /\ c \in Nat /\ committed <= c /\ c <= Len(log) /\ committed' = c
  BY <1>1, <1>3
<1>5. CASE Do(Working(p), gone)
  <2>1. PICK s : s = Working(p)
    OBVIOUS
  <2>2. WorkOK(s, peer.log, log, c) /\ (WindowOK(p) => InWindow(s))
    BY <1>2, <2>1, WorkingOK
  <2> QED
    BY <1>3, <1>4, <1>5, <2>1, <2>2, WorkStep
<1>6. CASE Do(SendAppend(Working(p), log, committed), gone)
  <2>1. PICK s : s = SendAppend(Working(p), log, c)
    OBVIOUS
  <2>2. /\ WorkOK(s, peer.log, log, c)
        /\ "update_state" \in repaired /\ WindowOK(p) => InWindow(s)
    BY <1>1, <1>2, <1>4, <2>1, SentOK
  <2>3. Do(s, gone)
    BY <1>4, <1>6, <2>1
  <2> QED
    BY <1>3, <1>4, <2>2, <2>3, WorkStep
<1> QED
  BY <1>5, <1>6

\* The answer to a heartbeat.
LEMMA HeartbeatResponseStep ==
    ASSUME LogsOK, LogDefects \subseteq repaired, NEW m, NEW gone,
           HandleHeartbeatResponse(m, gone)
    PROVE  StepOK
<1>1. PICK p : p = HeartbeatProgress(pr)
  OBVIOUS
<1>2. /\ \/ Do(Working(p), gone)
         \/ Do(SendAppend(Working(p), log, committed), gone)
      /\ UNCHANGED <<log, committed, peer>>
  BY <1>1 DEF HandleHeartbeatResponse, HeartbeatProgress
<1>3. ProgressOK(pr, peer.log, log)
  BY SameLog
<1>4. ProgressOK(p, peer.log, log) /\ (WindowOK(pr) => WindowOK(p))
  BY <1>1, <1>3, HeartbeatProgressOK
<1> QED
  BY <1>2, <1>4, WorkOrSendStep

\* The progress a rejection leaves: of the peer that was heard, or after maybe_decr_to.
Heard == [pr EXCEPT !.recent_active = TRUE]

LeaderHint(m) ==
    IF m.log_term > 0 /\ m.hint <= Len(log) THEN FindConflictByTerm(log, m.hint, m.log_term)
    ELSE m.hint

Decreased(m) == DecrTo(Heard, m.index, LeaderHint(m), m.request)

Refused(m) ==
    IF Decreased(m).state = "Replicate" THEN BecomeProbe(Decreased(m)) ELSE Decreased(m)

\* The peer that was heard.
LEMMA HeardIs ==
    ASSUME LogsOK
    PROVE  /\ ProgressOK(Heard, peer.log, log)
           /\ Heard.matched = pr.matched /\ Heard.state = pr.state
           /\ WindowOK(pr) => WindowOK(Heard)
<1>1. ProgressOK(pr, peer.log, log)
  BY SameLog
<1> QED
  BY <1>1, HeardOK DEF Heard

\* A rejection leaves the window empty.
LEMMA RefusedOK ==
    ASSUME LogsOK, NEW m, {m.index, m.hint, m.log_term, m.request} \subseteq Nat,
           ~IsStale(Heard, m.index, m.request)
    PROVE  /\ ProgressOK(Refused(m), peer.log, log)
           /\ WindowOK(pr) => WindowOK(Refused(m))
<1>1. /\ log \in Seq(Nat \ {0}) /\ Len(log) \in Nat /\ Len(peer.log) \in Nat
  BY Facts
<1>2. LeaderHint(m) \in Nat
  <2>1. m.hint \in Nat /\ m.log_term \in Nat
    OBVIOUS
  <2> QED
    BY <1>1, <2>1, ConflictByTerm DEF LeaderHint
<1>3. ProgressOK(Heard, peer.log, log) /\ (WindowOK(pr) => WindowOK(Heard))
  BY HeardIs
<1>4. PICK d : d = Decreased(m)
  OBVIOUS
<1>5. /\ ProgressOK(d, peer.log, log)
      /\ d.state = Heard.state /\ d.ins = Heard.ins
  <2>1. m.index \in Nat /\ m.request \in Nat
    OBVIOUS
  <2> QED
    BY <1>1, <1>2, <1>3, <1>4, <2>1, DecrToOK DEF Decreased
<1>6. CASE d.state = "Replicate"
  <2>1. Refused(m) = BecomeProbe(d)
    BY <1>4, <1>6 DEF Refused
  <2> QED
    BY <1>1, <1>5, <2>1, BecomeProbeOK
<1>7. CASE d.state # "Replicate"
  <2>1. Refused(m) = d
    BY <1>4, <1>7 DEF Refused
  <2>2. WindowOK(pr) => d.ins = <<>>
    BY <1>3, <1>5, <1>7 DEF WindowOK
  <2>3. WindowOK(pr) => WindowOK(d)
    BY <1>7, <2>2, EmptyWindow
  <2> QED
    BY <1>5, <2>1, <2>3
<1> QED
  BY <1>6, <1>7

\* A rejection.
LEMMA RejectionStep ==
    ASSUME LogsOK, LogDefects \subseteq repaired, NEW m \in net, NEW gone,
           HandleRejection(m, gone)
    PROVE  StepOK
<1>1. /\ m.type = "AppResp"
      /\ UNCHANGED <<log, committed, peer>>
      /\ \/ Do(Working(Heard), gone)
         \/ /\ ~IsStale(Heard, m.index, m.request)
            /\ Do(SendAppend(Working(Refused(m)), log, committed), gone)
  BY DEF HandleRejection, Heard, LeaderHint, Decreased, Refused
<1>2. {m.index, m.hint, m.log_term, m.request} \subseteq Nat
  BY <1>1, MessageIs
<1>3. CASE Do(Working(Heard), gone)
  BY <1>1, <1>3, HeardIs, WorkOrSendStep
<1>4. CASE /\ ~IsStale(Heard, m.index, m.request)
           /\ Do(SendAppend(Working(Refused(m)), log, committed), gone)
  <2>1. PICK p : p = Refused(m)
    OBVIOUS
  <2>2. ProgressOK(p, peer.log, log) /\ (WindowOK(pr) => WindowOK(p))
    BY <1>2, <1>4, <2>1, RefusedOK
  <2> QED
    BY <1>1, <1>4, <2>1, <2>2, WorkOrSendStep
<1> QED
  BY <1>1, <1>3, <1>4

\* What an acknowledgement leaves: of the progress, of that when it is more than was
\* known, and of the commit index.
Acknowledged(i) == MaybeUpdate(Heard, i)

Promoted(p, i) ==
    CASE p.state = "Probe" -> BecomeReplicate(p)
      [] p.state = "Snapshot" -> IF p.matched >= p.pending_snapshot
                                 THEN BecomeProbe(p) ELSE p
      [] p.state = "Replicate" -> FreeTo(p, i)

CommittedBy(p) ==
    IF p.matched > committed /\ TermOf(log, p.matched) = Last(log) THEN p.matched ELSE committed

Again(u, c) ==
    IF c > committed \/ IsPaused(pr) THEN SendAppend(Working(u), log, c) ELSE Working(u)

\* The progress after an acknowledgement of more than was known.
LEMMA PromotedOK ==
    ASSUME LogsOK, NEW i, Agree(i, peer.log, log), i > pr.matched,
           NEW p, p = Acknowledged(i), ProgressOK(p, peer.log, log)
    PROVE  /\ ProgressOK(Promoted(p, i), peer.log, log)
           /\ WindowOK(pr) => WindowOK(Promoted(p, i))
<1>1. Len(log) \in Nat /\ Len(peer.log) \in Nat
  BY Facts
<1>2. /\ ProgressOK(Heard, peer.log, log) /\ (WindowOK(pr) => WindowOK(Heard))
      /\ Heard.matched = pr.matched
  BY HeardIs
<1>3. p.state = Heard.state /\ p.ins = Heard.ins
  BY <1>1, <1>2, MaybeUpdateOK DEF Acknowledged
<1>4. i \in Nat
  BY DEF Agree
<1>5. CASE p.state = "Probe"
  <2>1. Promoted(p, i) = BecomeReplicate(p)
    BY <1>5 DEF Promoted
  <2> QED
    BY <1>1, <2>1, BecomeReplicateOK
<1>6. CASE p.state = "Snapshot"
  <2>1. Promoted(p, i) = BecomeProbe(p) \/ Promoted(p, i) = p
    BY <1>6 DEF Promoted
  <2>2. WindowOK(pr) => WindowOK(p)
    <3>1. WindowOK(pr) => p.ins = <<>>
      BY <1>2, <1>3, <1>6 DEF WindowOK
    <3> QED
      BY <1>6, <3>1, EmptyWindow
  <2> QED
    BY <1>1, <2>1, <2>2, BecomeProbeOK
<1>7. CASE p.state = "Replicate"
  <2>1. Promoted(p, i) = FreeTo(p, i)
    BY <1>7 DEF Promoted
  <2>2. ProgressOK(FreeTo(p, i), peer.log, log)
    BY <1>4, FreeToType
  <2>3. WindowOK(Heard) => WindowOK(FreeTo(p, i))
    <3>1. Heard.state = "Replicate" /\ i > Heard.matched
      BY <1>2, <1>3, <1>7
    <3> QED
      BY <1>1, <1>2, <3>1, FreeToOK DEF Acknowledged
  <2> QED
    BY <1>2, <2>1, <2>2, <2>3
<1>8. p.state \in {"Probe", "Replicate", "Snapshot"}
  BY DEF ProgressOK, Progresses
<1> QED
  BY <1>5, <1>6, <1>7, <1>8

\* An acknowledgement.
LEMMA AcknowledgementStep ==
    ASSUME LogsOK, LogDefects \subseteq repaired, NEW m \in net, NEW gone,
           HandleAcknowledgement(m, gone)
    PROVE  StepOK
<1>1. PICK i, p, u, c, s :
         /\ i = m.index
         /\ p = Acknowledged(i)
         /\ u = Promoted(p, i)
         /\ c = CommittedBy(p)
         /\ s = Again(u, c)
  OBVIOUS
<1>2. /\ m.type = "AppResp" /\ ~m.reject
      /\ log' = log /\ peer' = peer
      /\ \/ i > pr.matched /\ Do(SendAppendAggressively(s, log, c), gone) /\ committed' = c
         \/ ~(i > pr.matched) /\ Do(Working(p), gone) /\ committed' = committed
  BY <1>1, Zenon
     DEF HandleAcknowledgement, Heard, Acknowledged, Promoted, CommittedBy, Again
<1>3. Agree(i, peer.log, log) /\ i \in Nat
  BY <1>1, <1>2, MessageIs DEF Agree
<1>4. /\ log \in Seq(Nat \ {0}) /\ Len(log) \in Nat /\ Len(log) >= 1 /\ Len(peer.log) \in Nat
      /\ committed \in Nat /\ committed <= Len(log) /\ pr.matched \in Nat
  BY Facts DEF Progresses
<1>5. /\ ProgressOK(Heard, peer.log, log) /\ (WindowOK(pr) => WindowOK(Heard))
      /\ Heard.matched = pr.matched
  BY HeardIs
<1>6. ProgressOK(p, peer.log, log)
  BY <1>1, <1>3, <1>4, <1>5, MaybeUpdateOK DEF Acknowledged
<1>7. CASE i > pr.matched /\ Do(SendAppendAggressively(s, log, c), gone) /\ committed' = c
  <2>1. ProgressOK(u, peer.log, log) /\ (WindowOK(pr) => WindowOK(u))
    BY <1>1, <1>3, <1>6, <1>7, PromotedOK
  <2>2. c \in Nat /\ committed <= c /\ c <= Len(log)
    <3>1. p.matched \in Nat /\ p.matched <= Len(log)
      BY <1>6 DEF ProgressOK, Agree
    <3> QED
      BY <1>1, <1>4, <3>1 DEF CommittedBy
  <2>3. OutOK(out, log)
    BY SameLog
  <2>4. /\ WorkOK(s, peer.log, log, c)
        /\ "update_state" \in repaired /\ WindowOK(u) => InWindow(s)
    <3>1. s = SendAppend(Working(u), log, c) \/ s = Working(u)
      BY <1>1 DEF Again
    <3>2. CASE s = SendAppend(Working(u), log, c)
      BY <1>4, <2>1, <2>2, <2>3, <3>2, SentOK
    <3>3. CASE s = Working(u)
      BY <2>1, <2>3, <3>3, WorkingOK
    <3> QED
      BY <3>1, <3>2, <3>3
  <2>5. PICK t : t = SendAppendAggressively(s, log, c)
    OBVIOUS
  <2>6. /\ WorkOK(t, peer.log, log, c)
        /\ "update_state" \in repaired /\ InWindow(s) => InWindow(t)
    <3>1. "is_continuous" \in repaired
      BY DEF LogDefects
    <3> QED
      BY <1>4, <2>2, <2>4, <2>5, <3>1, AggressivelyOK
  <2>7. "update_state" \in repaired /\ WindowOK(pr) => InWindow(t)
    BY <2>1, <2>4, <2>6
  <2>8. Do(t, gone) /\ committed' = c
    BY <1>7, <2>5
  <2> QED
    BY <1>2, <2>2, <2>6, <2>7, <2>8, WorkStep
<1>8. CASE ~(i > pr.matched) /\ Do(Working(p), gone) /\ committed' = committed
  <2>1. WindowOK(Heard) => WindowOK(p)
    <3>1. i <= Heard.matched
      BY <1>3, <1>4, <1>5, <1>8
    <3> QED
      BY <1>1, <1>3, <1>4, <1>5, <3>1, AcknowledgedAgain DEF Acknowledged
  <2>2. UNCHANGED <<log, committed, peer>>
    BY <1>2, <1>8
  <2> QED
    BY <1>5, <1>6, <1>8, <2>1, <2>2, WorkOrSendStep
<1> QED
  BY <1>2, <1>7, <1>8

-----------------------------------------------------------------------------
\* The specification

\* A message is handled.
LEMMA ReceiveStep ==
    ASSUME LogsOK, LogDefects \subseteq repaired, NEW m \in net, Receive(m)
    PROVE  StepOK
<1>1. PICK gone :
         \/ HandleAppendEntries(m, gone) \/ HandleHeartbeat(m, gone) \/ HandleSnapshot(m, gone)
         \/ HandleHeartbeatResponse(m, gone) \/ HandleRejection(m, gone)
         \/ HandleAcknowledgement(m, gone)
  BY Zenon DEF Receive
<1> QED
  BY <1>1, AppendEntriesStep, HeartbeatStep, SnapshotStep, HeartbeatResponseStep,
     RejectionStep, AcknowledgementStep

\* Nothing changes.
LEMMA StutterStep ==
    ASSUME LogsOK, UNCHANGED vars
    PROVE  StepOK
<1>1. /\ repaired' = repaired /\ batch_append' = batch_append
      /\ log' = log /\ committed' = committed /\ compacted' = compacted
      /\ pr' = pr /\ peer' = peer /\ panics' = panics /\ out' = out /\ net' = net
  BY DEF vars, leaderVars
<1> QED
  BY <1>1, Unchanged, OtherStep

\* Every step keeps the logs together, and the window in order.
LEMMA NextStep ==
    ASSUME LogsOK, LogDefects \subseteq repaired, [Next]_vars
    PROVE  StepOK
<1>1. CASE Next
  <2>1. \/ Ready \/ Propose \/ OtherCommits \/ Compact \/ Beat \/ CheckQuorum
        \/ HandleUnreachable \/ RequestSnapshot
        \/ \E reject \in BOOLEAN : HandleSnapshotStatus(reject)
        \/ \E m \in net : Receive(m)
        \/ \E m \in net : Lose(m)
    BY <1>1, Zenon DEF Next
  <2>2. CASE \/ Ready \/ Propose \/ OtherCommits \/ Compact \/ Beat \/ CheckQuorum
             \/ HandleUnreachable \/ RequestSnapshot
    BY <2>2, ReadyStep, ProposeStep, OtherCommitsStep, CompactStep, BeatStep,
       CheckQuorumStep, UnreachableStep, RequestSnapshotStep
  <2>3. CASE \E reject \in BOOLEAN : HandleSnapshotStatus(reject)
    BY <2>3, SnapshotStatusStep
  <2>4. CASE \E m \in net : Receive(m)
    BY <2>4, ReceiveStep
  <2>5. CASE \E m \in net : Lose(m)
    BY <2>5, LoseStep
  <2> QED
    BY <2>1, <2>2, <2>3, <2>4, <2>5
<1>2. CASE UNCHANGED vars
  BY <1>2, StutterStep
<1> QED
  BY <1>1, <1>2

\* The logs of a new leader and of a peer.
LEMMA InitLogs ==
    ASSUME NEW a \in PeerLogs, NEW l, l = Append(OldLog, Last(OldLog) + 1)
    PROVE  /\ l \in Seq(Nat \ {0}) /\ Len(l) = Len(OldLog) + 1
           /\ Matching(a, l)
<1>1. /\ OldLog \in Seq(Nat \ {0}) /\ OldLog # <<>>
      /\ a \in Seq(Nat \ {0})
      /\ LogsMatch(a, OldLog)
  BY PeerAssumption
<1>2. PICK n \in Nat, d \in Nat :
         n = Len(OldLog) /\ n >= 1 /\ d = Len(a) /\ DOMAIN a = 1..d
  BY <1>1
<1>3. OldLog[n] \in Nat \ {0} /\ Last(OldLog) = OldLog[n]
  BY <1>1, <1>2 DEF Last
<1>4. PICK t \in Nat \ {0} : t = OldLog[n] + 1
  BY <1>3
<1>5. /\ l \in Seq(Nat \ {0}) /\ Len(l) = n + 1 /\ l[n + 1] = t
      /\ \A i \in 1..n : l[i] = OldLog[i]
  BY <1>1, <1>2, <1>3, <1>4
<1>6. \A i \in 1..d : a[i] # t
  BY <1>1, <1>2, <1>4 DEF LogsMatch
<1>7. ASSUME NEW i \in 1..d, i <= n, a[i] = OldLog[i]
      PROVE  \A j \in 1..i : a[j] = OldLog[j]
  BY <1>1, <1>2, <1>7 DEF LogsMatch
<1>8. ASSUME NEW i \in 1..d, i <= n + 1, a[i] = l[i] PROVE Agree(i, a, l)
  <2>1. i # n + 1
    BY <1>5, <1>6, <1>8
  <2>2. i <= n
    BY <1>8, <2>1
  <2>3. \A j \in 1..i : a[j] = OldLog[j]
    <3>1. a[i] = OldLog[i]
      BY <1>5, <1>8, <2>2
    <3> QED
      BY <1>7, <2>2, <3>1
  <2>4. \A j \in 1..i : a[j] = l[j]
    BY <1>5, <2>2, <2>3
  <2>5. i \in Nat /\ i <= Len(a) /\ i <= Len(l)
    BY <1>2, <1>5, <1>8
  <2> QED
    BY <2>4, <2>5 DEF Agree
<1>9. \A i \in 1..d : i > n + 1 => a[i] # l[n + 1]
  BY <1>5, <1>6
<1>10. Matching(a, l)
  BY <1>2, <1>5, <1>8, <1>9 DEF Matching
<1> QED
  BY <1>2, <1>5, <1>10

\* The progress of a new leader.
LEMMA InitProgress ==
    ASSUME NEW a \in Seq(Nat), NEW l, NEW n \in Nat, n >= 1, n <= Len(l) + 1, Len(l) \in Nat
    PROVE  ProgressOK(NewProgress(n), a, l) /\ WindowOK(NewProgress(n))
<1>1. PICK p : p = NewProgress(n)
  OBVIOUS
<1>2. <<>> \in Seq(Nat)
  OBVIOUS
<1>3. p \in Progresses
  BY <1>1, <1>2, Zenon DEF NewProgress, Progresses
<1>4. /\ p.matched = 0 /\ p.next_idx = n /\ p.pending_snapshot = 0 /\ p.ins = <<>>
      /\ p.state = "Probe"
  BY <1>1 DEF NewProgress
<1>5. Agree(0, a, l)
  BY AgreeOnNothing
<1>6. ProgressOK(p, a, l)
  BY <1>3, <1>4, <1>5 DEF ProgressOK
<1>7. WindowOK(p)
  BY <1>4, EmptyWindow
<1> QED
  BY <1>1, <1>6, <1>7

\* The states a run starts from.
LEMMA InitOK ==
    ASSUME Init
    PROVE  LogsOK /\ WindowOK(pr) /\ BothSurvive
<1>1. PICK a \in PeerLogs : peer = [log |-> a, committed |-> 0, request |-> 0]
  BY DEF Init
<1>2. /\ log = Append(OldLog, Last(OldLog) + 1)
      /\ committed = 1 /\ compacted = 0
      /\ pr = NewProgress(Len(OldLog) + 1)
      /\ out = <<>> /\ net = {} /\ panics = {}
      /\ repaired \in Repairs /\ batch_append \in BOOLEAN
  BY PeerAssumption DEF Init
<1>3. /\ log \in Seq(Nat \ {0}) /\ Len(log) = Len(OldLog) + 1
      /\ Matching(a, log)
  BY <1>1, <1>2, InitLogs
<1>4. /\ Len(OldLog) \in Nat /\ Len(OldLog) >= 1 /\ a \in Seq(Nat \ {0}) /\ a \in Seq(Nat)
  BY <1>1, PeerAssumption
<1>5. LeaderOK
  BY <1>2, <1>3, <1>4 DEF LeaderOK
<1>6. PeerOK(peer, log)
  <2>1. peer.log = a /\ peer.committed = 0 /\ peer.request = 0
    BY <1>1
  <2>2. peer \in [log : Seq(Nat \ {0}), committed : Nat, request : Nat]
    BY <1>1, <1>4
  <2>3. Agree(0, a, log)
    BY <1>3, <1>4, AgreeOnNothing
  <2> QED
    BY <1>3, <2>1, <2>2, <2>3 DEF PeerOK
<1>7. ProgressOK(pr, peer.log, log) /\ WindowOK(pr)
  <2>1. PICK n \in Nat : n = Len(OldLog) + 1 /\ n >= 1 /\ n <= Len(log) + 1 /\ Len(log) \in Nat
    BY <1>3, <1>4
  <2>2. ProgressOK(NewProgress(n), a, log) /\ WindowOK(NewProgress(n))
    BY <1>4, <2>1, InitProgress
  <2>3. pr = NewProgress(n) /\ peer.log = a
    BY <1>1, <1>2, <2>1
  <2> QED
    BY <2>2, <2>3
<1>8. OutOK(out, log)
  BY <1>2 DEF OutOK
<1>9. NetOK(net, peer.log, log, committed)
  BY <1>2 DEF NetOK
<1> QED
  BY <1>2, <1>5, <1>6, <1>7, <1>8, <1>9 DEF LogsOK, BothSurvive

\* Leader and peer stay together, where the defects on the way of the logs are mended:
\* the peer's commit index and what the leader counts as replicated lie where their
\* logs agree, and all that is under way, and comes late or twice, is sound.
THEOREM LogsInvariance ==
    ASSUME \A r \in Repairs : LogDefects \subseteq r
    PROVE  Spec => []LogsOK
<1>1. Init => LogsOK
  BY InitOK
<1>2. LogsOK /\ [Next]_vars => LogsOK'
  <2> SUFFICES ASSUME LogsOK, [Next]_vars PROVE LogsOK'
    OBVIOUS
  <2>1. LogDefects \subseteq repaired
    BY DEF LogsOK, LeaderOK
  <2>2. StepOK
    BY <2>1, NextStep
  <2> QED
    BY <2>2 DEF StepOK
<1> QED
  BY <1>1, <1>2, PTL DEF Spec

\* What the leader counts as replicated is in the peer's log, whatever is lost,
\* duplicated and reordered (maybe_update, handle_append_response), with or without
\* the defect of update_state.
THEOREM ReplicationHolds ==
    ASSUME \A r \in Repairs : LogDefects \subseteq r
    PROVE  Spec => []MatchedIsReplicated
<1>1. LogsOK => MatchedIsReplicated
  <2> SUFFICES ASSUME LogsOK PROVE MatchedIsReplicated
    OBVIOUS
  <2>1. /\ log \in Seq(Nat \ {0}) /\ peer.log \in Seq(Nat \ {0})
    BY Facts
  <2>2. Agree(pr.matched, peer.log, log)
    BY SameLog DEF ProgressOK
  <2>3. PICK n : n = pr.matched
    OBVIOUS
  <2>4. /\ n \in Nat /\ n <= Len(peer.log) /\ n <= Len(log)
        /\ \A i \in 1..n : peer.log[i] = log[i]
    BY <2>2, <2>3 DEF Agree
  <2>5. PICK a, b : a = SubSeq(peer.log, 1, n) /\ b = SubSeq(log, 1, n)
    OBVIOUS
  <2>6. /\ a \in Seq(Nat \ {0}) /\ Len(a) = n /\ \A i \in 1..n : a[i] = peer.log[i]
    BY <2>1, <2>4, <2>5
  <2>7. /\ b \in Seq(Nat \ {0}) /\ Len(b) = n /\ \A i \in 1..n : b[i] = log[i]
    BY <2>1, <2>4, <2>5
  <2>8. \A i \in 1..Len(a) : a[i] = b[i]
    BY <2>4, <2>6, <2>7
  <2>9. a = b
    BY <2>6, <2>7, <2>8, SeqEqual
  <2> QED
    BY <2>3, <2>4, <2>5, <2>9 DEF MatchedIsReplicated
<1> QED
  BY <1>1, LogsInvariance, PTL

\* With update_state mended as well, the window is in order and no assertion of
\* either side fails.
THEOREM PeerInvariance ==
    ASSUME \A r \in Repairs : Defects \subseteq r
    PROVE  Spec => []PeerInv
<1>1. Init => PeerInv
  BY InitOK DEF PeerInv
<1>2. PeerInv /\ [Next]_vars => PeerInv'
  <2> SUFFICES ASSUME PeerInv, [Next]_vars PROVE PeerInv'
    OBVIOUS
  <2>1. LogsOK /\ WindowOK(pr) /\ BothSurvive
    BY DEF PeerInv
  <2>2. LogDefects \subseteq repaired /\ "update_state" \in repaired
    BY <2>1 DEF LogsOK, LeaderOK, LogDefects, Defects
  <2>3. StepOK
    BY <2>1, <2>2, NextStep
  <2> QED
    BY <2>1, <2>2, <2>3 DEF StepOK, PeerInv
<1> QED
  BY <1>1, <1>2, PTL DEF Spec

\* No assertion fails on either side (Inflights::add, maybe_append, commit_to), and
\* send_append_aggressively ends.
THEOREM SurvivalHolds ==
    ASSUME \A r \in Repairs : Defects \subseteq r
    PROVE  Spec => []BothSurvive
<1>1. PeerInv => BothSurvive
  BY DEF PeerInv
<1> QED
  BY <1>1, PeerInvariance, PTL

\* Appends are segments of the log, batched or not, and the window follows it.
THEOREM OrderHolds ==
    ASSUME \A r \in Repairs : Defects \subseteq r
    PROVE  Spec => []SentInOrder
<1>1. PeerInv => SentInOrder
  <2> SUFFICES ASSUME PeerInv PROVE SentInOrder
    OBVIOUS
  <2>1. LogsOK /\ WindowOK(pr)
    BY DEF PeerInv
  <2>2. ASSUME NEW m \in net \cup InNet(out), m.type = "App" PROVE AppendOK(m, log)
    <3>1. CASE m \in net
      BY <2>1, <2>2, <3>1, MessageIs
    <3>2. CASE m \in InNet(out)
      BY <2>1, <3>2 DEF InNet, LogsOK, OutOK
    <3> QED
      BY <3>1, <3>2
  <2>3. AppendsAreSegments
    BY <2>2 DEF AppendsAreSegments, AppendOK
  <2>4. WindowInOrder
    BY <2>1 DEF WindowInOrder, WindowOK
  <2> QED
    BY <2>3, <2>4 DEF SentInOrder
<1> QED
  BY <1>1, PeerInvariance, PTL
=============================================================================
