----------------------------- MODULE ConfChange -----------------------------
(***************************************************************************)
(* Changes of the configuration (confchange/): Changer::simple,            *)
(* enter_joint and leave_joint on the tracker of a node, as                *)
(* Raft::apply_conf_change applies them when their entries are committed,  *)
(* and the restart of a node from the ConfState it gave out.  A change     *)
(* that is refused leaves the tracker as it is.                            *)
(***************************************************************************)
EXTENDS Majorities, SequencesExt

CONSTANTS
    Ids,            \* the peers
    InitialVoters,  \* the configuration to begin with
    MaxChanges      \* bound: single changes in one configuration change

ASSUME ConfChangeAssumption ==
    /\ IsFiniteSet(Ids) /\ 0 \notin Ids
    /\ InitialVoters \subseteq Ids /\ InitialVoters # {}
    /\ MaxChanges \in Nat

VARIABLES
    conf,       \* Configuration: incoming, outgoing, learners, learners_next, auto_leave
    progress,   \* the peers the progress map has
    panics

vars == <<conf, progress, panics>>

Empty == [incoming |-> {}, outgoing |-> {}, learners |-> {}, learners_next |-> {},
          auto_leave |-> FALSE]

IsJoint(cfg) == cfg.outgoing # {}

\* What the operations of Changer work on, and return: a configuration with its
\* progress map, and the reason of a refusal.
Changed(cfg, prs, error) == [cfg |-> cfg, prs |-> prs, error |-> error]
Refuse(reason) == Changed(Empty, {}, reason)

-----------------------------------------------------------------------------
\* Single changes

MakeVoter(c, id) ==
    LET cfg == [c.cfg EXCEPT !.incoming = @ \cup {id}]
    IN  IF id \notin c.prs THEN Changed(cfg, c.prs \cup {id}, c.error)
        ELSE Changed([cfg EXCEPT !.learners = @ \ {id}, !.learners_next = @ \ {id}],
                     c.prs, c.error)

\* Mutant: a voter of the outgoing half becomes a learner at once.
MakeLearnerAtOnce(c, id) ==
    Changed([c.cfg EXCEPT !.incoming = @ \ {id}, !.learners = @ \cup {id}],
            c.prs \cup {id}, c.error)

\* A learner, or one of learners_next while the outgoing half has it.
MakeLearner(c, id) ==
    IF id \notin c.prs
    THEN Changed([c.cfg EXCEPT !.learners = @ \cup {id}], c.prs \cup {id}, c.error)
    ELSE IF id \in c.cfg.learners THEN c
    ELSE LET cfg == [c.cfg EXCEPT !.incoming = @ \ {id}, !.learners_next = @ \ {id}]
         IN  Changed(IF id \in cfg.outgoing
                     THEN [cfg EXCEPT !.learners_next = @ \cup {id}]
                     ELSE [cfg EXCEPT !.learners = @ \cup {id}], c.prs, c.error)

\* Mutant: the progress of a peer stays.
RemoveFromSets(c, id) ==
    Changed([c.cfg EXCEPT !.incoming = @ \ {id}, !.learners = @ \ {id},
                          !.learners_next = @ \ {id}], c.prs, c.error)

\* A voter of the outgoing half keeps its progress.
RemovePeer(c, id) ==
    IF id \notin c.prs THEN c
    ELSE Changed([c.cfg EXCEPT !.incoming = @ \ {id}, !.learners = @ \ {id},
                               !.learners_next = @ \ {id}],
                 IF id \in c.cfg.outgoing THEN c.prs ELSE c.prs \ {id}, c.error)

\* The arms of RemoveNode and AddLearnerNode, as they are in the code.
ApplySingle(c, cc) ==
    CASE cc.id = 0 -> c
      [] cc.id # 0 /\ cc.type = "AddNode" -> MakeVoter(c, cc.id)
      [] cc.id # 0 /\ cc.type = "RemoveNode" -> MakeLearner(c, cc.id)
      [] cc.id # 0 /\ cc.type = "AddLearnerNode" -> RemovePeer(c, cc.id)
      [] cc.id # 0 /\ cc.type = "UpdateNode" -> c

\* One after the other.
ApplyAll(c, ccs) ==
    LET after[i \in 0..Len(ccs)] ==
            IF i = 0 THEN c ELSE ApplySingle(after[i - 1], ccs[i])
    IN  after[Len(ccs)]

Apply(c, ccs) ==
    LET r == ApplyAll(c, ccs)
    IN  IF r.cfg.incoming = {} THEN Refuse("removed_all_voters") ELSE r

\* check_invariants
Valid(cfg, prs) ==
    /\ cfg.incoming \cup cfg.outgoing \cup cfg.learners \cup cfg.learners_next \subseteq prs
    /\ cfg.learners \cap (cfg.incoming \cup cfg.outgoing) = {}
    /\ cfg.learners_next \subseteq cfg.outgoing
    /\ ~IsJoint(cfg) => cfg.learners_next = {} /\ ~cfg.auto_leave

Checked(c) == IF c.error = "none" /\ ~Valid(c.cfg, c.prs) THEN Refuse("invalid") ELSE c

-----------------------------------------------------------------------------
\* Changer

\* Never FALSE of the one change that a ConfChangeV2 or restore has for Simple.
OneVoterAtMost(old, new) == Cardinality((old \ new) \cup (new \ old)) <= 1

Simple(cfg, prs, ccs) ==
    LET c == Apply(Changed(cfg, prs, "none"), ccs)
    IN  IF IsJoint(cfg) THEN Refuse("joint")
        ELSE IF ~Valid(cfg, prs) THEN Refuse("invalid")
        ELSE IF c.error = "none" /\ ~OneVoterAtMost(cfg.incoming, c.cfg.incoming)
             THEN Refuse("more_than_one_voter")
        ELSE Checked(c)

\* Mutant: the outgoing half is copied after the changes.
CopiedLate(cfg, prs, autoLeave, ccs) ==
    LET c == Apply(Changed(cfg, prs, "none"), ccs)
    IN  IF IsJoint(cfg) THEN Refuse("joint")
        ELSE Checked([c EXCEPT !.cfg.auto_leave = autoLeave, !.cfg.outgoing = c.cfg.incoming])

EnterJoint(cfg, prs, autoLeave, ccs) ==
    LET c == Apply(Changed([cfg EXCEPT !.outgoing = @ \cup cfg.incoming], prs, "none"), ccs)
    IN  IF IsJoint(cfg) THEN Refuse("joint")
        ELSE IF ~Valid(cfg, prs) THEN Refuse("invalid")
        ELSE IF cfg.incoming = {} THEN Refuse("zero_voters")
        ELSE Checked([c EXCEPT !.cfg.auto_leave = autoLeave])

LeaveJoint(cfg, prs) ==
    LET learners == cfg.learners \cup cfg.learners_next
    IN  IF ~IsJoint(cfg) THEN Refuse("not_joint")
        ELSE IF ~Valid(cfg, prs) THEN Refuse("invalid")
        ELSE Checked(Changed([cfg EXCEPT !.learners = learners, !.learners_next = {},
                                         !.outgoing = {}, !.auto_leave = FALSE],
                             prs \ (cfg.outgoing \ (cfg.incoming \cup learners)), "none"))

\* ConfChangeV2 says by its transition and the number of changes what it is.
Change(cfg, prs, transition, ccs) ==
    IF transition = "Auto" /\ ccs = <<>> THEN LeaveJoint(cfg, prs)
    ELSE IF transition # "Auto" \/ Len(ccs) > 1
    THEN EnterJoint(cfg, prs, transition # "JointExplicit", ccs)
    ELSE Simple(cfg, prs, ccs)

Types == {"AddNode", "RemoveNode", "AddLearnerNode"}
Singles == [id : Ids, type : Types] \cup {[id |-> 0, type |-> "AddNode"]}
               \cup [id : Ids, type : {"UpdateNode"}]
Transitions == {"Auto", "JointImplicit", "JointExplicit"}

ApplyConfChange(transition, ccs) ==
    LET c == Change(conf, progress, transition, ccs)
    IN  /\ panics = {}
        /\ c.error = "none"
        /\ conf' = c.cfg
        /\ progress' = c.prs
        /\ UNCHANGED panics

-----------------------------------------------------------------------------
\* Restart

\* to_conf_state: what a node gives out of its configuration.
ConfState(cfg) == [cfg EXCEPT !.auto_leave = FALSE]

Each(ids, type) == [i \in 1..Cardinality(ids) |->
                       [id |-> SetToSeq(ids)[i], type |-> type]]

\* The changes to_conf_change_single makes of a ConfState, first those that make
\* the outgoing half.
OutgoingChanges(cs) == Each(cs.outgoing, "AddNode")
IncomingChanges(cs) ==
    Each(cs.outgoing, "RemoveNode") \o Each(cs.incoming, "AddNode")
        \o Each(cs.learners, "AddLearnerNode") \o Each(cs.learners_next, "AddLearnerNode")

\* A simple change for each of ccs; a refusal ends it.
SimpleNext(d, cc) == IF d.error = "none" THEN Simple(d.cfg, d.prs, <<cc>>) ELSE d

OneByOne(c, ccs) ==
    LET after[i \in 0..Len(ccs)] ==
            IF i = 0 THEN c ELSE SimpleNext(after[i - 1], ccs[i])
    IN  after[Len(ccs)]

\* restore on an empty tracker.
Restored(cs) ==
    IF cs.outgoing = {} THEN OneByOne(Changed(Empty, {}, "none"), IncomingChanges(cs))
    ELSE LET c == OneByOne(Changed(Empty, {}, "none"), OutgoingChanges(cs))
         IN  IF c.error # "none" THEN c
             ELSE EnterJoint(c.cfg, c.prs, cs.auto_leave, IncomingChanges(cs))

\* Raft::new compares what it restored with what it was given.
Restart ==
    LET c == Restored(ConfState(conf))
    IN  /\ panics = {}
        /\ conf' = c.cfg
        /\ progress' = c.prs
        /\ panics' = IF c.error # "none" THEN {"restore_refused"}
                     ELSE IF ConfState(c.cfg) # ConfState(conf) THEN {"invalid_restore"}
                     ELSE {}

Init ==
    LET c == Restored([Empty EXCEPT !.incoming = InitialVoters])
    IN  conf = c.cfg /\ progress = c.prs /\ panics = {}

ChangeSeqs == UNION {[1..n -> Singles] : n \in 0..MaxChanges}

Next ==
    \/ \E transition \in Transitions : \E ccs \in ChangeSeqs : ApplyConfChange(transition, ccs)
    \/ Restart

Spec == Init /\ [][Next]_vars

-----------------------------------------------------------------------------

\* The types of the variables; a learner is in neither half of the joint
\* configuration (tracker/mod.rs:26-30), and the progress map has the peers of
\* the configuration and no others, so that no vote, acknowledgement or message
\* is of a peer that left, and none of a new one is lost (apply_conf).
ProgressIsConfiguration ==
    panics = {} =>
        /\ progress = conf.incoming \cup conf.outgoing \cup conf.learners \cup conf.learners_next
        /\ progress \subseteq Ids
        /\ Valid(conf, progress)

\* check_invariants is never why a change is refused, nor a state in which it
\* fails ever met: the reasons are the documented ones, and a joint
\* configuration can always be left.
CheckNeverRefuses ==
    panics = {} =>
        \A transition \in Transitions : \A ccs \in ChangeSeqs :
            Change(conf, progress, transition, ccs).error # "invalid"

Quorate(cfg, S) == HasQuorum(cfg.incoming, cfg.outgoing, S)

\* From one configuration to the next any quorum of the old one and any of the
\* new one have a peer in common, so that nodes on both sides of a change
\* cannot elect two leaders in one term or forget what was committed. As more
\* peers never spoil a quorum, it is enough that no quorum leaves a quorum of
\* the other configuration outside.
QuorumsOverlap ==
    [][panics' = {} => \A S \in SUBSET Ids : Quorate(conf, S) => ~Quorate(conf', Ids \ S)]_vars

\* A node that restarts with the ConfState it gave out is again what it was:
\* restore runs "a sequence of changes enacting the configuration described in
\* the ConfState" (confchange/restore.rs:88).
RestoreEnactsConfState == panics = {}
=============================================================================
